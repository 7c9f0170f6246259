------------------------------- MODULE Catalogue -------------------------------
(***************************************************************************)
(* What is offered, through which channels and at what price: the          *)
(* administrators' catalogue (httpserver/admin_entities.go,                *)
(* admin_channels.go, admin_groups.go and their repositories), and the     *)
(* calls that read it piece by piece while it changes (router, gateway).   *)
(*                                                                         *)
(* A handler of one statement is one action.  Those that read first and    *)
(* write later, and the calls, are requests that run side by side.  A      *)
(* request may end at any point and leaves behind what it has written.     *)
(***************************************************************************)
EXTENDS Integers, FiniteSets

CONSTANTS
    Keep, Empty,            \* a field not sent; an amount sent as ""
    Global,                 \* mappings for any channel
    ModelNames, Asked,      \* what calls ask for by name
    Prices, Mappings,       \* ids of rows
    ChannelIds, Groups, Upstreams,
    Days, Today,            \* of effective_from and effective_to
    PriceForms,             \* what is sent to the price endpoints
    Rates,                  \* what is sent as a multiplier
    TokenCounts,            \* what a call may be metered at
    Procs,                  \* requests served at the same time
    MaxBegun,               \* bound: operations
    MaxKeys                 \* bound: master keys

\* No effective_to.
Never == 0

\* An empty price of cached tokens is refused at creation, and is not sent else.
ASSUME CatalogueAssumption ==
    /\ Asked \in ModelNames
    /\ Today \in Days /\ Days \subseteq Nat \ {Never}
    /\ Rates \subseteq Int
    /\ PriceForms \subseteq
           [in : Int \cup {Keep, Empty}, out : Int \cup {Keep, Empty},
            cache : Int \cup {Keep}, per : Int \cup {Keep, Empty},
            from : Days \cup {Keep}, to : Days \cup {Keep}]
    /\ TokenCounts \subseteq [in : Nat, out : Nat, cache : Nat]

VARIABLES
    provider,   \* status; there is one, and it is never deleted
    model,      \* models: status, fallbacks
    price,      \* model_prices of the model Asked
    channel,    \* channels
    bound,      \* channel_groups: rows of a channel
    mapping,    \* model_mappings with the alias Asked
    rate,       \* groups.rate_multiplier
    mk,         \* security.master_key: which one, the previous is mk - 1
    req,        \* requests being served
    begun,
    wanted,     \* prices: what was last asked for, field by field
    mixed,      \* prices of which two requests were under way at once
    late        \* channels bound by a request that found them before they went

rows == <<provider, model, price, channel, bound, mapping, rate>>
history == <<wanted, mixed, late>>
catalogueVars == <<rows, mk, req, begun, history>>

NoPrice == [in |-> 0, out |-> 0, cache |-> 0, per |-> 0, from |-> Today, to |-> Never]
NoTokens == [in |-> 0, out |-> 0, cache |-> 0]
AnyOf(S) == CHOOSE x \in S : TRUE
NoMapping == [channel |-> Global, up |-> AnyOf(Upstreams)]

Blank == [pc |-> "idle", to |-> 0, new |-> NoMapping, form |-> Keep, seen |-> {},
          set |-> {}, over |-> FALSE, no |-> 0, key |-> 0, rate |-> 1,
          price |-> NoPrice, chain |-> {}, plan |-> {}, used |-> NoTokens, cost |-> 0]

NoChannel == [row |-> "none", status |-> "active", sched |-> TRUE, rate |-> 1,
              circuit |-> "closed", key |-> 0, aad |-> 0]

CatalogueInit ==
    /\ provider = "active"
    /\ model = [m \in ModelNames |->
                  [status |-> IF m = Asked THEN "active" ELSE "none",
                   fallbacks |-> {}]]
    /\ \E first \in Prices :
           price = [i \in Prices |->
                      [row |-> IF i = first THEN "live" ELSE "none",
                       in |-> 1, out |-> 2, cache |-> 1, per |-> 0,
                       from |-> Today, to |-> Never]]
    /\ \E first \in ChannelIds, circuit \in {"closed", "open"} :
           /\ channel = [c \in ChannelIds |->
                           IF c = first
                           THEN [NoChannel EXCEPT !.row = "live", !.aad = c,
                                                  !.circuit = circuit]
                           ELSE NoChannel]
           /\ bound = [c \in ChannelIds |-> [group : IF c = first THEN Groups ELSE {},
                                           no : {0}]]
    /\ mapping = [i \in Mappings |-> [row |-> "none", channel |-> Global,
                                      up |-> AnyOf(Upstreams)]]
    /\ rate = [g \in Groups |-> 1]
    /\ mk = 0
    /\ req = [p \in Procs |-> Blank]
    /\ begun = 0
    /\ wanted = [i \in Prices |-> [in |-> 1, out |-> 2, cache |-> 1, per |-> 0,
                                   from |-> Today, to |-> Never]]
    /\ mixed = {} /\ late = {}

At(p, label) == req[p].pc = label
End(p) == req' = [req EXCEPT ![p] = Blank]
Update(p, r) == req' = [req EXCEPT ![p] = r]

Counted == begun < MaxBegun /\ begun' = begun + 1

\* An instance serves it, with the keys it was started with.
Begin(p, r) ==
    /\ At(p, "idle") /\ Counted
    /\ Update(p, [r EXCEPT !.no = begun + 1, !.key = mk])
    /\ UNCHANGED <<rows, mk, history>>

\* Any error, a refusal, or a client that went away.
Drop(p) ==
    /\ ~At(p, "idle")
    /\ End(p)
    /\ UNCHANGED <<rows, mk, begun, history>>

\* The process dies.
Restart ==
    /\ req' = [p \in Procs |-> Blank]
    /\ UNCHANGED <<rows, mk, begun, history>>

-----------------------------------------------------------------------------
(* Providers and models.                                                   *)

UpsertProvider(status) ==
    /\ Counted
    /\ provider' = status
    /\ UNCHANGED <<model, price, channel, bound, mapping, rate, mk, req, history>>

\* Names are unique among those not deleted.
CreateModel(m, status) ==
    /\ Counted
    /\ model[m].status \in {"none", "deleted"}
    /\ model' = [model EXCEPT ![m] = [status |-> status, fallbacks |-> {}]]
    /\ UNCHANGED <<provider, price, channel, bound, mapping, rate, mk, req, history>>

Fields(row, status, fallbacks) ==
    [status |-> IF status = Keep THEN row.status ELSE status,
     fallbacks |-> IF fallbacks = {} THEN row.fallbacks ELSE fallbacks]

UpdateModelFields(m, status, fallbacks) ==
    model' = [model EXCEPT ![m] = Fields(@, status, fallbacks)]

PatchModel(m, status, fallbacks) ==
    /\ Counted
    /\ model[m].status \in {"active", "hidden"}
    /\ status # Keep \/ fallbacks # {}
    /\ UpdateModelFields(m, status, fallbacks)
    /\ UNCHANGED <<provider, price, channel, bound, mapping, rate, mk, req, history>>

DeleteModel(m) ==
    /\ Counted
    /\ model[m].status \in {"active", "hidden"}
    /\ model' = [model EXCEPT ![m].status = "deleted"]
    /\ UNCHANGED <<provider, price, channel, bound, mapping, rate, mk, req, history>>

-----------------------------------------------------------------------------
(* Prices.  A PATCH reads the row, fills in what was not sent, checks the  *)
(* whole and writes the whole.  The long-context columns, which no form    *)
(* has, are written empty each time; the two prices of cached tokens are   *)
(* one here.                                                               *)

PriceFields == {"in", "out", "cache", "per", "from", "to"}
KeptFields == PriceFields \ {"to"}

\* An amount sent as "" counts as not sent.
Sent(form, f) == form[f] \notin {Keep, Empty}

Filled(form, row) == [f \in PriceFields |-> IF Sent(form, f) THEN form[f] ELSE row[f]]

\* Mutant of Merged: amounts that were not sent are zero.
Zeroed(form, row) == Filled(form, [NoPrice EXCEPT !.from = row.from])

\* mergePriceReq: effective_to is not carried over.
Merged(form, row) == Filled(form, [row EXCEPT !.to = Never])

\* priceReq.build: amounts are not negative.
Valid(p) == p.in >= 0 /\ p.out >= 0 /\ p.cache >= 0 /\ p.per >= 0

\* One row of a model for each effective_from.
Free(i, day) == ~\E j \in Prices \ {i} : price[j].row = "live" /\ price[j].from = day

Row(p) == [row |-> "live", in |-> p.in, out |-> p.out, cache |-> p.cache,
           per |-> p.per, from |-> p.from, to |-> p.to]

CreatePrice(i, form) ==
    LET new == Filled(form, NoPrice) IN
    /\ Counted
    /\ price[i].row = "none" /\ Valid(new) /\ Free(i, new.from)
    /\ price' = [price EXCEPT ![i] = Row(new)]
    /\ wanted' = [wanted EXCEPT ![i] = new]
    /\ UNCHANGED <<provider, model, channel, bound, mapping, rate, mk, req, mixed,
                   late>>

AskPricePatch(p, i, form) ==
    LET new == Merged(form, price[i]) IN
    /\ price[i].row = "live" /\ Valid(new)
    /\ Begin(p, [Blank EXCEPT !.pc = "price", !.to = i, !.form = form, !.price = new])

\* The row may have been written, or deleted, since it was read.
UpdateModelPrice(p) ==
    LET i == req[p].to  new == req[p].price IN
    /\ At(p, "price") /\ price[i].row = "live" /\ Free(i, new.from)
    /\ price' = [price EXCEPT ![i] = Row(new)]
    /\ wanted' = [wanted EXCEPT ![i] = Filled(req[p].form, @)]
    /\ mixed' = IF req[p].over THEN mixed \cup {i} ELSE mixed
    /\ req' = [q \in Procs |->
                 IF q = p THEN Blank
                 ELSE IF At(q, "price") /\ req[q].to = i
                 THEN [req[q] EXCEPT !.over = TRUE] ELSE req[q]]
    /\ UNCHANGED <<provider, model, channel, bound, mapping, rate, mk, begun, late>>

DeletePrice(i) ==
    /\ Counted
    /\ price[i].row = "live"
    /\ price' = [price EXCEPT ![i].row = "deleted"]
    /\ UNCHANGED <<provider, model, channel, bound, mapping, rate, mk, req, history>>

-----------------------------------------------------------------------------
(* Mappings.  No index forbids a second one like the first.                *)

Alike(m, n) == m.channel = n.channel /\ m.up = n.up

ModelMappingExists(new) ==
    \E i \in Mappings : mapping[i].row = "live" /\ Alike(mapping[i], new)

AskMapping(p, new) ==
    /\ ~ModelMappingExists(new)
    /\ Begin(p, [Blank EXCEPT !.pc = "mapping", !.new = new])

CreateModelMapping(p) ==
    LET new == req[p].new IN
    /\ At(p, "mapping")
    /\ new.channel # Global => channel[new.channel].row # "none"
    /\ \E i \in Mappings :
           /\ mapping[i].row = "none"
           /\ mapping' = [mapping EXCEPT ![i] = [row |-> "live", channel |-> new.channel,
                                                 up |-> new.up]]
    /\ End(p)
    /\ UNCHANGED <<provider, model, price, channel, bound, rate, mk, begun, history>>

DeleteMapping(i) ==
    /\ Counted
    /\ mapping[i].row = "live"
    /\ mapping' = [mapping EXCEPT ![i].row = "deleted"]
    /\ UNCHANGED <<provider, model, price, channel, bound, rate, mk, req, history>>

-----------------------------------------------------------------------------
(* Channels and their credentials.                                         *)

NotNegative(r) == r # Keep => r >= 0

\* What is stored: sealed with the instance's key, for this channel alone.
Seal(c, key) == [key |-> key, aad |-> c]

\* The current key, then the previous one; the text must be for this channel.
Opens(row, c, key) == row.key \in {key, key - 1} /\ row.aad = c

\* The row and its sealed credentials are one transaction; weight and
\* concurrency of the form are not looked at.
CreateChannel(c, r, sched) ==
    LET sealed == Seal(c, mk) IN
    /\ Counted
    /\ NotNegative(r) /\ channel[c].row = "none"
    /\ channel' = [channel EXCEPT ![c] =
                      [NoChannel EXCEPT !.row = "live", !.sched = sched,
                                        !.rate = IF r = Keep THEN 1 ELSE r,
                                        !.key = sealed.key, !.aad = sealed.aad]]
    /\ UNCHANGED <<provider, model, price, bound, mapping, rate, mk, req, history>>

\* It is there; new credentials are written before the other fields.
AskChannelPatch(p, c, r, creds) ==
    /\ channel[c].row = "live" /\ NotNegative(r)
    /\ creds \/ r # Keep
    /\ Begin(p, [Blank EXCEPT !.pc = IF creds THEN "creds" ELSE "fields",
                              !.to = c, !.rate = r])

SetChannelCredentials(p) ==
    LET c == req[p].to  sealed == Seal(c, req[p].key) IN
    /\ At(p, "creds") /\ channel[c].row = "live"
    /\ channel' = [channel EXCEPT ![c].key = sealed.key, ![c].aad = sealed.aad]
    /\ Update(p, IF req[p].rate = Keep THEN Blank ELSE [req[p] EXCEPT !.pc = "fields"])
    /\ UNCHANGED <<provider, model, price, bound, mapping, rate, mk, begun, history>>

UpdateChannel(p) ==
    LET c == req[p].to IN
    /\ At(p, "fields") /\ channel[c].row = "live"
    /\ channel' = [channel EXCEPT ![c].rate = req[p].rate]
    /\ End(p)
    /\ UNCHANGED <<provider, model, price, bound, mapping, rate, mk, begun, history>>

SetChannelEnabled(c, enabled) ==
    /\ Counted
    /\ channel[c].row = "live"
    /\ channel' = [channel EXCEPT ![c].status = IF enabled THEN "active" ELSE "disabled",
                                  ![c].sched = enabled]
    /\ UNCHANGED <<provider, model, price, bound, mapping, rate, mk, req, history>>

ResetChannelCircuit(c) ==
    /\ Counted
    /\ channel[c].row = "live"
    /\ channel' = [channel EXCEPT ![c].circuit = "closed"]
    /\ UNCHANGED <<provider, model, price, bound, mapping, rate, mk, req, history>>

\* The service is started again, with a new master key beside the old one.
\* Instances that were there before go on with what they have.
RotateMasterKey ==
    /\ mk < MaxKeys - 1
    /\ mk' = mk + 1
    /\ UNCHANGED <<rows, req, begun, history>>

-----------------------------------------------------------------------------
(* Who sees a channel.  Read committed: rows that come after a DELETE has  *)
(* looked stay.                                                            *)

\* Mutant of ChannelByID: deleted rows are rows too.
AnyRow(c) == channel[c].row # "none"

ChannelByID(c) == channel[c].row = "live"

AskChannelGroups(p, c, set) ==
    /\ ChannelByID(c)
    /\ Begin(p, [Blank EXCEPT !.pc = "clear", !.to = c, !.set = set])

ClearChannelGroups(p) ==
    /\ At(p, "clear")
    /\ Update(p, [req[p] EXCEPT !.pc = "bind", !.seen = bound[req[p].to]])
    /\ UNCHANGED <<rows, mk, begun, history>>

\* The foreign key is satisfied by a row that is deleted softly.
ReplaceChannelGroups(p) ==
    LET c == req[p].to
        rest == bound[c] \ req[p].seen
        new == {g \in req[p].set : ~\E row \in rest : row.group = g}
        going == \E q \in Procs : At(q, "erase") /\ req[q].to = c
    IN
    /\ At(p, "bind")
    /\ bound' = [bound EXCEPT ![c] = rest \cup [group : new, no : {req[p].no}]]
    /\ late' = IF req[p].over \/ going THEN late \cup {c} ELSE late
    /\ End(p)
    /\ UNCHANGED <<provider, model, price, channel, mapping, rate, mk, begun, wanted,
                   mixed>>

\* DeleteChannel, one transaction of two statements.
UnbindChannel(p, c) ==
    Begin(p, [Blank EXCEPT !.pc = "erase", !.to = c, !.seen = bound[c]])

\* Those who found the channel before are told so.
DeleteChannel(p) ==
    LET c == req[p].to IN
    /\ At(p, "erase") /\ channel[c].row = "live"
    /\ bound' = [bound EXCEPT ![c] = @ \ req[p].seen]
    /\ channel' = [channel EXCEPT ![c].row = "deleted"]
    /\ req' = [q \in Procs |->
                 IF q = p THEN Blank
                 ELSE IF req[q].pc \in {"clear", "bind"} /\ req[q].to = c
                 THEN [req[q] EXCEPT !.over = TRUE] ELSE req[q]]
    /\ UNCHANGED <<provider, model, price, mapping, rate, mk, begun, history>>

\* Groups: a rate of 0 is 1 at creation, later it is stored as it is.
PatchGroup(g, r) ==
    /\ Counted
    /\ r >= 0
    /\ rate' = [rate EXCEPT ![g] = r]
    /\ UNCHANGED <<provider, model, price, channel, bound, mapping, mk, req, history>>

-----------------------------------------------------------------------------
(* A call reads its group's rate, the model, its price, the channels and   *)
(* the mappings, one after the other, and is charged by what it read.      *)

BeginCall(p, g) ==
    Begin(p, [Blank EXCEPT !.pc = "model", !.to = g, !.rate = rate[g]])

\* group's and model's fallbacks come after the model itself.
FallbackChain(m) == {m} \cup model[m].fallbacks

ModelByName(p) ==
    /\ At(p, "model") /\ model[Asked].status = "active"
    /\ Update(p, [req[p] EXCEPT !.pc = "quote", !.chain = FallbackChain(Asked)])
    /\ UNCHANGED <<rows, mk, begun, history>>

Current(i) ==
    /\ price[i].row = "live" /\ price[i].from <= Today
    /\ \A j \in Prices : price[j].row = "live" /\ price[j].from <= Today
                           => price[j].from <= price[i].from

Quote(row) == [in |-> row.in, out |-> row.out, cache |-> row.cache, per |-> row.per,
               from |-> row.from, to |-> row.to]

\* effective_to is not looked at.  Without a price in force a call costs nothing.
CurrentModelPrice(p) ==
    /\ At(p, "quote")
    /\ \/ \E i \in Prices : Current(i) /\
             Update(p, [req[p] EXCEPT !.pc = "channels", !.price = Quote(price[i])])
       \/ /\ ~\E i \in Prices : Current(i)
          /\ Update(p, [req[p] EXCEPT !.pc = "channels", !.form = Keep])
    /\ UNCHANGED <<rows, mk, begun, history>>

\* The provider's status is not asked for.
Candidates(g) ==
    {c \in ChannelIds : /\ \E row \in bound[c] : row.group = g
                      /\ channel[c].row = "live"
                      /\ channel[c].status = "active" /\ channel[c].sched}

UsableAt(c) == channel[c].circuit # "open"

RouteCandidatesByGroup(p) ==
    LET found == {c \in Candidates(req[p].to) : UsableAt(c)} IN
    /\ At(p, "channels")
    /\ found # {}
    /\ Update(p, [req[p] EXCEPT !.pc = "mappings", !.plan =
                     {[channel |-> c, row |-> channel[c], up |-> Asked] : c \in found}])
    /\ UNCHANGED <<rows, mk, begun, history>>

\* The channel's own first, then those for any; else the name as it is.
UpstreamsOf(c) ==
    LET to(ch) == {mapping[i].up : i \in {j \in Mappings : mapping[j].row = "live"
                                                          /\ mapping[j].channel = ch}}
    IN IF to(c) # {} THEN to(c) ELSE IF to(Global) # {} THEN to(Global) ELSE {Asked}

MappingRows(p) ==
    /\ At(p, "mappings")
    /\ \E up \in [req[p].plan -> Upstreams \cup {Asked}] :
           /\ \A a \in req[p].plan : up[a] \in UpstreamsOf(a.channel)
           /\ Update(p, [req[p] EXCEPT !.pc = "try",
                           !.plan = {[a EXCEPT !.up = up[a]] : a \in @}])
    /\ UNCHANGED <<rows, mk, begun, history>>

\* A multiplier of 0 counts as 1.
Factor(r, s) == IF r * s = 0 THEN 1 ELSE r * s

\* Mutant of ComputeCost: per 1000 tokens, in whole numbers.
Truncated(quote, t, r, s, perRequest) ==
    ((quote.in * t.in + quote.out * t.out + quote.cache * t.cache) * Factor(r, s)) \div 1000

\* Amounts are per token.
ComputeCost(quote, t, r, s, perRequest) ==
    (quote.in * t.in + quote.out * t.out + quote.cache * t.cache) * Factor(r, s)
        + IF perRequest THEN quote.per ELSE 0

BuildRuntime(p, a) == Opens(a.row, a.channel, req[p].key)

\* An attempt whose credentials do not open is passed over.  No caller of
\* ComputeCost asks for the price per request; what is metered may be nothing.
Reply(p) ==
    /\ At(p, "try")
    /\ \E a \in req[p].plan, used \in TokenCounts :
           /\ BuildRuntime(p, a)
           /\ Update(p, [req[p] EXCEPT !.pc = "answered", !.plan = {a}, !.used = used,
                  !.cost = ComputeCost(req[p].price, used, req[p].rate, a.row.rate, FALSE)])
    /\ UNCHANGED <<rows, mk, begun, history>>

-----------------------------------------------------------------------------
Offering ==
    \/ \E status \in {"active", "disabled"} : UpsertProvider(status)
    \/ \E m \in ModelNames :
           \/ \E status \in {"active", "hidden"} : CreateModel(m, status)
           \/ \E status \in {"active", "hidden", Keep}, fb \in SUBSET (ModelNames \ {m}) :
                  PatchModel(m, status, fb)
           \/ DeleteModel(m)

Pricing ==
    \/ \E i \in Prices, form \in PriceForms : CreatePrice(i, form)
    \/ \E p \in Procs, i \in Prices, form \in PriceForms : AskPricePatch(p, i, form)
    \/ \E p \in Procs : UpdateModelPrice(p)
    \/ \E i \in Prices : DeletePrice(i)

Mapping ==
    \/ \E p \in Procs, new \in [channel : ChannelIds \cup {Global}, up : Upstreams] :
           AskMapping(p, new)
    \/ \E p \in Procs : CreateModelMapping(p)
    \/ \E i \in Mappings : DeleteMapping(i)

Channelling ==
    \/ \E c \in ChannelIds :
           \/ \E r \in Rates \cup {Keep}, sched \in BOOLEAN : CreateChannel(c, r, sched)
           \/ \E enabled \in BOOLEAN : SetChannelEnabled(c, enabled)
           \/ ResetChannelCircuit(c)
    \/ \E p \in Procs, c \in ChannelIds :
           \/ \E r \in Rates \cup {Keep}, creds \in BOOLEAN : AskChannelPatch(p, c, r, creds)
           \/ \E set \in SUBSET Groups : AskChannelGroups(p, c, set)
           \/ UnbindChannel(p, c)
    \/ \E p \in Procs : \/ SetChannelCredentials(p) \/ UpdateChannel(p)
                         \/ ClearChannelGroups(p) \/ ReplaceChannelGroups(p)
                         \/ DeleteChannel(p)
    \/ \E g \in Groups, r \in Rates : PatchGroup(g, r)
    \/ RotateMasterKey

Calls ==
    \E p \in Procs :
        \/ \E g \in Groups : BeginCall(p, g)
        \/ ModelByName(p) \/ CurrentModelPrice(p) \/ RouteCandidatesByGroup(p)
        \/ MappingRows(p) \/ Reply(p)

CatalogueNext ==
    \/ Offering \/ Pricing \/ Mapping \/ Channelling \/ Calls
    \/ \E p \in Procs : Drop(p)
    \/ Restart

CatalogueSpec == CatalogueInit /\ [][CatalogueNext]_catalogueVars
-----------------------------------------------------------------------------
\* A deleted channel is bound to no group, unless a PUT of its groups had found
\* it before it went: check, DELETE and INSERT are separate statements, and the
\* foreign key still finds the row (handleChannelGroupsPut, DeleteChannel).
DeletedIsUnbound ==
    \A c \in ChannelIds : channel[c].row = "deleted" /\ bound[c] # {} => c \in late

\* The amounts of a price and the day it begins are, each of them, what was last
\* asked for, unless two PATCHes of it were under way at once: each writes back
\* the whole row it once read, and takes the other's change away
\* (handlePricePatch).  Not so effective_to, which mergePriceReq does not carry over
\* (admin_entities.go:402): every PATCH that does not send it empties it.
PatchKeepsOthers ==
    \A i \in Prices : price[i].row = "live" =>
        \/ i \in mixed
        \/ \A f \in KeptFields : price[i][f] = wanted[i][f]

\* Whatever the mix of old and new that a call has read, it never pays its user,
\* and it is free only if nothing was counted that has a price per token (every
\* form that takes an amount or a multiplier, and ComputeCost).
CostSound ==
    \A p \in Procs : At(p, "answered") =>
        /\ req[p].cost >= 0
        /\ req[p].cost = 0 =>
              \A kind \in {"in", "out", "cache"} :
                  req[p].used[kind] > 0 => req[p].price[kind] = 0

(***************************************************************************)
(* The invariants they follow from.                                        *)
(***************************************************************************)
Amounts == [in : Nat, out : Nat, cache : Nat, per : Nat, from : Days,
            to : Days \cup {Never}]
PriceRows == [row : {"none", "live", "deleted"}, in : Nat, out : Nat, cache : Nat,
              per : Nat, from : Days, to : Days \cup {Never}]
ChannelRows == [row : {"none", "live", "deleted"}, status : {"active", "disabled"},
                sched : BOOLEAN, rate : Nat, circuit : {"closed", "open"},
                key : Nat, aad : ChannelIds \cup {0}]
Bindings == [group : Groups, no : Nat]
NewMappings == [channel : ChannelIds \cup {Global}, up : Upstreams]
Tries == [channel : ChannelIds, row : ChannelRows, up : Upstreams \cup {Asked}]
Labels == {"idle", "price", "mapping", "creds", "fields", "clear", "bind", "erase",
           "model", "quote", "channels", "mappings", "try", "answered"}
Requests == [pc : Labels, to : {0} \cup Prices \cup ChannelIds \cup Groups,
             new : NewMappings \cup {NoMapping}, form : {Keep} \cup PriceForms,
             seen : SUBSET Bindings, set : SUBSET Groups, over : BOOLEAN,
             no : Nat, key : Nat, rate : Nat \cup {Keep}, price : Amounts,
             chain : SUBSET ModelNames, plan : SUBSET Tries, used : [in : Nat, out : Nat, cache : Nat],
             cost : Int]

CatalogueTypeOK ==
    /\ price \in [Prices -> PriceRows]
    /\ wanted \in [Prices -> Amounts]
    /\ channel \in [ChannelIds -> ChannelRows]
    /\ bound \in [ChannelIds -> SUBSET Bindings]
    /\ rate \in [Groups -> Nat]
    /\ mk \in Nat /\ begun \in Nat
    /\ req \in [Procs -> Requests]
    /\ model \in [ModelNames -> [status : {"none", "active", "hidden", "deleted"},
                                 fallbacks : SUBSET ModelNames]]

\* What a request is about; a price it writes has what was sent, and a multiplier
\* that it writes was checked.
About(q) ==
    /\ q.pc = "price" =>
         /\ q.to \in Prices /\ q.form \in PriceForms
         /\ \A f \in PriceFields : Sent(q.form, f) => q.price[f] = q.form[f]
    /\ q.pc \in {"creds", "fields", "clear", "bind", "erase"} => q.to \in ChannelIds
    /\ q.pc \in {"model", "quote", "channels"} => q.to \in Groups
    /\ q.pc \notin {"idle", "creds"} => q.rate \in Nat

\* A PATCH of a price that nobody has overtaken leaves what it was not sent.
Patches(q) ==
    q.pc = "price" =>
        /\ price[q.to].row # "none"
        /\ ~q.over => \A f \in KeptFields :
               ~Sent(q.form, f) => q.price[f] = price[q.to][f]

PriceInv ==
    /\ \A p \in Procs : Patches(req[p])
    /\ \A i \in Prices \ mixed, f \in KeptFields : price[i][f] = wanted[i][f]

\* Unless two requests have crossed, a PUT of a channel's groups is told when the
\* channel goes, and a deletion has seen all the groups there are.
Binds(q) ==
    /\ q.pc \in {"clear", "bind"} /\ ~q.over => channel[q.to].row = "live"
    /\ q.pc = "erase" /\ q.to \notin late => bound[q.to] \subseteq q.seen

BoundInv == DeletedIsUnbound /\ \A p \in Procs : Binds(req[p])

CatalogueInv ==
    /\ CatalogueTypeOK /\ \A p \in Procs : About(req[p])
    /\ PriceInv /\ BoundInv /\ CostSound
=============================================================================
