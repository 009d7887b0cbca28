--------------------------- MODULE SwarmEconomy ---------------------------
(***************************************************************************)
(* The threads that change the value ledger: the economy reactors, which   *)
(* hear the swarm's events on the thread that hands out messages, and the  *)
(* dashboards' request handlers, which transfer, settle, tip, bootstrap    *)
(* and record mining evidence (mods/mining_provenance) that pays rewards.  *)
(*                                                                         *)
(* A step is one Redis command with the computing up to the next, so calls *)
(* of different threads interleave between commands.  A call may be cut    *)
(* short (the process stops, a command raises) and a failed command may be *)
(* swallowed where the code does that.  A handler awaits nothing, so one   *)
(* dashboard is one thread; the reactor's lock adds nothing to its thread. *)
(***************************************************************************)
EXTENDS ValueLedger, Functions

CONSTANTS
    Listeners,     \* threads messages come in on, each with a node's EconomyReactor
    Desks,         \* dashboard event loops
    Home,          \* the node a thread runs in
    Fee,           \* transfer_fee in a thread's environment
    Reward,        \* BVLPolicy: what each reason pays
    Credit,        \* CREDIT: what each evidence level pays, 0 for none
    SatsPer,       \* settle_sats_per_bvl
    TipSats,       \* sats_per_seed
    Amounts,       \* amounts asked for in transfers and settlements
    MaxIndexed,    \* events kept in a list of the evidence index (500)
    MaxCalls,      \* bound: calls that start
    Failing,       \* whether calls are cut short and commands fail
    NaN,           \* the float that is no number, which a request may ask for too
    NoNode, NoClaim, NoEvent

Callers == Listeners \cup Desks

ASSUME EconomyAssumption ==
    /\ Home \in [Callers -> Nodes]
    /\ Fee \in [Callers -> Nat]
    /\ Reward \in [Reasons -> Nat \ {0}]
    /\ Credit \in [Levels -> Nat] /\ Credit[1] = 0
    /\ SatsPer \in Nat /\ TipSats \in Nat
    /\ Amounts \subseteq Nat \ {0} /\ NaN \notin Nat
    /\ MaxIndexed \in Nat \ {0}
    /\ MaxCalls \in Nat
    /\ Failing \in BOOLEAN
    /\ NoNode \notin Nodes /\ NoClaim \notin Claims /\ NoEvent \notin Events

VARIABLES
    calls,      \* what each thread is in the middle of
    made,       \* calls started
    evidence,   \* mining:event:<id>: its level, 0 while there is no such key
    owner,      \* the node an event id was made for
    index,      \* mining:events:index, one of its lists
    orderly,    \* history: calls came one by one, in numbers, and ran to their end
    numbers     \* history: every amount asked for was a number

vars == <<bal, nans, supply, claims, entries, tips, paid, again,
          calls, made, evidence, owner, index, orderly, numbers>>

Kinds == {"reward", "transfer", "settle", "settled", "tip", "share", "upgrade"}
Stages == {"idle", "genesis", "check", "read_credit", "write_credit", "read_debit",
           "write_debit", "read_supply", "write_supply", "read_entries",
           "write_entries", "mark", "read_tips", "write_tips", "read_event",
           "write_event", "read_index", "write_index"}

\* at is the command a thread is about to send; seen and the three lists are
\* what it has read and will write back changed.  An amount that is no number
\* is nan with 0 in amount; a balance read that is none is odd with 0 in seen.
Call == [at : Stages, kind : Kinds, node : Nodes, to : Nodes, amount : Nat, fee : Nat,
         nan : BOOLEAN, odd : BOOLEAN,
         claim : Claims \cup {NoClaim}, event : Events \cup {NoEvent}, level : 0..4,
         seen : Nat, entries : Seq(Entry), tips : Seq(TipEntry), index : Seq(Events)]

Blank(n) == [at |-> "idle", kind |-> "reward", node |-> n, to |-> n, amount |-> 0,
             fee |-> 0, nan |-> FALSE, odd |-> FALSE, claim |-> NoClaim,
             event |-> NoEvent, level |-> 0, seen |-> 0,
             entries |-> <<>>, tips |-> <<>>, index |-> <<>>]

RewardCall(n, amount, claim) ==
    [Blank(n) EXCEPT !.at = "check", !.amount = amount, !.claim = claim]

Busy(c) == calls[c].at # "idle"
Payee(k) == IF k.kind = "transfer" THEN k.to ELSE k.node
Owed(k) == k.amount + k.fee
\* Whether a balance changed by the amount is a number.
Counts(k) == ~k.nan /\ ~k.odd
\* Mutant of SupplyChange: the fee of a transfer is not burned.
SupplyChangeMutant(k) ==
    CASE k.kind = "reward" -> k.amount
      [] k.kind = "transfer" -> 0
      [] OTHER -> -k.amount

SupplyChange(k) ==
    CASE k.kind = "reward" -> k.amount
      [] k.kind = "transfer" -> -k.fee
      [] OTHER -> -k.amount
\* Mutant of EntryOf: the entry leaves the fee out.
EntryOfMutant(k) ==
    [type |-> CASE k.kind = "reward" -> "mint" [] k.kind = "transfer" -> "transfer"
                [] k.kind = "settle" -> "burn" [] OTHER -> "settle",
     node |-> k.node, to |-> k.to, amount |-> k.amount, fee |-> 0]

EntryOf(k) ==
    [type |-> CASE k.kind = "reward" -> "mint" [] k.kind = "transfer" -> "transfer"
                [] k.kind = "settle" -> "burn" [] OTHER -> "settle",
     node |-> k.node, to |-> k.to, amount |-> k.amount, fee |-> k.fee]
SatsOf(k) ==
    IF k.kind = "tip" THEN TipSats
    ELSE IF k.amount * SatsPer < 1 THEN 1 ELSE k.amount * SatsPer

Init ==
    /\ LedgerInit
    /\ calls = [c \in Callers |-> Blank(Home[c])]
    /\ made = 0
    /\ evidence = [e \in Events |-> 0]
    /\ owner = [e \in Events |-> NoNode]
    /\ index = <<>>
    /\ orderly = TRUE /\ numbers = TRUE

----------------------------------------------------------------------------
(* A call starts. *)

Start(c, k) ==
    /\ ~Busy(c)
    /\ made < MaxCalls
    /\ made' = made + 1
    /\ calls' = [calls EXCEPT ![c] = k]
    /\ orderly' = (orderly /\ ~k.nan /\ \A d \in Callers : ~Busy(d))
    /\ numbers' = (numbers /\ ~k.nan)
    /\ UNCHANGED <<bal, nans, supply, claims, entries, tips, paid, again, evidence, index>>

\* asset.complete and asset.anchored.  The handlers look for a dictionary and
\* are given a SwarmMessage: a completion is dropped, and an anchoring asks for
\* the reward of no asset, which reward_attest refuses.
HearsEvent(c) ==
    /\ ~Busy(c)
    /\ made < MaxCalls
    /\ made' = made + 1
    /\ UNCHANGED <<bal, nans, supply, claims, entries, tips, paid, again,
                   calls, evidence, owner, index, orderly, numbers>>

\* bvl.tick, or a worker loop's pulse_uptime: what it is given does not matter.
HearsTick(c, h) ==
    /\ Start(c, RewardCall(Home[c], Reward["uptime"], <<"uptime", Home[c], h>>))
    /\ UNCHANGED owner

\* No test refuses an amount that is no number: it is neither <= 0 nor > max_transfer.
Asked(k, x) == [k EXCEPT !.amount = IF x = NaN THEN 0 ELSE x, !.nan = (x = NaN)]

AsksTransfer(c, to, x) ==
    /\ to # Home[c]
    /\ Start(c, Asked([Blank(Home[c]) EXCEPT !.at = "read_debit", !.kind = "transfer",
                                             !.to = to, !.fee = Fee[c]], x))
    /\ UNCHANGED owner

\* The dashboard settles for any node it is given.
AsksSettlement(c, n, x) ==
    /\ Start(c, Asked([Blank(n) EXCEPT !.at = "read_debit", !.kind = "settle"], x))
    /\ UNCHANGED owner

AsksTip(c, n) ==
    /\ Start(c, [Blank(n) EXCEPT !.at = "read_tips", !.kind = "tip"])
    /\ UNCHANGED owner

AsksGenesis(c) ==
    /\ Start(c, [RewardCall(Home[c], Reward["seed_hold"], <<"seed_hold", Home[c], Genesis>>)
                     EXCEPT !.at = "genesis"])
    /\ UNCHANGED owner

\* The event's id is new; its node is the worker's, or this one.
ObservesShare(c, e, n) ==
    /\ owner[e] = NoNode
    /\ owner' = [owner EXCEPT ![e] = n]
    /\ Start(c, [Blank(n) EXCEPT !.at = "write_event", !.kind = "share",
                                 !.event = e, !.level = 1])

AsksUpgrade(c, e, level) ==
    /\ owner[e] # NoNode
    /\ Start(c, [Blank(owner[e]) EXCEPT !.at = "read_event", !.kind = "upgrade",
                                        !.event = e, !.level = level])
    /\ UNCHANGED owner

Starts(c) ==
    \/ /\ c \in Listeners
       /\ \/ HearsEvent(c)
          \/ \E h \in Hours : HearsTick(c, h)
    \/ /\ c \in Desks
       /\ \/ \E n \in Nodes, x \in Amounts \cup {NaN} :
                 AsksTransfer(c, n, x) \/ AsksSettlement(c, n, x)
          \/ \E n \in Nodes : AsksTip(c, n)
          \/ AsksGenesis(c)
          \/ \E e \in Events :
                 \/ \E n \in Nodes : ObservesShare(c, e, n)
                 \/ \E level \in Levels : AsksUpgrade(c, e, level)

----------------------------------------------------------------------------
(* The commands of a call. *)

Becomes(c, k) == calls' = [calls EXCEPT ![c] = k]
At(k, stage) == [k EXCEPT !.at = stage]
Sees(k, stage, value) == [k EXCEPT !.at = stage, !.seen = value, !.odd = FALSE]
SeesBalance(k, stage, n) ==
    [k EXCEPT !.at = stage, !.seen = bal[n], !.odd = (n \in nans)]
GoesTo(c, stage) == Becomes(c, At(calls[c], stage))
Returns(c) == Becomes(c, Blank(Home[c]))

BooksStay == UNCHANGED <<bal, nans, paid, again>>
RestStays == UNCHANGED <<made, evidence, owner, index, orderly, numbers>>

\* supply() > 0 refuses the bootstrap.
CheckGenesis(c) ==
    /\ calls[c].at = "genesis"
    /\ IF supply > 0 THEN Returns(c) ELSE GoesTo(c, "check")
    /\ BooksStay /\ RestStays /\ UNCHANGED <<supply, claims, entries, tips>>

\* Mutant of CheckClaim: the claim is marked before the reward is credited.
CheckClaimMutant(c) ==
    /\ calls[c].at = "check"
    /\ IF calls[c].claim \in claims THEN Returns(c) ELSE GoesTo(c, "read_credit")
    /\ claims' = claims \cup {calls[c].claim}
    /\ BooksStay /\ RestStays /\ UNCHANGED <<supply, entries, tips>>

\* _already_claimed
CheckClaim(c) ==
    /\ calls[c].at = "check"
    /\ IF calls[c].claim \in claims THEN Returns(c) ELSE GoesTo(c, "read_credit")
    /\ BooksStay /\ RestStays /\ UNCHANGED <<supply, claims, entries, tips>>

ReadCredit(c) ==
    /\ calls[c].at = "read_credit"
    /\ Becomes(c, SeesBalance(calls[c], "write_credit", Payee(calls[c])))
    /\ BooksStay /\ RestStays /\ UNCHANGED <<supply, claims, entries, tips>>

WriteCredit(c) ==
    LET k == calls[c] IN
    /\ k.at = "write_credit"
    /\ WriteBalance(Payee(k), k.seen + k.amount, Counts(k))
    /\ IF k.kind = "reward" THEN Credited(k.claim) ELSE UNCHANGED <<paid, again>>
    /\ GoesTo(c, "read_supply")
    /\ RestStays /\ UNCHANGED <<supply, claims, entries, tips>>

\* Mutant of Covers: the fee is forgotten.
CoversMutant(k) == Counts(k) => k.seen >= k.amount

\* bal < total refuses: never where either is no number.
Covers(k) == Counts(k) => k.seen >= Owed(k)

ReadDebit(c) ==
    LET k == SeesBalance(calls[c], "write_debit", calls[c].node) IN
    /\ calls[c].at = "read_debit"
    /\ IF Covers(k) THEN Becomes(c, k) ELSE Returns(c)
    /\ BooksStay /\ RestStays /\ UNCHANGED <<supply, claims, entries, tips>>

WriteDebit(c) ==
    LET k == calls[c] IN
    /\ k.at = "write_debit"
    /\ WriteBalance(k.node, k.seen - Owed(k), Counts(k))
    /\ GoesTo(c, IF k.kind = "transfer" THEN "read_credit" ELSE "read_supply")
    /\ RestStays /\ UNCHANGED <<supply, claims, entries, tips, paid, again>>

\* Mutant of AfterSupply: a reward, having no fee, only reports it too.
AfterSupplyMutant(k) == IF k.fee = 0 THEN "read_entries" ELSE "write_supply"

\* A transfer without a fee only reports the supply.
AfterSupply(k) ==
    IF k.kind = "transfer" /\ k.fee = 0 THEN "read_entries" ELSE "write_supply"

ReadSupply(c) ==
    LET k == calls[c] IN
    /\ k.at = "read_supply"
    /\ Becomes(c, Sees(k, AfterSupply(k), supply))
    /\ BooksStay /\ RestStays /\ UNCHANGED <<supply, claims, entries, tips>>

\* max(0.0, ...) makes 0 of a difference that is no number.
StoreSupply(c) ==
    LET k == calls[c] IN
    /\ k.at = "write_supply"
    /\ WriteSupply(IF k.kind = "settle" /\ k.nan THEN 0 ELSE k.seen + SupplyChange(k))
    /\ GoesTo(c, "read_entries")
    /\ BooksStay /\ RestStays /\ UNCHANGED <<claims, entries, tips>>

ReadEntries(c) ==
    /\ calls[c].at = "read_entries"
    /\ Becomes(c, [calls[c] EXCEPT !.at = "write_entries", !.entries = entries])
    /\ BooksStay /\ RestStays /\ UNCHANGED <<supply, claims, entries, tips>>

\* After its burn a settlement tips the node, or raises: int() takes no NaN.
WriteEntries(c) ==
    LET k == calls[c] IN
    /\ k.at = "write_entries"
    /\ entries' = Newest(Append(k.entries, EntryOf(k)), MaxEntries)
    /\ CASE k.kind = "reward" -> GoesTo(c, "mark")
         [] k.kind = "settle" /\ ~k.nan -> GoesTo(c, "read_tips")
         [] OTHER -> Returns(c)
    /\ BooksStay /\ RestStays /\ UNCHANGED <<supply, claims, tips>>

\* Mutant of MarkClaim: the mark is lost although nothing failed.
MarkClaimMutant(c) ==
    /\ calls[c].at = "mark"
    /\ Returns(c)
    /\ BooksStay /\ RestStays /\ UNCHANGED <<supply, claims, entries, tips>>

\* _mark_claimed, once the reward has been credited.
MarkClaim(c) ==
    /\ calls[c].at = "mark"
    /\ claims' = claims \cup {calls[c].claim}
    /\ Returns(c)
    /\ BooksStay /\ RestStays /\ UNCHANGED <<supply, entries, tips>>

ReadTips(c) ==
    /\ calls[c].at = "read_tips"
    /\ Becomes(c, [calls[c] EXCEPT !.at = "write_tips", !.tips = tips])
    /\ BooksStay /\ RestStays /\ UNCHANGED <<supply, claims, entries, tips>>

\* A settlement then appends its own entry.
AfterTip(c) ==
    IF calls[c].kind = "settle"
    THEN Becomes(c, [calls[c] EXCEPT !.at = "read_entries", !.kind = "settled"])
    ELSE Returns(c)

WriteTips(c) ==
    LET k == calls[c] IN
    /\ k.at = "write_tips"
    /\ tips' = Newest(Append(k.tips, [node |-> k.node, sats |-> SatsOf(k)]), MaxTips)
    /\ AfterTip(c)
    /\ BooksStay /\ RestStays /\ UNCHANGED <<supply, claims, entries>>

\* upgrade_evidence returns for an event that has expired or is above the level.
ReadEvent(c) ==
    LET k == calls[c] IN
    /\ k.at = "read_event"
    /\ IF evidence[k.event] = 0 \/ k.level < evidence[k.event]
       THEN Returns(c) ELSE GoesTo(c, "write_event")
    /\ BooksStay /\ RestStays /\ UNCHANGED <<supply, claims, entries, tips>>

WriteEvent(c) ==
    LET k == calls[c] IN
    /\ k.at = "write_event"
    /\ evidence' = [evidence EXCEPT ![k.event] = k.level]
    /\ GoesTo(c, "read_index")
    /\ BooksStay
    /\ UNCHANGED <<supply, claims, entries, tips, made, owner, index, orderly, numbers>>

ReadIndex(c) ==
    /\ calls[c].at = "read_index"
    /\ Becomes(c, [calls[c] EXCEPT !.at = "write_index", !.index = index])
    /\ BooksStay /\ RestStays /\ UNCHANGED <<supply, claims, entries, tips>>

\* Mutant of AfterIndex: the claim names the event and not the level.
AfterIndexMutant(c) ==
    LET k == calls[c] IN
    IF k.kind = "upgrade" /\ Credit[k.level] > 0
    THEN Becomes(c, RewardCall(k.node, Credit[k.level],
                               <<"seed_hold", k.node, <<k.event, 1>>>>))
    ELSE Returns(c)

\* maybe_credit_bvl: an upgrade to a level that pays becomes a reward whose
\* claim names the event and the level.
AfterIndex(c) ==
    LET k == calls[c] IN
    IF k.kind = "upgrade" /\ Credit[k.level] > 0
    THEN Becomes(c, RewardCall(k.node, Credit[k.level],
                               <<"seed_hold", k.node, <<k.event, k.level>>>>))
    ELSE Returns(c)

WriteIndex(c) ==
    LET k == calls[c] IN
    /\ k.at = "write_index"
    /\ index' = IF \E i \in 1..Len(k.index) : k.index[i] = k.event THEN k.index
                ELSE Newest(Append(k.index, k.event), MaxIndexed)
    /\ AfterIndex(c)
    /\ BooksStay
    /\ UNCHANGED <<supply, claims, entries, tips, made, evidence, owner, orderly, numbers>>

BookStep(c) ==
    \/ CheckGenesis(c) \/ CheckClaim(c) \/ ReadCredit(c) \/ WriteCredit(c)
    \/ ReadDebit(c) \/ WriteDebit(c) \/ ReadSupply(c) \/ StoreSupply(c)
    \/ ReadEntries(c) \/ WriteEntries(c) \/ MarkClaim(c)
SideStep(c) ==
    \/ ReadTips(c) \/ WriteTips(c)
    \/ ReadEvent(c) \/ WriteEvent(c) \/ ReadIndex(c) \/ WriteIndex(c)

----------------------------------------------------------------------------
(* What goes wrong, and what goes on.  Whatever fails, nothing is undone. *)

StoreStays == UNCHANGED <<bal, nans, supply, claims, entries, tips, paid, again,
                          made, evidence, owner, index, numbers>>

\* The process stops, or a command raises where nothing catches it.
CutShort(c) == Busy(c) /\ Returns(c)

\* _already_claimed answers no when it cannot read the claim.
ClaimUnread(c) == calls[c].at = "check" /\ GoesTo(c, "read_credit")

\* get_supply answers zero when it cannot read the supply.
SupplyUnread(c) ==
    \/ calls[c].at = "genesis" /\ GoesTo(c, "check")
    \/ /\ calls[c].at = "read_supply"
       /\ Becomes(c, Sees(calls[c], AfterSupply(calls[c]), 0))

\* A tip that fails does not stop the settlement, nor does the index an upgrade.
TipFails(c) ==
    /\ calls[c].at \in {"read_tips", "write_tips"} /\ calls[c].kind = "settle"
    /\ AfterTip(c)

IndexFails(c) == calls[c].at \in {"read_index", "write_index"} /\ AfterIndex(c)

Fails(c) ==
    /\ Failing
    /\ CutShort(c) \/ ClaimUnread(c) \/ SupplyUnread(c) \/ TipFails(c) \/ IndexFails(c)
    /\ orderly' = FALSE
    /\ StoreStays

\* An event's key lives thirty days after it was last written.
EventExpires(e) ==
    /\ evidence[e] > 0
    /\ evidence' = [evidence EXCEPT ![e] = 0]
    /\ UNCHANGED <<bal, nans, supply, claims, entries, tips, paid, again,
                   calls, made, owner, index, orderly, numbers>>

Next ==
    \/ \E c \in Callers : Starts(c) \/ BookStep(c) \/ SideStep(c) \/ Fails(c)
    \/ \E e \in Events : EventExpires(e)

Spec == Init /\ [][Next]_vars

----------------------------------------------------------------------------
(* What holds. *)

\* Every variable has its type; balances and supply are at least integers.
TypeOK ==
    /\ bal \in [Nodes -> Int] /\ nans \subseteq Nodes /\ supply \in Int
    /\ claims \subseteq Claims /\ paid \subseteq Claims /\ again \subseteq Claims
    /\ entries \in Seq(Entry) /\ Len(entries) <= MaxEntries
    /\ tips \in Seq(TipEntry) /\ Len(tips) <= MaxTips
    /\ calls \in [Callers -> Call]
    /\ made \in 0..MaxCalls
    /\ evidence \in [Events -> 0..4]
    /\ owner \in [Events -> Nodes \cup {NoNode}]
    /\ index \in Seq(Events) /\ Len(index) <= MaxIndexed
    /\ orderly \in BOOLEAN /\ numbers \in BOOLEAN

Quiet == orderly /\ \A c \in Callers : ~Busy(c)

\* Whatever overlaps or fails, no node's balance and no supply goes below
\* zero: a debit writes what it read, and it read enough (_debit, transfer).
\* The one way round that test is an amount that is no number: a balance
\* stops being a number only once such an amount has been asked for.
NeverOverdrawn ==
    /\ supply >= 0
    /\ \A n \in Nodes : IF n \in nans THEN ~numbers ELSE bal[n] >= 0

\* Whatever overlaps or fails, a claim that is set was credited: a reward
\* refused as already claimed has really been paid (reward_seed and the others).
ClaimsWerePaid == claims \subseteq paid

\* While calls come one by one and finish, no claim is credited twice, however
\* often an hour ticks, a share is upgraded or the bootstrap is asked for.
PaidOnce == orderly => again = {}

\* Between orderly calls the supply is what the nodes hold together: every
\* path through credit, debit and transfer changes both alike.
BooksBalance == Quiet => supply = FoldFunction(+, 0, bal)

Effect(x, n) ==
    (IF x.type = "mint" /\ x.node = n THEN x.amount ELSE 0)
    - (IF x.type \in {"burn", "transfer"} /\ x.node = n THEN x.amount + x.fee ELSE 0)
    + (IF x.type = "transfer" /\ x.to = n THEN x.amount ELSE 0)

\* Between orderly calls, until the list has been full, the balances can be
\* computed again from the ledger's entries: each call left exactly its own.
EntriesExplainBalances ==
    Quiet /\ Len(entries) < MaxEntries =>
        \A n \in Nodes :
            bal[n] = FoldFunction(+, 0, [i \in DOMAIN entries |-> Effect(entries[i], n)])

\* Between orderly calls a mining event has been paid for the level it stands
\* at, and for none above it (upgrade_evidence, then maybe_credit_bvl).
EvidencePaysItsLevel ==
    Quiet => \A e \in Events : evidence[e] > 0 =>
        \A level \in Levels :
            LET claim == <<"seed_hold", owner[e], <<e, level>>>> IN
            /\ claim \in paid => level <= evidence[e]
            /\ level = evidence[e] /\ Credit[level] > 0 => claim \in claims

(* The atomic ledger, with the call under way counted from its first write on. *)
Paying(k) == k.kind = "transfer" /\ k.at \in {"read_credit", "write_credit"}
Posting(k) ==
    \/ Paying(k)
    \/ k.at \in {"read_supply", "write_supply"} /\ (k.kind # "transfer" \/ k.fee > 0)

BalanceToBe ==
    [n \in Nodes |->
        IF \E c \in Callers : Paying(calls[c]) /\ calls[c].to = n
        THEN bal[n] + calls[CHOOSE c \in Callers : Paying(calls[c]) /\ calls[c].to = n].amount
        ELSE bal[n]]
SupplyToBe ==
    IF \E c \in Callers : Posting(calls[c])
    THEN supply + SupplyChange(calls[CHOOSE c \in Callers : Posting(calls[c])])
    ELSE supply

Books == INSTANCE AtomicBooks WITH
    Amounts <- Amounts \cup {Reward[r] : r \in Reasons} \cup {Credit[l] : l \in Levels},
    Fees <- {Fee[c] : c \in Callers},
    balance <- BalanceToBe, total <- SupplyToBe, rewarded <- paid, kept <- orderly

\* As long as calls come one by one and finish, the many commands of a call
\* change balances, supply and the rewards paid as if in one step.
LedgerIsAtomic == Books!Spec

=============================================================================
