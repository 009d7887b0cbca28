------------------------- MODULE SwarmEconomyProofs -------------------------
(***************************************************************************)
(* Proofs about SwarmEconomy for any nodes, threads, events and failures.  *)
(* No balance is overdrawn and claims that are set were credited.  While   *)
(* calls come one by one and finish, none is credited twice, a mining      *)
(* event is paid for the level it stands at, the supply is what the nodes  *)
(* hold together, the entries explain the balances, and the many commands  *)
(* of a call are one step of AtomicBooks.                                  *)
(***************************************************************************)
EXTENDS SwarmEconomy, SequenceTheorems, FiniteSetTheorems, TLAPS

\* A reward between the write of the balance and the mark of its claim.
Past(k) == k.kind = "reward"
           /\ k.at \in {"read_supply", "write_supply", "read_entries", "write_entries", "mark"}

\* A reward that has found its claim unset and not yet written the balance.
Granting(k) == k.kind = "reward" /\ k.at \in {"read_credit", "write_credit"}

\* A debit about to be written has read enough.
DebitInv ==
    /\ supply >= 0
    /\ \A n \in Nodes : bal[n] >= 0
    /\ \A c \in Callers : calls[c].at = "write_debit" => Covers(calls[c])

Staged(k) ==
    /\ k.at \in {"genesis", "check", "mark"} => k.kind = "reward"
    /\ k.at \in {"read_credit", "write_credit"} => k.kind \in {"reward", "transfer"}
    /\ k.at \in {"read_debit", "write_debit"} => k.kind \in {"transfer", "settle"}
    /\ k.at \in {"read_supply", "write_supply"} => k.kind \in {"reward", "transfer", "settle"}
    /\ k.at \in {"read_entries", "write_entries"} =>
           k.kind \in {"reward", "transfer", "settle", "settled"}
    /\ k.at \in {"read_tips", "write_tips"} => k.kind \in {"tip", "settle"}
    /\ k.kind = "reward" /\ k.at # "idle" => k.claim \in Claims
    /\ k.at \in {"read_event", "write_event", "read_index", "write_index"} =>
           k.event \in Events /\ k.level \in Levels /\ k.kind \in {"share", "upgrade"}
    /\ k.at = "write_index" => Len(k.index) <= MaxIndexed

\* A claim about to be marked has been credited.
ClaimInv ==
    /\ claims \subseteq paid
    /\ \A c \in Callers : Staged(calls[c])
    /\ \A c \in Callers : Past(calls[c]) => calls[c].claim \in paid

\* While calls come one by one, what has been paid is claimed, but for the
\* reward under way.
OnceInv ==
    orderly =>
        /\ again = {}
        /\ \A c, d \in Callers : Busy(c) /\ Busy(d) => c = d
        /\ \A x \in paid : x \in claims \/ \E c \in Callers : Past(calls[c]) /\ calls[c].claim = x
        /\ \A c \in Callers : Granting(calls[c]) => calls[c].claim \notin paid

IInv == TypeOK /\ DebitInv /\ ClaimInv /\ OnceInv

----------------------------------------------------------------------------
(* Sums.  FoldFunction(+, 0, f) takes the elements of a finite set in the  *)
(* order CHOOSE gives them; by induction over the subsets of the set it is *)
(* defined, and does not depend on that order.                             *)

\* Induction over the subsets of a finite set: none is the smallest bad one.
LEMMA NoSmallestBad ==
    ASSUME NEW S, IsFiniteSet(S), NEW Bad \in SUBSET SUBSET S,
           \A T \in Bad : \E U \in Bad : U \subseteq T /\ U # T
    PROVE  Bad = {}
<1> SUFFICES ASSUME Bad # {} PROVE FALSE
  OBVIOUS
<1>1. FiniteSubsetsOf(S) = SUBSET S
  BY FS_FiniteSubsetsOfFinite
<1>2. IsWellFoundedOn(StrictSubsetOrdering(S), SUBSET S)
  <2>1. IsWellFoundedOn(StrictSubsetOrdering(S), FiniteSubsetsOf(S))
    BY FS_StrictSubsetOrderingWellFounded
  <2> QED
    BY <1>1, <2>1
<1>3. PICK T \in Bad : \A U \in Bad : <<U, T>> \notin StrictSubsetOrdering(S)
  BY <1>2, WFMin
<1>4. PICK U \in Bad : U \subseteq T /\ U # T
  OBVIOUS
<1>5. <<U, T>> \in StrictSubsetOrdering(S)
  BY <1>4 DEF StrictSubsetOrdering
<1> QED
  BY <1>3, <1>5

First(s) == CHOOSE x \in s : TRUE
IsSums(g, f, S) ==
    g = [s \in SUBSET S |-> IF s = {} THEN 0 ELSE f[First(s)] + g[s \ {First(s)}]]
Sums(f, S) == CHOOSE g : IsSums(g, f, S)
Sum(f, S) == Sums(f, S)[S]

LEMMA FoldIsSum ==
    ASSUME NEW f
    PROVE  FoldFunction(+, 0, f) = Sum(f, DOMAIN f)
BY DEF FoldFunction, FoldFunctionOnSet, MapThenFoldSet, Sum, Sums, IsSums, First

LEMMA SumsAgree ==
    ASSUME NEW S, NEW U, NEW f, NEW g, NEW sf, NEW sg, IsSums(sf, f, S), IsSums(sg, g, U),
           NEW T, IsFiniteSet(T), T \subseteq S, T \subseteq U, \A x \in T : f[x] = g[x]
    PROVE  sf[T] = sg[T]
<1> DEFINE Bad == {s \in SUBSET T : sf[s] # sg[s]}
<1>1. ASSUME NEW s \in Bad
      PROVE  \E u \in Bad : u \subseteq s /\ u # s
  <2>1. s # {} /\ s \in SUBSET S /\ s \in SUBSET U
    BY DEF IsSums
  <2>2. First(s) \in s /\ f[First(s)] = g[First(s)]
    BY <2>1 DEF First
  <2>3. /\ sf[s] = f[First(s)] + sf[s \ {First(s)}]
        /\ sg[s] = g[First(s)] + sg[s \ {First(s)}]
    BY <2>1 DEF IsSums
  <2>4. s \ {First(s)} \in Bad
    BY <2>2, <2>3
  <2> QED
    BY <2>2, <2>4
<1>2. Bad = {}
  <2> HIDE DEF Bad
  <2>1. Bad \in SUBSET SUBSET T
    BY DEF Bad
  <2> QED
    BY <1>1, <2>1, NoSmallestBad
<1> QED
  BY <1>2

LEMMA SumsExist ==
    ASSUME NEW f, NEW S, IsFiniteSet(S)
    PROVE  IsSums(Sums(f, S), f, S)
<1> DEFINE Bad == {s \in SUBSET S : ~ IsSums(Sums(f, s), f, s)}
<1>1. ASSUME NEW T \in Bad
      PROVE  \E U \in Bad : U \subseteq T /\ U # T
  <2> SUFFICES ASSUME \A U \in SUBSET T : U # T => IsSums(Sums(f, U), f, U)
               PROVE  FALSE
    OBVIOUS
  <2> DEFINE h == [s \in SUBSET T |-> IF s = {} THEN 0
                                      ELSE f[First(s)] + Sum(f, s \ {First(s)})]
  <2>1. IsSums(h, f, T)
    <3> SUFFICES ASSUME NEW s \in SUBSET T, s # {}
                 PROVE  h[s \ {First(s)}] = Sum(f, s \ {First(s)})
      BY DEF IsSums
    <3> DEFINE u == s \ {First(s)}
    <3>1. u \in SUBSET T /\ u # T
      BY DEF First
    <3>2. IsSums(Sums(f, u), f, u)
      BY <3>1
    <3> HIDE DEF u
    <3>3. ASSUME u = {}
          PROVE  h[u] = Sum(f, u)
      <4>1. Sums(f, u)[u] = 0
        BY <3>2, <3>3 DEF IsSums
      <4> QED
        BY <3>3, <4>1 DEF Sum
    <3>4. ASSUME u # {}
          PROVE  h[u] = Sum(f, u)
      <4> DEFINE w == u \ {First(u)}
      <4>1. w \in SUBSET T /\ w \in SUBSET u /\ w # T
        BY <3>1, <3>4
      <4>2. Sum(f, u) = f[First(u)] + Sums(f, u)[w]
        BY <3>2, <3>4 DEF IsSums, Sum
      <4>3. h[u] = f[First(u)] + Sum(f, w)
        BY <3>1, <3>4
      <4>4. IsSums(Sums(f, w), f, w) /\ IsFiniteSet(w)
        BY <4>1, FS_Subset
      <4> HIDE DEF w
      <4>5. Sums(f, u)[w] = Sum(f, w)
        BY <3>2, <4>1, <4>4, SumsAgree DEF Sum
      <4> QED
        BY <4>2, <4>3, <4>5
    <3> QED
      BY <3>3, <3>4 DEF u
  <2> QED
    BY <2>1 DEF Sums
<1>2. Bad = {}
  <2> HIDE DEF Bad
  <2>1. Bad \in SUBSET SUBSET S
    BY DEF Bad
  <2> QED
    BY <1>1, <2>1, NoSmallestBad
<1> QED
  BY <1>2

LEMMA SumAgrees ==
    ASSUME NEW S, IsFiniteSet(S), NEW f, NEW g, \A x \in S : f[x] = g[x]
    PROVE  Sum(f, S) = Sum(g, S)
BY SumsExist, SumsAgree DEF Sum

LEMMA SumStep ==
    ASSUME NEW S, IsFiniteSet(S), NEW f
    PROVE  /\ S = {} => Sum(f, S) = 0
           /\ S # {} => Sum(f, S) = f[First(S)] + Sum(f, S \ {First(S)})
<1>1. IsSums(Sums(f, S), f, S)
  BY SumsExist
<1>2. S = {} => Sum(f, S) = 0
  BY <1>1 DEF IsSums, Sum
<1>3. ASSUME S # {}
      PROVE  Sum(f, S) = f[First(S)] + Sum(f, S \ {First(S)})
  <2> DEFINE U == S \ {First(S)}
  <2>1. Sum(f, S) = f[First(S)] + Sums(f, S)[U]
    BY <1>1, <1>3 DEF IsSums, Sum
  <2>2. IsFiniteSet(U) /\ U \subseteq S
    BY FS_Subset
  <2>3. IsSums(Sums(f, U), f, U)
    BY <2>2, SumsExist
  <2> HIDE DEF U
  <2>4. Sums(f, S)[U] = Sum(f, U)
    BY <1>1, <2>2, <2>3, SumsAgree DEF Sum
  <2> QED
    BY <2>1, <2>4 DEF U
<1> QED
  BY <1>2, <1>3

LEMMA SumType ==
    ASSUME NEW S, IsFiniteSet(S), NEW f
    PROVE  /\ (\A x \in S : f[x] \in Int) => Sum(f, S) \in Int
           /\ (\A x \in S : f[x] \in Nat) => Sum(f, S) \in Nat
           /\ (\A x \in S : f[x] = 0) => Sum(f, S) = 0
<1>1. ASSUME NEW Kind \in {Int, Nat, {0}}, \A x \in S : f[x] \in Kind
      PROVE  Sum(f, S) \in Kind
  <2> DEFINE Bad == {s \in SUBSET S : Sum(f, s) \notin Kind}
  <2>1. ASSUME NEW s \in Bad
        PROVE  \E u \in Bad : u \subseteq s /\ u # s
    <3>1. IsFiniteSet(s) /\ s \in SUBSET S
      BY FS_Subset
    <3>2. s # {}
      BY <3>1, SumStep
    <3>3. Sum(f, s) = f[First(s)] + Sum(f, s \ {First(s)})
      BY <3>1, <3>2, SumStep
    <3>4. First(s) \in s /\ f[First(s)] \in Kind
      BY <1>1, <3>1, <3>2 DEF First
    <3>5. \A a, b \in Kind : a + b \in Kind
      OBVIOUS
    <3>6. s \ {First(s)} \in Bad
      BY <3>1, <3>3, <3>4, <3>5
    <3> QED
      BY <3>4, <3>6
  <2>2. Bad = {}
    <3> HIDE DEF Bad
    <3>1. Bad \in SUBSET SUBSET S
      BY DEF Bad
    <3> QED
      BY <2>1, <3>1, NoSmallestBad
  <2> QED
    BY <2>2
<1> QED
  BY <1>1

LEMMA SumRemove ==
    ASSUME NEW S, IsFiniteSet(S), NEW f, \A x \in S : f[x] \in Int, NEW a \in S
    PROVE  Sum(f, S) = f[a] + Sum(f, S \ {a})
<1> DEFINE Splits(s, x) == Sum(f, s) = f[x] + Sum(f, s \ {x})
           Bad == {s \in SUBSET S : \E x \in s : ~ Splits(s, x)}
<1>1. ASSUME NEW T \in Bad
      PROVE  \E U \in Bad : U \subseteq T /\ U # T
  <2>1. PICK b \in T : ~ Splits(T, b)
    OBVIOUS
  <2> DEFINE x == First(T)
             U == T \ {x}
             V == T \ {b}
  <2>2. x \in T /\ T \in SUBSET S /\ T # {}
    BY <2>1 DEF First
  <2>3. IsFiniteSet(T) /\ IsFiniteSet(U) /\ IsFiniteSet(V)
    BY <2>2, FS_Subset
  <2>4. Sum(f, T) = f[x] + Sum(f, U)
    BY <2>2, <2>3, SumStep
  <2>5. x # b
    BY <2>1, <2>4
  <2>6. U \ {b} = V \ {x} /\ b \in U /\ x \in V /\ U # T /\ V # T
    BY <2>1, <2>2, <2>5
  <2>7. SUFFICES ASSUME U \notin Bad, V \notin Bad
                 PROVE  FALSE
    BY <2>6, <2>2
  <2>8. Sum(f, U) = f[b] + Sum(f, U \ {b})
    BY <2>2, <2>6, <2>7
  <2>9. Sum(f, V) = f[x] + Sum(f, V \ {x})
    BY <2>2, <2>6, <2>7
  <2>10. IsFiniteSet(V \ {x}) /\ V \ {x} \subseteq S
    BY <2>2, FS_Subset
  <2>11. Sum(f, V \ {x}) \in Int /\ f[x] \in Int /\ f[b] \in Int
    <3>1. \A y \in V \ {x} : f[y] \in Int
      BY <2>10
    <3> QED
      BY <2>2, <2>10, <3>1, SumType
  <2>12. Sum(f, T) = f[b] + Sum(f, V)
    <3> DEFINE sw == Sum(f, V \ {x})
               fx == f[x]
               fb == f[b]
    <3>1. Sum(f, U) = fb + sw /\ Sum(f, V) = fx + sw /\ Sum(f, T) = fx + Sum(f, U)
      BY <2>4, <2>6, <2>8, <2>9
    <3>2. sw \in Int /\ fx \in Int /\ fb \in Int
      BY <2>11
    <3> HIDE DEF sw, fx, U, V
    <3>3. fx + (fb + sw) = fb + (fx + sw)
      BY <3>2
    <3> QED
      BY <3>1, <3>3
  <2> QED
    BY <2>1, <2>12
<1>2. Bad = {}
  <2> HIDE DEF Bad
  <2>1. Bad \in SUBSET SUBSET S
    BY DEF Bad
  <2> QED
    BY <1>1, <2>1, NoSmallestBad
<1> QED
  BY <1>2

LEMMA SumUpdate ==
    ASSUME NEW S, IsFiniteSet(S), NEW f, \A x \in S : f[x] \in Int, NEW a \in S,
           NEW g, g[a] \in Int, \A x \in S \ {a} : g[x] = f[x]
    PROVE  Sum(g, S) = Sum(f, S) - f[a] + g[a]
<1>1. \A x \in S : g[x] \in Int
  OBVIOUS
<1>2. f[a] \in Int
  OBVIOUS
<1>3. Sum(g, S) = g[a] + Sum(g, S \ {a}) /\ Sum(f, S) = f[a] + Sum(f, S \ {a})
  BY <1>1, <1>2, SumRemove
<1>4. IsFiniteSet(S \ {a})
  BY FS_Subset
<1>5. Sum(g, S \ {a}) = Sum(f, S \ {a})
  BY <1>1, <1>4, SumAgrees
<1>6. Sum(f, S \ {a}) \in Int
  BY <1>2, <1>4, SumType
<1> QED
  BY <1>2, <1>3, <1>5, <1>6

----------------------------------------------------------------------------
(* Lemmas about the calls and the lists. *)

LEMMA NewestKeepsType ==
    ASSUME NEW S, NEW items \in Seq(S), NEW limit \in Nat \ {0}
    PROVE  Newest(items, limit) \in Seq(S) /\ Len(Newest(items, limit)) <= limit
<1>1. CASE Len(items) <= limit
  BY <1>1 DEF Newest
<1>2. CASE ~ (Len(items) <= limit)
  <2>1. Len(items) \in Nat /\ Len(items) > limit
    BY <1>2
  <2>2. Newest(items, limit) = SubSeq(items, Len(items) - limit + 1, Len(items))
    BY <1>2 DEF Newest
  <2>3. Len(items) - limit + 1 \in 1..(Len(items) + 1) /\ Len(items) \in 0..Len(items)
    BY <2>1
  <2>4. SubSeq(items, Len(items) - limit + 1, Len(items)) \in Seq(S)
        /\ Len(SubSeq(items, Len(items) - limit + 1, Len(items))) = limit
    BY <2>1, <2>3, SubSeqProperties
  <2> QED
    BY <2>2, <2>4
<1> QED
  BY <1>1, <1>2

LEMMA BlankCall ==
    ASSUME NEW n \in Nodes
    PROVE  /\ Blank(n) \in Call
           /\ Blank(n).at = "idle" /\ Blank(n).kind = "reward" /\ Blank(n).seen = 0
           /\ Counts(Blank(n)) /\ ~Blank(n).nan
BY DEF Blank, Call, Stages, Kinds, Counts

LEMMA AtCall ==
    ASSUME NEW k \in Call, NEW stage \in Stages
    PROVE  /\ At(k, stage) \in Call
           /\ At(k, stage).at = stage
           /\ At(k, stage).kind = k.kind /\ At(k, stage).claim = k.claim
           /\ At(k, stage).seen = k.seen
           /\ At(k, stage).amount = k.amount /\ At(k, stage).fee = k.fee
           /\ At(k, stage).nan = k.nan /\ At(k, stage).odd = k.odd
BY DEF At, Call

LEMMA SeesCall ==
    ASSUME NEW k \in Call, NEW stage \in Stages, NEW v \in Nat
    PROVE  /\ Sees(k, stage, v) \in Call
           /\ Sees(k, stage, v).at = stage
           /\ Sees(k, stage, v).kind = k.kind /\ Sees(k, stage, v).claim = k.claim
           /\ Sees(k, stage, v).seen = v
           /\ Sees(k, stage, v).amount = k.amount /\ Sees(k, stage, v).fee = k.fee
           /\ Sees(k, stage, v).nan = k.nan /\ ~Sees(k, stage, v).odd
BY DEF Sees, Call

LEMMA SeesBalanceCall ==
    ASSUME NEW k \in Call, NEW stage \in Stages, NEW n, bal[n] \in Nat
    PROVE  LET r == SeesBalance(k, stage, n) IN
           /\ r \in Call
           /\ r.at = stage
           /\ r.kind = k.kind /\ r.claim = k.claim
           /\ r.seen = bal[n]
           /\ r.amount = k.amount /\ r.fee = k.fee
           /\ r.nan = k.nan /\ r.odd = (n \in nans)
<1>1. (n \in nans) \in BOOLEAN
  OBVIOUS
<1> QED
  BY <1>1 DEF SeesBalance, Call

LEMMA RewardCallType ==
    ASSUME NEW n \in Nodes, NEW amount \in Nat, NEW claim \in Claims
    PROVE  /\ RewardCall(n, amount, claim) \in Call
           /\ RewardCall(n, amount, claim).at = "check"
           /\ RewardCall(n, amount, claim).kind = "reward"
           /\ RewardCall(n, amount, claim).claim = claim
<1>1. Blank(n) \in Call /\ Blank(n).kind = "reward"
  BY BlankCall
<1>2. ASSUME NEW b \in Call
      PROVE  LET r == [b EXCEPT !.at = "check", !.amount = amount, !.claim = claim]
             IN  r \in Call /\ r.at = "check" /\ r.kind = b.kind /\ r.claim = claim
  BY DEF Call, Stages
<1> QED
  BY <1>1, <1>2 DEF RewardCall

LEMMA AskedCall ==
    ASSUME NEW k \in Call, NEW x \in Amounts \cup {NaN}
    PROVE  LET r == Asked(k, x) IN
           /\ r \in Call
           /\ r.at = k.at /\ r.kind = k.kind /\ r.node = k.node /\ r.to = k.to
           /\ r.fee = k.fee /\ r.odd = k.odd
           /\ ~r.nan => r.amount = x /\ x \in Amounts
<1>1. x = NaN \/ x \in Nat
  BY EconomyAssumption
<1>2. [k EXCEPT !.amount = IF x = NaN THEN 0 ELSE x, !.nan = (x = NaN)] \in Call
  BY <1>1 DEF Call
<1> QED
  BY <1>1, <1>2, EconomyAssumption DEF Asked, Call

LEMMA BecomesCall ==
    ASSUME calls \in [Callers -> Call], NEW c \in Callers, NEW k \in Call, Becomes(c, k)
    PROVE  /\ calls' \in [Callers -> Call]
           /\ calls'[c] = k
           /\ \A d \in Callers \ {c} : calls'[d] = calls[d]
BY DEF Becomes

LEMMA CallParts ==
    ASSUME NEW k \in Call
    PROVE  /\ Payee(k) \in Nodes /\ Owed(k) \in Nat /\ SupplyChange(k) \in Int
           /\ EntryOf(k) \in Entry /\ AfterSupply(k) \in Stages
           /\ [node |-> k.node, sats |-> SatsOf(k)] \in TipEntry
<1>1. k.node \in Nodes /\ k.to \in Nodes /\ k.amount \in Nat /\ k.fee \in Nat
  BY DEF Call
<1>2. Payee(k) \in Nodes /\ Owed(k) \in Nat /\ SupplyChange(k) \in Int
  BY <1>1 DEF Payee, Owed, SupplyChange
<1>3. EntryOf(k) \in Entry
  BY <1>1 DEF EntryOf, Entry
<1>4. AfterSupply(k) \in Stages
  BY DEF AfterSupply, Stages
<1>5. SatsOf(k) \in Nat
  <2>1. SatsPer \in Nat /\ TipSats \in Nat
    BY EconomyAssumption
  <2>2. k.amount * SatsPer \in Nat
    BY <1>1, <2>1
  <2> HIDE <2>2
  <2> QED
    BY <2>1, <2>2 DEF SatsOf
<1> QED
  BY <1>1, <1>2, <1>3, <1>4, <1>5 DEF TipEntry

----------------------------------------------------------------------------
(* A step that writes neither a balance, nor the supply, nor a claim. *)

LEMMA Alone ==
    ASSUME OnceInv, orderly, NEW c \in Callers, Busy(c)
    PROVE  \A d \in Callers \ {c} : ~Busy(d)
BY DEF OnceInv

LEMMA Advance ==
    ASSUME TypeOK, DebitInv, ClaimInv, OnceInv,
           NEW c \in Callers, NEW k \in Call, Becomes(c, k),
           UNCHANGED <<bal, nans, supply, claims, paid, again>>,
           orderly' => orderly,
           k.at = "write_debit" => Covers(k),
           Staged(k),
           Past(k) => Past(calls[c]) /\ k.claim = calls[c].claim,
           orderly' /\ Past(calls[c]) => Past(k),
           orderly' /\ Granting(k) => k.claim \notin paid,
           orderly' /\ k.at # "idle" => \A d \in Callers \ {c} : ~Busy(d)
    PROVE  DebitInv' /\ ClaimInv' /\ OnceInv'
<1>1. /\ calls'[c] = k
      /\ \A d \in Callers \ {c} : calls'[d] = calls[d]
  BY BecomesCall DEF TypeOK
<1>2. DebitInv'
  BY <1>1 DEF DebitInv, Covers
<1>3. ClaimInv'
  BY <1>1 DEF ClaimInv
<1>4. OnceInv'
  <2> SUFFICES ASSUME orderly'
               PROVE  /\ again' = {}
                      /\ \A d, e \in Callers : Busy(d)' /\ Busy(e)' => d = e
                      /\ \A x \in paid' : x \in claims' \/ \E d \in Callers :
                             Past(calls'[d]) /\ calls'[d].claim = x
                      /\ \A d \in Callers : Granting(calls'[d]) => calls'[d].claim \notin paid'
    BY DEF OnceInv
  <2>1. again' = {}
    BY DEF OnceInv
  <2>2. ASSUME NEW d \in Callers, NEW e \in Callers, Busy(d)', Busy(e)'
        PROVE  d = e
    BY <1>1, <2>2 DEF OnceInv, Busy
  <2>3. ASSUME NEW x \in paid', x \notin claims'
        PROVE  \E d \in Callers : Past(calls'[d]) /\ calls'[d].claim = x
    <3>1. PICK d \in Callers : Past(calls[d]) /\ calls[d].claim = x
      BY <2>3 DEF OnceInv
    <3>2. CASE d = c
      BY <1>1, <3>1, <3>2
    <3>3. CASE d # c
      BY <1>1, <3>1, <3>3
    <3> QED
      BY <3>2, <3>3
  <2>4. ASSUME NEW d \in Callers, Granting(calls'[d])
        PROVE  calls'[d].claim \notin paid'
    BY <1>1, <2>4 DEF OnceInv
  <2> QED
    BY <2>1, <2>2, <2>3, <2>4
<1> QED
  BY <1>2, <1>3, <1>4

\* A step of a call that is not past its credit and pays no claim.
LEMMA NothingPassed ==
    ASSUME OnceInv, NEW c \in Callers, Busy(c), ~Past(calls[c]),
           ~Past(calls'[c]), ~Granting(calls'[c]),
           \A d \in Callers \ {c} : calls'[d] = calls[d],
           UNCHANGED <<claims, paid, again, orderly>>
    PROVE  OnceInv'
<1> SUFFICES ASSUME orderly'
             PROVE  /\ again' = {}
                    /\ \A d, e \in Callers : Busy(d)' /\ Busy(e)' => d = e
                    /\ \A x \in paid' : x \in claims' \/ \E d \in Callers :
                           Past(calls'[d]) /\ calls'[d].claim = x
                    /\ \A d \in Callers : Granting(calls'[d]) => calls'[d].claim \notin paid'
  BY DEF OnceInv
<1>1. orderly /\ \A d \in Callers \ {c} : ~Busy(d)
  BY Alone
<1>2. \A d \in Callers : ~Past(calls[d])
  BY <1>1 DEF Busy, Past
<1>3. paid \subseteq claims /\ again = {}
  BY <1>1, <1>2 DEF OnceInv
<1>4. \A d, e \in Callers : Busy(d)' /\ Busy(e)' => d = e
  BY <1>1 DEF Busy
<1>5. \A d \in Callers : ~Granting(calls'[d])
  BY <1>1 DEF Busy, Granting
<1> QED
  BY <1>3, <1>4, <1>5

LEMMA StartKeeps ==
    ASSUME IInv, NEW c \in Callers, NEW k \in Call, Start(c, k),
           owner' \in [Events -> Nodes \cup {NoNode}],
           k.at \in {"genesis", "check", "read_debit", "read_tips", "read_event", "write_event"},
           Staged(k)
    PROVE  IInv'
<1>1. TypeOK'
  <2>1. calls' \in [Callers -> Call]
    BY BecomesCall DEF IInv, TypeOK, Start, Becomes
  <2>2. made' \in 0..MaxCalls
    BY EconomyAssumption DEF IInv, TypeOK, Start
  <2>3. orderly' \in BOOLEAN /\ numbers' \in BOOLEAN
    BY DEF Start, IInv, TypeOK
  <2> QED
    BY <2>1, <2>2, <2>3 DEF IInv, TypeOK, Start
<1>2. /\ Becomes(c, k)
      /\ ~Past(k) /\ ~Granting(k) /\ k.at # "write_debit" /\ ~Past(calls[c])
  BY DEF Start, Becomes, Past, Granting, Busy
<1>3. orderly' => orderly /\ \A d \in Callers : ~Busy(d)
  BY DEF Start
<1>4. UNCHANGED <<bal, nans, supply, claims, paid, again>>
  BY DEF Start
<1>5. DebitInv' /\ ClaimInv' /\ OnceInv'
  BY <1>2, <1>3, <1>4, Advance DEF IInv
<1> QED
  BY <1>1, <1>5 DEF IInv

\* A call in which nothing of the store changes goes on, or returns.
LEMMA GoesOn ==
    ASSUME IInv, NEW c \in Callers, NEW k \in Call, Busy(c), Becomes(c, k),
           UNCHANGED <<bal, nans, supply, claims, paid, again>>,
           orderly' => orderly,
           k.at = "write_debit" => Covers(k),
           Staged(k),
           Past(k) => Past(calls[c]) /\ k.claim = calls[c].claim,
           orderly' /\ Past(calls[c]) => Past(k),
           orderly' /\ Granting(k) => k.claim \notin paid
    PROVE  DebitInv' /\ ClaimInv' /\ OnceInv'
<1>1. orderly' => \A d \in Callers \ {c} : ~Busy(d)
  BY Alone DEF IInv
<1> QED
  BY <1>1, Advance DEF IInv

LEMMA BlankPasses ==
    ASSUME NEW c \in Callers
    PROVE  LET k == Blank(Home[c]) IN
           /\ k \in Call /\ Staged(k) /\ ~Past(k) /\ ~Granting(k) /\ k.at = "idle"
<1>1. Home[c] \in Nodes
  BY EconomyAssumption
<1> QED
  BY <1>1, BlankCall DEF Staged, Past, Granting

LEMMA NothingElseKeeps ==
    ASSUME IInv, UNCHANGED <<bal, nans, supply, claims, entries, tips, paid, again>>,
           UNCHANGED <<calls, owner, index, orderly, numbers>>,
           made' \in 0..MaxCalls,
           evidence' \in [Events -> 0..4]
    PROVE  IInv'
<1>1. TypeOK'
  BY DEF IInv, TypeOK
<1>2. DebitInv' /\ ClaimInv'
  BY DEF IInv, DebitInv, ClaimInv
<1>3. OnceInv'
  BY DEF IInv, OnceInv, Busy
<1> QED
  BY <1>1, <1>2, <1>3 DEF IInv

LEMMA StartsKeep ==
    ASSUME IInv, NEW c \in Callers, Starts(c)
    PROVE  IInv'
<1> DEFINE Firsts == {"genesis", "check", "read_debit", "read_tips", "read_event", "write_event"}
<1>h. Home[c] \in Nodes /\ Fee[c] \in Nat
  BY EconomyAssumption
<1>o. owner \in [Events -> Nodes \cup {NoNode}]
  BY DEF IInv, TypeOK
<1>r. \A n \in Nodes, amount \in Nat, claim \in Claims :
          LET k == RewardCall(n, amount, claim) IN
          k \in Call /\ k.at \in Firsts /\ Staged(k)
  BY RewardCallType DEF Staged
<1>1. ASSUME HearsEvent(c)
      PROVE  IInv'
  <2>1. /\ UNCHANGED <<bal, nans, supply, claims, entries, tips, paid, again>>
        /\ UNCHANGED <<calls, evidence, owner, index, orderly, numbers>>
    BY <1>1 DEF HearsEvent
  <2>2. made' \in 0..MaxCalls
    BY <1>1, EconomyAssumption DEF HearsEvent, IInv, TypeOK
  <2>3. evidence' \in [Events -> 0..4]
    BY <2>1 DEF IInv, TypeOK
  <2> QED
    BY <2>1, <2>2, <2>3, NothingElseKeeps
<1>2. ASSUME NEW h \in Hours, HearsTick(c, h)
      PROVE  IInv'
  <2>1. Reward["uptime"] \in Nat /\ <<"uptime", Home[c], h>> \in Claims
    BY <1>h, EconomyAssumption DEF Claims, Matters, Reasons
  <2> QED
    BY <1>2, <2>1, <1>r, <1>h, <1>o, StartKeeps DEF HearsTick
<1>3. ASSUME NEW n \in Nodes, NEW x \in Amounts \cup {NaN}, AsksTransfer(c, n, x)
      PROVE  IInv'
  <2> DEFINE b == [Blank(Home[c]) EXCEPT !.at = "read_debit", !.kind = "transfer",
                                         !.to = n, !.fee = Fee[c]]
             k == Asked(b, x)
  <2>1. k \in Call /\ k.at = "read_debit" /\ k.kind = "transfer"
    <3>1. Blank(Home[c]) \in Call
      BY <1>h, BlankCall
    <3>2. ASSUME NEW j \in Call
          PROVE  LET r == [j EXCEPT !.at = "read_debit", !.kind = "transfer", !.to = n,
                                    !.fee = Fee[c]]
                 IN  r \in Call /\ r.at = "read_debit" /\ r.kind = "transfer"
      BY <1>h, <3>1 DEF Call, Stages, Kinds
    <3>3. b \in Call /\ b.at = "read_debit" /\ b.kind = "transfer"
      BY <3>1, <3>2
    <3> HIDE DEF b
    <3> QED
      BY <3>3, AskedCall
  <2>2. Start(c, k) /\ owner' = owner
    BY <1>3 DEF AsksTransfer
  <2> HIDE DEF k
  <2>3. Staged(k)
    BY <2>1 DEF Staged
  <2> QED
    BY <2>1, <2>2, <2>3, <1>o, StartKeeps
<1>4. ASSUME NEW n \in Nodes, NEW x \in Amounts \cup {NaN}, AsksSettlement(c, n, x)
      PROVE  IInv'
  <2> DEFINE b == [Blank(n) EXCEPT !.at = "read_debit", !.kind = "settle"]
             k == Asked(b, x)
  <2>1. k \in Call /\ k.at = "read_debit" /\ k.kind = "settle"
    <3>1. Blank(n) \in Call
      BY BlankCall
    <3>2. ASSUME NEW j \in Call
          PROVE  LET r == [j EXCEPT !.at = "read_debit", !.kind = "settle"]
                 IN  r \in Call /\ r.at = "read_debit" /\ r.kind = "settle"
      BY DEF Call, Stages, Kinds
    <3>3. b \in Call /\ b.at = "read_debit" /\ b.kind = "settle"
      BY <3>1, <3>2
    <3> HIDE DEF b
    <3> QED
      BY <3>3, AskedCall
  <2>2. Start(c, k) /\ owner' = owner
    BY <1>4 DEF AsksSettlement
  <2> HIDE DEF k
  <2>3. Staged(k)
    BY <2>1 DEF Staged
  <2> QED
    BY <2>1, <2>2, <2>3, <1>o, StartKeeps
<1>5. ASSUME NEW n \in Nodes, AsksTip(c, n)
      PROVE  IInv'
  <2> DEFINE k == [Blank(n) EXCEPT !.at = "read_tips", !.kind = "tip"]
  <2>1. k \in Call /\ k.at = "read_tips" /\ k.kind = "tip"
    <3>1. ASSUME NEW b \in Call
          PROVE  LET r == [b EXCEPT !.at = "read_tips", !.kind = "tip"]
                 IN  r \in Call /\ r.at = "read_tips" /\ r.kind = "tip"
      BY DEF Call, Stages, Kinds
    <3> QED
      BY <3>1, BlankCall
  <2>2. Start(c, k) /\ owner' = owner
    BY <1>5 DEF AsksTip
  <2> HIDE DEF k
  <2>3. Staged(k)
    BY <2>1 DEF Staged
  <2> QED
    BY <2>1, <2>2, <2>3, <1>o, StartKeeps
<1>6. ASSUME AsksGenesis(c)
      PROVE  IInv'
  <2> DEFINE first == RewardCall(Home[c], Reward["seed_hold"], <<"seed_hold", Home[c], Genesis>>)
             k == [first EXCEPT !.at = "genesis"]
  <2>1. Reward["seed_hold"] \in Nat /\ <<"seed_hold", Home[c], Genesis>> \in Claims
    BY <1>h, EconomyAssumption DEF Claims, Matters, Reasons
  <2>2. first \in Call /\ first.kind = "reward" /\ first.claim \in Claims
    BY <2>1, <1>h, RewardCallType
  <2>3. k = At(first, "genesis") /\ "genesis" \in Stages
    BY DEF At, Stages
  <2>4. Start(c, k) /\ owner' = owner
    BY <1>6 DEF AsksGenesis
  <2> HIDE DEF k, first
  <2>5. k \in Call /\ k.at = "genesis" /\ k.kind = "reward" /\ k.claim \in Claims
    BY <2>2, <2>3, AtCall
  <2>6. Staged(k)
    BY <2>5 DEF Staged
  <2> QED
    BY <2>4, <2>5, <2>6, <1>o, StartKeeps
<1>7. ASSUME NEW e \in Events, NEW n \in Nodes, ObservesShare(c, e, n)
      PROVE  IInv'
  <2> DEFINE k == [Blank(n) EXCEPT !.at = "write_event", !.kind = "share",
                                   !.event = e, !.level = 1]
  <2>1. k \in Call /\ k.at = "write_event" /\ k.kind = "share" /\ k.event = e /\ k.level = 1
    <3>1. ASSUME NEW b \in Call
          PROVE  LET r == [b EXCEPT !.at = "write_event", !.kind = "share",
                                    !.event = e, !.level = 1]
                 IN  /\ r \in Call /\ r.at = "write_event" /\ r.kind = "share"
                     /\ r.event = e /\ r.level = 1
      <4>1. 1 \in 0..4 /\ e \in Events \cup {NoEvent}
        OBVIOUS
      <4>2. "write_event" \in Stages /\ "share" \in Kinds
        BY DEF Stages, Kinds
      <4> HIDE <4>1, <4>2
      <4> QED
        BY <4>1, <4>2 DEF Call
    <3> QED
      BY <3>1, BlankCall
  <2>2. Start(c, k) /\ owner' = [owner EXCEPT ![e] = n]
    BY <1>7 DEF ObservesShare
  <2>3. owner' \in [Events -> Nodes \cup {NoNode}]
    BY <2>2, <1>o
  <2> HIDE DEF k
  <2>4. Staged(k)
    BY <2>1 DEF Staged, Levels
  <2> QED
    BY <2>1, <2>2, <2>3, <2>4, StartKeeps
<1>8. ASSUME NEW e \in Events, NEW level \in Levels, AsksUpgrade(c, e, level)
      PROVE  IInv'
  <2> DEFINE k == [Blank(owner[e]) EXCEPT !.at = "read_event", !.kind = "upgrade",
                                          !.event = e, !.level = level]
  <2>1. /\ k \in Call /\ k.at = "read_event" /\ k.kind = "upgrade"
        /\ k.event = e /\ k.level = level
    <3>1. Blank(owner[e]) \in Call
      BY <1>8, <1>o, BlankCall DEF AsksUpgrade
    <3>2. ASSUME NEW b \in Call
          PROVE  LET r == [b EXCEPT !.at = "read_event", !.kind = "upgrade",
                                    !.event = e, !.level = level]
                 IN  /\ r \in Call /\ r.at = "read_event" /\ r.kind = "upgrade"
                     /\ r.event = e /\ r.level = level
      <4>1. level \in 0..4 /\ e \in Events \cup {NoEvent}
        BY DEF Levels
      <4>2. "read_event" \in Stages /\ "upgrade" \in Kinds
        BY DEF Stages, Kinds
      <4> HIDE <4>1, <4>2
      <4> QED
        BY <4>1, <4>2 DEF Call
    <3> QED
      BY <3>1, <3>2
  <2>2. Start(c, k) /\ owner' = owner
    BY <1>8 DEF AsksUpgrade
  <2> HIDE DEF k
  <2>3. Staged(k)
    BY <2>1 DEF Staged
  <2> QED
    BY <2>1, <2>2, <2>3, <1>o, StartKeeps
<1> QED
  BY <1>1, <1>2, <1>3, <1>4, <1>5, <1>6, <1>7, <1>8 DEF Starts

----------------------------------------------------------------------------
(* The commands of a call. *)

\* A command that only reads: the call goes on, or returns where it may.
LEMMA ReadKeeps ==
    ASSUME IInv, NEW c \in Callers, NEW k \in Call, Busy(c), Becomes(c, k),
           UNCHANGED <<bal, nans, supply, claims, paid, again>>,
           UNCHANGED <<entries, tips, made, evidence, owner, index, numbers>>,
           orderly' \in BOOLEAN, orderly' => orderly,
           k.at = "write_debit" => Covers(k),
           Staged(k),
           Past(k) => Past(calls[c]) /\ k.claim = calls[c].claim,
           orderly' /\ Past(calls[c]) => Past(k),
           orderly' /\ Granting(k) => k.claim \notin paid
    PROVE  IInv'
<1>1. DebitInv' /\ ClaimInv' /\ OnceInv'
  BY GoesOn
<1>2. calls' \in [Callers -> Call]
  BY BecomesCall DEF IInv, TypeOK
<1>3. TypeOK'
  BY <1>2 DEF IInv, TypeOK
<1> QED
  BY <1>1, <1>3 DEF IInv

LEMMA ReturnKeeps ==
    ASSUME IInv, NEW c \in Callers, Busy(c), Returns(c),
           UNCHANGED <<bal, nans, supply, claims, paid, again>>,
           UNCHANGED <<entries, tips, made, evidence, owner, index, numbers>>,
           orderly' \in BOOLEAN, orderly' => orderly,
           orderly' => ~Past(calls[c])
    PROVE  IInv'
BY BlankPasses, ReadKeeps DEF Returns

LEMMA CallFacts ==
    ASSUME IInv, NEW c \in Callers
    PROVE  /\ calls[c] \in Call /\ Staged(calls[c])
           /\ supply \in Nat /\ \A n \in Nodes : bal[n] \in Nat
           /\ orderly \in BOOLEAN
BY DEF IInv, TypeOK, DebitInv, ClaimInv

\* The claim is unset and no other reward is under way: nothing paid it yet.
LEMMA UnsetClaimUnpaid ==
    ASSUME IInv, orderly, NEW c \in Callers, Busy(c), ~Past(calls[c]),
           calls[c].claim \notin claims
    PROVE  calls[c].claim \notin paid
<1>1. \A d \in Callers \ {c} : ~Past(calls[d])
  BY Alone DEF IInv, Busy, Past
<1> QED
  BY <1>1 DEF IInv, OnceInv

LEMMA ChecksKeep ==
    ASSUME IInv, NEW c \in Callers, CheckGenesis(c) \/ CheckClaim(c)
    PROVE  IInv'
<1>0. calls[c] \in Call /\ Staged(calls[c]) /\ orderly \in BOOLEAN
  BY CallFacts
<1>1. /\ UNCHANGED <<bal, nans, supply, claims, paid, again>>
      /\ UNCHANGED <<entries, tips, made, evidence, owner, index, orderly, numbers>>
      /\ Busy(c) /\ ~Past(calls[c]) /\ calls[c].kind = "reward" /\ calls[c].claim \in Claims
  BY <1>0 DEF CheckGenesis, CheckClaim, BooksStay, RestStays, Busy, Past, Staged
<1>2. CASE Returns(c)
  BY <1>0, <1>1, <1>2, ReturnKeeps
<1>3. CASE CheckGenesis(c) /\ GoesTo(c, "check")
  <2> DEFINE k == At(calls[c], "check")
  <2>1. k \in Call /\ k.at = "check" /\ k.kind = "reward" /\ k.claim \in Claims
    BY <1>0, <1>1, AtCall DEF Stages
  <2>2. Becomes(c, k)
    BY <1>3 DEF GoesTo
  <2> HIDE DEF k
  <2>3. Staged(k) /\ ~Past(k) /\ ~Granting(k)
    BY <2>1 DEF Staged, Past, Granting
  <2> QED
    BY <1>0, <1>1, <2>1, <2>2, <2>3, ReadKeeps
<1>4. CASE CheckClaim(c) /\ calls[c].claim \notin claims /\ GoesTo(c, "read_credit")
  <2> DEFINE k == At(calls[c], "read_credit")
  <2>1. /\ k \in Call /\ k.at = "read_credit" /\ k.kind = "reward"
        /\ k.claim \in Claims /\ k.claim = calls[c].claim
    BY <1>0, <1>1, AtCall DEF Stages
  <2>2. Becomes(c, k)
    BY <1>4 DEF GoesTo
  <2> HIDE DEF k
  <2>3. Staged(k) /\ ~Past(k)
    BY <2>1 DEF Staged, Past
  <2>4. orderly => k.claim \notin paid
    BY <1>1, <1>4, <2>1, UnsetClaimUnpaid
  <2> QED
    BY <1>0, <1>1, <2>1, <2>2, <2>3, <2>4, ReadKeeps
<1> QED
  BY <1>2, <1>3, <1>4 DEF CheckGenesis, CheckClaim

LEMMA ReadsKeep ==
    ASSUME IInv, NEW c \in Callers,
           ReadCredit(c) \/ ReadDebit(c) \/ ReadSupply(c) \/ ReadEntries(c)
    PROVE  IInv'
<1>0. /\ calls[c] \in Call /\ Staged(calls[c]) /\ orderly \in BOOLEAN
      /\ supply \in Nat /\ \A n \in Nodes : bal[n] \in Nat
  BY CallFacts
<1>1. /\ UNCHANGED <<bal, nans, supply, claims, paid, again>>
      /\ UNCHANGED <<entries, tips, made, evidence, owner, index, orderly, numbers>>
      /\ Busy(c)
  BY DEF ReadCredit, ReadDebit, ReadSupply, ReadEntries, BooksStay, RestStays, Busy
<1>p. Payee(calls[c]) \in Nodes /\ calls[c].node \in Nodes /\ AfterSupply(calls[c]) \in Stages
  BY <1>0, CallParts DEF Call
<1>2. CASE ReadCredit(c)
  <2> DEFINE k == SeesBalance(calls[c], "write_credit", Payee(calls[c]))
  <2>0. bal[Payee(calls[c])] \in Nat /\ "write_credit" \in Stages
    BY <1>0, <1>p DEF Stages
  <2>1. /\ k \in Call /\ k.at = "write_credit"
        /\ k.kind = calls[c].kind /\ k.claim = calls[c].claim
    BY <1>0, <2>0, SeesBalanceCall
  <2>2. Becomes(c, k) /\ calls[c].at = "read_credit"
    BY <1>2 DEF ReadCredit
  <2> HIDE DEF k
  <2>3. Staged(k) /\ ~Past(k) /\ ~Past(calls[c])
    BY <1>0, <2>1, <2>2 DEF Staged, Past
  <2>4. orderly /\ Granting(k) => k.claim \notin paid
    BY <2>1, <2>2 DEF Granting, IInv, OnceInv
  <2> QED
    BY <1>0, <1>1, <2>1, <2>2, <2>3, <2>4, ReadKeeps
<1>3. CASE ReadDebit(c) /\ Returns(c)
  <2>1. ~Past(calls[c])
    BY <1>3 DEF ReadDebit, Past
  <2> QED
    BY <1>0, <1>1, <1>3, <2>1, ReturnKeeps
<1>4. CASE LET k == SeesBalance(calls[c], "write_debit", calls[c].node)
           IN  ReadDebit(c) /\ Covers(k) /\ Becomes(c, k)
  <2> DEFINE k == SeesBalance(calls[c], "write_debit", calls[c].node)
  <2>0. bal[calls[c].node] \in Nat /\ "write_debit" \in Stages
    BY <1>0, <1>p DEF Stages
  <2>1. /\ k \in Call /\ k.at = "write_debit"
        /\ k.kind = calls[c].kind /\ k.claim = calls[c].claim
    BY <1>0, <2>0, SeesBalanceCall
  <2>2. Becomes(c, k) /\ calls[c].at = "read_debit" /\ Covers(k)
    BY <1>4 DEF ReadDebit
  <2> HIDE DEF k
  <2>3. Staged(k) /\ ~Past(k) /\ ~Granting(k) /\ ~Past(calls[c])
    BY <1>0, <2>1, <2>2 DEF Staged, Past, Granting
  <2> QED
    BY <1>0, <1>1, <2>1, <2>2, <2>3, ReadKeeps
<1>5. CASE ReadSupply(c)
  <2> DEFINE k == Sees(calls[c], AfterSupply(calls[c]), supply)
  <2>1. /\ k \in Call /\ k.at \in {"read_entries", "write_supply"}
        /\ k.kind = calls[c].kind /\ k.claim = calls[c].claim
    BY <1>0, <1>p, SeesCall DEF AfterSupply
  <2>2. Becomes(c, k) /\ calls[c].at = "read_supply"
    BY <1>5 DEF ReadSupply
  <2> HIDE DEF k
  <2>3. Staged(k) /\ ~Granting(k) /\ (Past(k) <=> Past(calls[c]))
    BY <1>0, <2>1, <2>2 DEF Staged, Past, Granting
  <2> QED
    BY <1>0, <1>1, <2>1, <2>2, <2>3, ReadKeeps
<1>6. CASE ReadEntries(c)
  <2> DEFINE k == [calls[c] EXCEPT !.at = "write_entries", !.entries = entries]
  <2>1. /\ k \in Call /\ k.at = "write_entries"
        /\ k.kind = calls[c].kind /\ k.claim = calls[c].claim
    <3>1. entries \in Seq(Entry) /\ "write_entries" \in Stages
      BY DEF IInv, TypeOK, Stages
    <3> QED
      BY <1>0, <3>1 DEF Call
  <2>2. Becomes(c, k) /\ calls[c].at = "read_entries"
    BY <1>6 DEF ReadEntries
  <2> HIDE DEF k
  <2>3. Staged(k) /\ ~Granting(k) /\ (Past(k) <=> Past(calls[c]))
    BY <1>0, <2>1, <2>2 DEF Staged, Past, Granting
  <2> QED
    BY <1>0, <1>1, <2>1, <2>2, <2>3, ReadKeeps
<1> QED
  BY <1>2, <1>3, <1>4, <1>5, <1>6 DEF ReadDebit

----------------------------------------------------------------------------
(* The lists, the events and their index. *)

ListsTyped ==
    /\ entries \in Seq(Entry) /\ Len(entries) <= MaxEntries
    /\ tips \in Seq(TipEntry) /\ Len(tips) <= MaxTips
    /\ evidence \in [Events -> 0..4]
    /\ index \in Seq(Events) /\ Len(index) <= MaxIndexed

\* Becoming k ends no reward under way and begins none.
Passing(k) == k \in Call /\ Staged(k) /\ ~Past(k) /\ ~Granting(k) /\ k.at # "write_debit"

LEMMA SidesKeep ==
    ASSUME IInv, NEW c \in Callers, NEW k, Passing(k), Busy(c), Becomes(c, k),
           UNCHANGED <<bal, nans, supply, claims, paid, again, made, owner, numbers>>,
           ListsTyped', orderly' \in BOOLEAN, orderly' => orderly,
           orderly' => ~Past(calls[c])
    PROVE  IInv'
<1>1. k \in Call
  BY DEF Passing
<1>2. DebitInv' /\ ClaimInv' /\ OnceInv'
  BY <1>1, GoesOn DEF Passing
<1>3. calls' \in [Callers -> Call]
  BY <1>1, BecomesCall DEF IInv, TypeOK
<1>4. TypeOK'
  BY <1>3 DEF IInv, TypeOK, ListsTyped
<1> QED
  BY <1>2, <1>4 DEF IInv

LEMMA ReturnPasses ==
    ASSUME NEW c \in Callers, Returns(c)
    PROVE  \E k : Passing(k) /\ Becomes(c, k)
BY BlankPasses DEF Passing, Returns

LEMMA AfterTipPasses ==
    ASSUME IInv, NEW c \in Callers, calls[c].at \in {"read_tips", "write_tips"}, AfterTip(c)
    PROVE  \E k : Passing(k) /\ Becomes(c, k)
<1>1. CASE calls[c].kind = "settle"
  <2> DEFINE k == [calls[c] EXCEPT !.at = "read_entries", !.kind = "settled"]
  <2>1. Becomes(c, k)
    BY <1>1 DEF AfterTip
  <2>2. k \in Call /\ k.at = "read_entries" /\ k.kind = "settled"
    <3>1. "read_entries" \in Stages /\ "settled" \in Kinds /\ calls[c] \in Call
      BY CallFacts DEF Stages, Kinds
    <3> QED
      BY <3>1 DEF Call
  <2> HIDE DEF k
  <2>3. Passing(k)
    BY <2>2 DEF Passing, Staged, Past, Granting
  <2> QED
    BY <2>1, <2>3
<1>2. CASE calls[c].kind # "settle"
  BY <1>2, ReturnPasses DEF AfterTip
<1> QED
  BY <1>1, <1>2

LEMMA AfterIndexPasses ==
    ASSUME IInv, NEW c \in Callers, calls[c].at \in {"read_index", "write_index"}, AfterIndex(c)
    PROVE  \E k : Passing(k) /\ Becomes(c, k)
<1>1. CASE calls[c].kind = "upgrade" /\ Credit[calls[c].level] > 0
  <2> DEFINE n == calls[c].node
             claim == <<"seed_hold", n, <<calls[c].event, calls[c].level>>>>
             k == RewardCall(n, Credit[calls[c].level], claim)
  <2>1. calls[c].event \in Events /\ calls[c].level \in Levels /\ n \in Nodes
    BY CallFacts DEF Staged, Call
  <2>2. claim \in Claims /\ Credit[calls[c].level] \in Nat
    BY <2>1, EconomyAssumption DEF Claims, Matters, Reasons
  <2>3. Becomes(c, k)
    BY <1>1 DEF AfterIndex
  <2> HIDE DEF claim
  <2>4. k \in Call /\ k.at = "check" /\ k.kind = "reward" /\ k.claim \in Claims
    BY <2>1, <2>2, RewardCallType
  <2> HIDE DEF k
  <2>5. Passing(k)
    BY <2>4 DEF Passing, Staged, Past, Granting
  <2> QED
    BY <2>3, <2>5
<1>2. CASE ~(calls[c].kind = "upgrade" /\ Credit[calls[c].level] > 0)
  BY <1>2, ReturnPasses DEF AfterIndex
<1> QED
  BY <1>1, <1>2

LEMMA TipsKeep ==
    ASSUME IInv, NEW c \in Callers, ReadTips(c) \/ WriteTips(c)
    PROVE  IInv'
<1>0. /\ calls[c] \in Call /\ Staged(calls[c]) /\ orderly \in BOOLEAN /\ ListsTyped
      /\ UNCHANGED <<bal, nans, supply, claims, paid, again, made, owner, orderly, numbers>>
      /\ UNCHANGED <<entries, evidence, index>>
      /\ Busy(c) /\ ~Past(calls[c])
  BY CallFacts DEF IInv, TypeOK, ListsTyped, ReadTips, WriteTips, BooksStay, RestStays, Busy, Past
<1>1. CASE ReadTips(c)
  <2> DEFINE k == [calls[c] EXCEPT !.at = "write_tips", !.tips = tips]
  <2>1. Becomes(c, k) /\ calls[c].at = "read_tips" /\ tips' = tips
    BY <1>1 DEF ReadTips
  <2>2. k \in Call /\ k.at = "write_tips" /\ k.kind = calls[c].kind /\ k.claim = calls[c].claim
    <3>1. tips \in Seq(TipEntry) /\ "write_tips" \in Stages
      BY <1>0 DEF ListsTyped, Stages
    <3> QED
      BY <1>0, <3>1 DEF Call
  <2> HIDE DEF k
  <2>3. Passing(k)
    BY <1>0, <2>1, <2>2 DEF Passing, Staged, Past, Granting
  <2>4. ListsTyped'
    BY <1>0, <2>1 DEF ListsTyped
  <2> QED
    BY <1>0, <2>1, <2>3, <2>4, SidesKeep
<1>2. CASE WriteTips(c)
  <2> DEFINE items == Append(calls[c].tips, [node |-> calls[c].node, sats |-> SatsOf(calls[c])])
  <2>1. tips' = Newest(items, MaxTips) /\ calls[c].at = "write_tips" /\ AfterTip(c)
    BY <1>2 DEF WriteTips
  <2>2. items \in Seq(TipEntry)
    BY <1>0, CallParts DEF Call
  <2> HIDE DEF items
  <2>3. tips' \in Seq(TipEntry) /\ Len(tips') <= MaxTips
    BY <2>1, <2>2, NewestKeepsType, LedgerAssumption
  <2>4. ListsTyped'
    BY <1>0, <2>3 DEF ListsTyped
  <2>5. PICK k : Passing(k) /\ Becomes(c, k)
    BY <2>1, AfterTipPasses
  <2> QED
    BY <1>0, <2>4, <2>5, SidesKeep
<1> QED
  BY <1>1, <1>2

LEMMA EventsKeep ==
    ASSUME IInv, NEW c \in Callers,
           ReadEvent(c) \/ WriteEvent(c) \/ ReadIndex(c) \/ WriteIndex(c)
    PROVE  IInv'
<1>0. /\ calls[c] \in Call /\ Staged(calls[c]) /\ orderly \in BOOLEAN /\ ListsTyped
      /\ UNCHANGED <<bal, nans, supply, claims, paid, again, made, owner, orderly, numbers>>
      /\ UNCHANGED <<entries, tips>>
      /\ Busy(c) /\ ~Past(calls[c])
      /\ calls[c].event \in Events /\ calls[c].level \in Levels
      /\ calls[c].kind \in {"share", "upgrade"}
  BY CallFacts DEF IInv, TypeOK, ListsTyped, ReadEvent, WriteEvent, ReadIndex, WriteIndex,
                   BooksStay, RestStays, Busy, Past, Staged
<1>g. ASSUME NEW stage \in {"write_event", "read_index"}, GoesTo(c, stage)
      PROVE  \E k : Passing(k) /\ Becomes(c, k)
  <2> DEFINE k == At(calls[c], stage)
  <2>1. stage \in Stages
    BY DEF Stages
  <2>2. k \in Call /\ k.at = stage /\ k.kind = calls[c].kind
    BY <1>0, <2>1, AtCall
  <2>3. k.event = calls[c].event /\ k.level = calls[c].level
    BY <1>0 DEF At, Call
  <2>4. Becomes(c, k)
    BY <1>g DEF GoesTo
  <2> HIDE DEF k
  <2>5. Passing(k)
    BY <1>0, <2>2, <2>3 DEF Passing, Staged, Past, Granting
  <2> QED
    BY <2>4, <2>5
<1>1. CASE ReadEvent(c)
  <2>1. ListsTyped'
    BY <1>0, <1>1 DEF ListsTyped, ReadEvent, RestStays
  <2>2. PICK k : Passing(k) /\ Becomes(c, k)
    BY <1>1, <1>g, ReturnPasses DEF ReadEvent
  <2> QED
    BY <1>0, <2>1, <2>2, SidesKeep
<1>2. CASE WriteEvent(c)
  <2>1. evidence' \in [Events -> 0..4]
    <3>1. evidence' = [evidence EXCEPT ![calls[c].event] = calls[c].level]
      BY <1>2 DEF WriteEvent
    <3>2. calls[c].level \in 0..4
      BY <1>0 DEF Levels
    <3> QED
      BY <1>0, <3>1, <3>2 DEF ListsTyped
  <2>2. ListsTyped'
    BY <1>0, <1>2, <2>1 DEF ListsTyped, WriteEvent
  <2>3. PICK k : Passing(k) /\ Becomes(c, k)
    BY <1>2, <1>g DEF WriteEvent
  <2> QED
    BY <1>0, <2>2, <2>3, SidesKeep
<1>3. CASE ReadIndex(c)
  <2> DEFINE k == [calls[c] EXCEPT !.at = "write_index", !.index = index]
  <2>1. Becomes(c, k)
    BY <1>3 DEF ReadIndex
  <2>2. /\ k \in Call /\ k.at = "write_index" /\ k.kind = calls[c].kind
        /\ k.event = calls[c].event /\ k.level = calls[c].level
        /\ Len(k.index) <= MaxIndexed
    <3>1. index \in Seq(Events) /\ "write_index" \in Stages /\ Len(index) <= MaxIndexed
      BY <1>0 DEF ListsTyped, Stages
    <3> QED
      BY <1>0, <3>1 DEF Call
  <2> HIDE DEF k
  <2>3. Passing(k)
    BY <1>0, <2>2 DEF Passing, Staged, Past, Granting
  <2>4. ListsTyped'
    BY <1>0, <1>3 DEF ListsTyped, ReadIndex, RestStays
  <2> QED
    BY <1>0, <2>1, <2>3, <2>4, SidesKeep
<1>4. CASE WriteIndex(c)
  <2> DEFINE ids == calls[c].index
             items == Append(ids, calls[c].event)
             found == \E i \in 1..Len(ids) : ids[i] = calls[c].event
  <2>1. /\ index' = IF found THEN ids ELSE Newest(items, MaxIndexed)
        /\ calls[c].at = "write_index" /\ AfterIndex(c) /\ evidence' = evidence
    BY <1>4 DEF WriteIndex
  <2>2. ids \in Seq(Events) /\ items \in Seq(Events)
    BY <1>0 DEF Call
  <2> HIDE DEF items, found
  <2>3. Newest(items, MaxIndexed) \in Seq(Events) /\ Len(Newest(items, MaxIndexed)) <= MaxIndexed
    BY <2>2, NewestKeepsType, EconomyAssumption
  <2>4. Len(ids) <= MaxIndexed
    BY <1>0, <2>1 DEF Staged
  <2>5. ListsTyped'
    BY <1>0, <2>1, <2>2, <2>3, <2>4 DEF ListsTyped
  <2>6. PICK k : Passing(k) /\ Becomes(c, k)
    BY <2>1, AfterIndexPasses
  <2> QED
    BY <1>0, <2>5, <2>6, SidesKeep
<1> QED
  BY <1>1, <1>2, <1>3, <1>4

----------------------------------------------------------------------------
(* Balances, supply, entries and claims are written. *)

LEMMA EntriesKeep ==
    ASSUME IInv, NEW c \in Callers, WriteEntries(c)
    PROVE  IInv'
<1>0. /\ calls[c] \in Call /\ Staged(calls[c]) /\ orderly \in BOOLEAN
      /\ UNCHANGED <<bal, nans, supply, claims, paid, again, made, evidence, owner, index, tips, orderly, numbers>>
      /\ Busy(c) /\ calls[c].at = "write_entries"
  BY CallFacts DEF WriteEntries, BooksStay, RestStays, Busy
<1>1. entries' \in Seq(Entry) /\ Len(entries') <= MaxEntries
  <2> DEFINE items == Append(calls[c].entries, EntryOf(calls[c]))
  <2>1. entries' = Newest(items, MaxEntries)
    BY DEF WriteEntries
  <2>2. items \in Seq(Entry)
    <3>1. EntryOf(calls[c]) \in Entry
      BY <1>0, CallParts
    <3>2. calls[c].entries \in Seq(Entry)
      BY <1>0 DEF Call
    <3> QED
      BY <3>1, <3>2
  <2> HIDE DEF items
  <2> QED
    BY <2>1, <2>2, NewestKeepsType, LedgerAssumption
<1>2. PICK k \in Call : /\ Becomes(c, k) /\ Staged(k) /\ ~Granting(k) /\ k.at # "write_debit"
                        /\ Past(k) => k.claim = calls[c].claim
                        /\ Past(k) <=> Past(calls[c])
  <2>1. CASE calls[c].kind = "reward"
    <3> DEFINE k == At(calls[c], "mark")
    <3>1. Becomes(c, k)
      BY <2>1 DEF WriteEntries, GoesTo
    <3>2. k \in Call /\ k.at = "mark" /\ k.kind = "reward" /\ k.claim = calls[c].claim
      BY <1>0, <2>1, AtCall DEF Stages
    <3> HIDE DEF k
    <3>3. Staged(k) /\ ~Granting(k) /\ Past(k) /\ Past(calls[c])
      BY <1>0, <2>1, <3>2 DEF Staged, Granting, Past
    <3> QED
      BY <3>1, <3>2, <3>3
  <2>2. CASE calls[c].kind = "settle" /\ ~calls[c].nan
    <3> DEFINE k == At(calls[c], "read_tips")
    <3>1. Becomes(c, k)
      BY <2>2 DEF WriteEntries, GoesTo
    <3>2. k \in Call /\ k.at = "read_tips" /\ k.kind = "settle"
      BY <1>0, <2>2, AtCall DEF Stages
    <3> HIDE DEF k
    <3>3. Staged(k) /\ ~Granting(k) /\ ~Past(k) /\ ~Past(calls[c])
      BY <1>0, <2>2, <3>2 DEF Staged, Granting, Past
    <3> QED
      BY <3>1, <3>2, <3>3
  <2>3. CASE calls[c].kind # "reward" /\ ~(calls[c].kind = "settle" /\ ~calls[c].nan)
    <3>1. Returns(c) /\ ~Past(calls[c])
      BY <2>3 DEF WriteEntries, Past
    <3> QED
      BY <3>1, ReturnPasses DEF Passing
  <2> QED
    BY <2>1, <2>2, <2>3
<1>3. DebitInv' /\ ClaimInv' /\ OnceInv'
  BY <1>0, <1>2, GoesOn
<1>4. calls' \in [Callers -> Call]
  BY <1>2, BecomesCall DEF IInv, TypeOK
<1>5. TypeOK'
  BY <1>0, <1>1, <1>4 DEF IInv, TypeOK
<1> QED
  BY <1>3, <1>5 DEF IInv

LEMMA WrittenBalance ==
    ASSUME bal \in [Nodes -> Int], \A n \in Nodes : bal[n] \in Nat, nans \subseteq Nodes,
           NEW m \in Nodes, NEW v, NEW number \in BOOLEAN, number => v \in Nat,
           WriteBalance(m, v, number)
    PROVE  /\ bal' \in [Nodes -> Int] /\ \A n \in Nodes : bal'[n] >= 0
           /\ nans' \subseteq Nodes
<1> DEFINE w == IF number THEN v ELSE 0
<1>1. w \in Int /\ w >= 0
  OBVIOUS
<1>2. bal' = [bal EXCEPT ![m] = w]
  BY DEF WriteBalance
<1>3. nans' \subseteq Nodes
  BY DEF WriteBalance
<1> HIDE DEF w
<1>4. bal' \in [Nodes -> Int]
  BY <1>1, <1>2
<1>5. \A n \in Nodes : bal'[n] = IF n = m THEN w ELSE bal[n]
  BY <1>2
<1> QED
  BY <1>1, <1>3, <1>4, <1>5

LEMMA CreditKeeps ==
    ASSUME IInv, NEW c \in Callers, WriteCredit(c)
    PROVE  IInv'
<1> DEFINE k == At(calls[c], "read_supply")
<1>0. /\ calls[c] \in Call /\ Staged(calls[c]) /\ calls[c].at = "write_credit" /\ Busy(c)
      /\ Becomes(c, k) /\ ~Past(calls[c])
      /\ UNCHANGED <<supply, claims, entries, tips, made, evidence, owner, index, orderly, numbers>>
  BY CallFacts DEF WriteCredit, RestStays, Busy, GoesTo, Past
<1>1. /\ k \in Call /\ k.at = "read_supply" /\ k.kind = calls[c].kind /\ k.claim = calls[c].claim
  BY <1>0, AtCall DEF Stages
<1> HIDE DEF k
<1>2. /\ calls' \in [Callers -> Call] /\ calls'[c] = k
      /\ \A d \in Callers \ {c} : calls'[d] = calls[d]
  BY <1>0, <1>1, BecomesCall DEF IInv, TypeOK
<1>3. /\ bal' \in [Nodes -> Int] /\ nans' \subseteq Nodes
      /\ \A n \in Nodes : bal'[n] >= 0
  <2>1. WriteBalance(Payee(calls[c]), calls[c].seen + calls[c].amount, Counts(calls[c]))
    BY DEF WriteCredit
  <2>2. calls[c].seen + calls[c].amount \in Nat /\ Counts(calls[c]) \in BOOLEAN
    BY <1>0 DEF Call, Counts
  <2>3. bal \in [Nodes -> Int] /\ (\A n \in Nodes : bal[n] \in Nat) /\ nans \subseteq Nodes
    BY CallFacts DEF IInv, TypeOK
  <2>4. Payee(calls[c]) \in Nodes
    BY <1>0, CallParts
  <2> QED
    BY <2>1, <2>2, <2>3, <2>4, WrittenBalance
<1>4. CASE calls[c].kind = "reward"
  <2> DEFINE claim == calls[c].claim
  <2>1. /\ claim \in Claims /\ paid' = paid \cup {claim}
        /\ again' = IF claim \in paid THEN again \cup {claim} ELSE again
    BY <1>0, <1>4 DEF WriteCredit, Credited, Staged
  <2>2. TypeOK'
    BY <1>0, <1>2, <1>3, <2>1 DEF IInv, TypeOK
  <2>3. DebitInv'
    BY <1>0, <1>1, <1>2, <1>3 DEF IInv, DebitInv, Covers
  <2>4. Staged(k) /\ Past(k) /\ ~Granting(k)
    BY <1>1, <1>4, <2>1 DEF Staged, Past, Granting
  <2>5. ClaimInv'
    BY <1>0, <1>1, <1>2, <2>1, <2>4 DEF IInv, ClaimInv
  <2>6. OnceInv'
    <3> SUFFICES ASSUME orderly'
                 PROVE  /\ again' = {}
                        /\ \A d, e \in Callers : Busy(d)' /\ Busy(e)' => d = e
                        /\ \A x \in paid' : x \in claims' \/ \E d \in Callers :
                               Past(calls'[d]) /\ calls'[d].claim = x
                        /\ \A d \in Callers : Granting(calls'[d]) => calls'[d].claim \notin paid'
      BY DEF OnceInv
    <3>1. orderly /\ \A d \in Callers \ {c} : ~Busy(d)
      BY <1>0, Alone DEF IInv
    <3>2. claim \notin paid
      BY <1>0, <1>4, <3>1 DEF IInv, OnceInv, Granting
    <3>3. again' = {}
      BY <2>1, <3>1, <3>2 DEF IInv, OnceInv
    <3>4. ASSUME NEW d \in Callers, NEW e \in Callers, Busy(d)', Busy(e)'
          PROVE  d = e
      BY <1>2, <3>1, <3>4 DEF Busy
    <3>5. ASSUME NEW x \in paid'
          PROVE  x \in claims' \/ \E d \in Callers : Past(calls'[d]) /\ calls'[d].claim = x
      <4>1. CASE x = claim
        BY <1>1, <1>2, <2>4, <4>1
      <4>2. CASE x \in paid
        <5>1. \A d \in Callers : ~Past(calls[d])
          BY <1>0, <3>1 DEF Busy, Past
        <5> QED
          BY <1>0, <3>1, <4>2, <5>1 DEF IInv, OnceInv
      <4> QED
        BY <2>1, <4>1, <4>2
    <3>6. ASSUME NEW d \in Callers, Granting(calls'[d])
          PROVE  calls'[d].claim \notin paid'
      <4>1. \A e \in Callers \ {c} : ~Granting(calls[e])
        BY <3>1 DEF Busy, Granting
      <4> QED
        BY <1>2, <2>4, <3>6, <4>1
    <3> QED
      BY <3>3, <3>4, <3>5, <3>6
  <2> QED
    BY <2>2, <2>3, <2>5, <2>6 DEF IInv
<1>5. CASE calls[c].kind # "reward"
  <2>1. paid' = paid /\ again' = again
    BY <1>5 DEF WriteCredit
  <2>k. calls[c].kind \in {"reward", "transfer"}
    BY <1>0 DEF Staged
  <2>2. Staged(k) /\ ~Past(k) /\ ~Granting(k)
    BY <1>1, <1>5, <2>k DEF Staged, Past, Granting
  <2>3. TypeOK'
    BY <1>0, <1>2, <1>3, <2>1 DEF IInv, TypeOK
  <2>4. DebitInv'
    BY <1>0, <1>1, <1>2, <1>3 DEF IInv, DebitInv, Covers
  <2>5. ClaimInv'
    BY <1>0, <1>1, <1>2, <2>1, <2>2 DEF IInv, ClaimInv
  <2>6. OnceInv'
    BY <1>0, <1>2, <2>1, <2>2, NothingPassed DEF IInv
  <2> QED
    BY <2>3, <2>4, <2>5, <2>6 DEF IInv
<1> QED
  BY <1>4, <1>5

LEMMA DebitKeeps ==
    ASSUME IInv, NEW c \in Callers, WriteDebit(c)
    PROVE  IInv'
<1> DEFINE stage == IF calls[c].kind = "transfer" THEN "read_credit" ELSE "read_supply"
           k == At(calls[c], stage)
<1>0. /\ calls[c] \in Call /\ Staged(calls[c]) /\ calls[c].at = "write_debit" /\ Busy(c)
      /\ Becomes(c, k) /\ ~Past(calls[c])
      /\ UNCHANGED <<supply, claims, paid, again>>
      /\ UNCHANGED <<entries, tips, made, evidence, owner, index, orderly, numbers>>
  BY CallFacts DEF WriteDebit, RestStays, Busy, GoesTo, Past
<1>1. k \in Call /\ k.at = stage /\ k.kind = calls[c].kind /\ k.claim = calls[c].claim
  BY <1>0, AtCall DEF Stages
<1> HIDE DEF k
<1>2. /\ calls' \in [Callers -> Call] /\ calls'[c] = k
      /\ \A d \in Callers \ {c} : calls'[d] = calls[d]
  BY <1>0, <1>1, BecomesCall DEF IInv, TypeOK
<1>3. /\ bal' \in [Nodes -> Int] /\ nans' \subseteq Nodes
      /\ \A n \in Nodes : bal'[n] >= 0
  <2>1. WriteBalance(calls[c].node, calls[c].seen - Owed(calls[c]), Counts(calls[c]))
    BY DEF WriteDebit
  <2>2. /\ Counts(calls[c]) => calls[c].seen >= Owed(calls[c])
        /\ calls[c].seen \in Nat /\ Owed(calls[c]) \in Nat
    BY <1>0, CallParts DEF IInv, DebitInv, Covers, Call
  <2>3. /\ Counts(calls[c]) => calls[c].seen - Owed(calls[c]) \in Nat
        /\ Counts(calls[c]) \in BOOLEAN
    BY <1>0, <2>2 DEF Counts, Call
  <2>4. bal \in [Nodes -> Int] /\ (\A n \in Nodes : bal[n] \in Nat) /\ nans \subseteq Nodes
    BY CallFacts DEF IInv, TypeOK
  <2>5. calls[c].node \in Nodes
    BY <1>0 DEF Call
  <2> QED
    BY <2>1, <2>3, <2>4, <2>5, WrittenBalance
<1>4. TypeOK'
  BY <1>0, <1>2, <1>3 DEF IInv, TypeOK
<1>5. DebitInv'
  BY <1>0, <1>1, <1>2, <1>3 DEF IInv, DebitInv, Covers
<1>6. calls[c].kind \in {"transfer", "settle"}
  BY <1>0 DEF Staged
<1>7. Staged(k) /\ ~Past(k) /\ ~Granting(k)
  BY <1>1, <1>6 DEF Staged, Past, Granting
<1>8. ClaimInv'
  BY <1>0, <1>1, <1>2, <1>7 DEF IInv, ClaimInv
<1>9. OnceInv'
  BY <1>0, <1>2, <1>7, NothingPassed DEF IInv
<1> QED
  BY <1>4, <1>5, <1>8, <1>9 DEF IInv

LEMMA SupplyKeeps ==
    ASSUME IInv, NEW c \in Callers, StoreSupply(c)
    PROVE  IInv'
<1> DEFINE k == At(calls[c], "read_entries")
<1>0. /\ calls[c] \in Call /\ Staged(calls[c]) /\ calls[c].at = "write_supply" /\ Busy(c)
      /\ Becomes(c, k) /\ orderly \in BOOLEAN
      /\ UNCHANGED <<bal, nans, claims, paid, again>>
      /\ UNCHANGED <<entries, tips, made, evidence, owner, index, orderly, numbers>>
  BY CallFacts DEF StoreSupply, BooksStay, RestStays, Busy, GoesTo
<1>1. /\ k \in Call /\ k.at = "read_entries"
      /\ k.kind = calls[c].kind /\ k.claim = calls[c].claim
  BY <1>0, AtCall DEF Stages
<1> HIDE DEF k
<1>2. /\ calls' \in [Callers -> Call] /\ calls'[c] = k
      /\ \A d \in Callers \ {c} : calls'[d] = calls[d]
  BY <1>0, <1>1, BecomesCall DEF IInv, TypeOK
<1>3. supply' \in Nat
  <2>1. \/ supply' = AtLeastZero(calls[c].seen + SupplyChange(calls[c]))
        \/ supply' = AtLeastZero(0)
    BY DEF StoreSupply, WriteSupply
  <2>2. calls[c].seen + SupplyChange(calls[c]) \in Int
    <3>1. calls[c].seen \in Nat
      BY <1>0 DEF Call
    <3>2. SupplyChange(calls[c]) \in Int
      BY <1>0, CallParts
    <3> QED
      BY <3>1, <3>2
  <2> QED
    BY <2>1, <2>2 DEF AtLeastZero
<1>4. Staged(k) /\ ~Granting(k) /\ (Past(k) <=> Past(calls[c]))
  BY <1>0, <1>1 DEF Staged, Past, Granting
<1>5. TypeOK'
  BY <1>0, <1>2, <1>3 DEF IInv, TypeOK
<1>6. DebitInv'
  BY <1>0, <1>1, <1>2, <1>3 DEF IInv, DebitInv, Covers
<1>7. ClaimInv'
  BY <1>0, <1>1, <1>2, <1>4 DEF IInv, ClaimInv
<1>8. OnceInv'
  <2> SUFFICES ASSUME orderly'
               PROVE  /\ again' = {}
                      /\ \A d, e \in Callers : Busy(d)' /\ Busy(e)' => d = e
                      /\ \A x \in paid' : x \in claims' \/ \E d \in Callers :
                             Past(calls'[d]) /\ calls'[d].claim = x
                      /\ \A d \in Callers : Granting(calls'[d]) => calls'[d].claim \notin paid'
    BY DEF OnceInv
  <2>1. orderly /\ \A d \in Callers \ {c} : ~Busy(d)
    BY <1>0, Alone DEF IInv
  <2>2. \A d, e \in Callers : Busy(d)' /\ Busy(e)' => d = e
    BY <1>2, <2>1 DEF Busy
  <2>3. ASSUME NEW x \in paid', x \notin claims'
        PROVE  \E d \in Callers : Past(calls'[d]) /\ calls'[d].claim = x
    <3>1. PICK d \in Callers : Past(calls[d]) /\ calls[d].claim = x
      BY <1>0, <2>1, <2>3 DEF IInv, OnceInv
    <3>2. d = c
      BY <2>1, <3>1 DEF Busy, Past
    <3> QED
      BY <1>1, <1>2, <1>4, <3>1, <3>2
  <2>4. \A d \in Callers : ~Granting(calls'[d])
    BY <1>2, <1>4, <2>1 DEF Busy, Granting
  <2>5. again' = {}
    BY <1>0, <2>1 DEF IInv, OnceInv
  <2> QED
    BY <2>2, <2>3, <2>4, <2>5
<1> QED
  BY <1>5, <1>6, <1>7, <1>8 DEF IInv

LEMMA MarkKeeps ==
    ASSUME IInv, NEW c \in Callers, MarkClaim(c)
    PROVE  IInv'
<1> DEFINE k == Blank(Home[c])
           claim == calls[c].claim
<1>0. /\ calls[c] \in Call /\ Staged(calls[c]) /\ calls[c].at = "mark" /\ Busy(c)
      /\ Becomes(c, k) /\ claims' = claims \cup {claim} /\ orderly \in BOOLEAN
      /\ UNCHANGED <<bal, nans, supply, paid, again>>
      /\ UNCHANGED <<entries, tips, made, evidence, owner, index, orderly, numbers>>
  BY CallFacts DEF MarkClaim, BooksStay, RestStays, Busy, Returns
<1>1. k \in Call /\ Staged(k) /\ ~Past(k) /\ ~Granting(k) /\ k.at = "idle"
  BY BlankPasses
<1> HIDE DEF k
<1>2. /\ calls' \in [Callers -> Call] /\ calls'[c] = k
      /\ \A d \in Callers \ {c} : calls'[d] = calls[d]
  BY <1>0, <1>1, BecomesCall DEF IInv, TypeOK
<1>3. Past(calls[c]) /\ claim \in Claims /\ claim \in paid
  BY <1>0 DEF IInv, ClaimInv, Staged, Past
<1>4. TypeOK'
  BY <1>0, <1>2, <1>3 DEF IInv, TypeOK
<1>5. DebitInv'
  BY <1>0, <1>1, <1>2 DEF IInv, DebitInv, Covers
<1>6. ClaimInv'
  BY <1>0, <1>1, <1>2, <1>3 DEF IInv, ClaimInv
<1>7. OnceInv'
  <2> SUFFICES ASSUME orderly'
               PROVE  /\ again' = {}
                      /\ \A d, e \in Callers : Busy(d)' /\ Busy(e)' => d = e
                      /\ \A x \in paid' : x \in claims' \/ \E d \in Callers :
                             Past(calls'[d]) /\ calls'[d].claim = x
                      /\ \A d \in Callers : Granting(calls'[d]) => calls'[d].claim \notin paid'
    BY DEF OnceInv
  <2>1. orderly /\ \A d \in Callers \ {c} : ~Busy(d)
    BY <1>0, Alone DEF IInv
  <2>2. \A d, e \in Callers : Busy(d)' /\ Busy(e)' => d = e
    BY <1>1, <1>2, <2>1 DEF Busy
  <2>3. ASSUME NEW x \in paid'
        PROVE  x \in claims'
    <3>1. CASE x \in claims
      BY <1>0, <3>1
    <3>2. CASE x \notin claims
      <4>1. PICK d \in Callers : Past(calls[d]) /\ calls[d].claim = x
        BY <1>0, <2>1, <2>3, <3>2 DEF IInv, OnceInv
      <4>2. d = c
        BY <2>1, <4>1 DEF Busy, Past
      <4> QED
        BY <1>0, <4>1, <4>2
    <3> QED
      BY <3>1, <3>2
  <2>4. \A d \in Callers : ~Granting(calls'[d])
    BY <1>1, <1>2, <2>1 DEF Busy, Granting
  <2>5. again' = {}
    BY <1>0, <2>1 DEF IInv, OnceInv
  <2> QED
    BY <2>2, <2>3, <2>4, <2>5
<1> QED
  BY <1>4, <1>5, <1>6, <1>7 DEF IInv

----------------------------------------------------------------------------
(* Failures, and the invariant. *)

LEMMA FailsKeep ==
    ASSUME IInv, NEW c \in Callers, Fails(c)
    PROVE  IInv'
<1>0. /\ calls[c] \in Call /\ Staged(calls[c]) /\ ListsTyped
      /\ UNCHANGED <<bal, nans, supply, claims, paid, again, made, owner, numbers>>
      /\ UNCHANGED <<entries, tips, evidence, index>>
      /\ ~orderly' /\ orderly' \in BOOLEAN /\ Busy(c)
  BY CallFacts DEF IInv, TypeOK, ListsTyped, Fails, StoreStays, Busy,
                   CutShort, ClaimUnread, SupplyUnread, TipFails, IndexFails
<1>l. ListsTyped'
  BY <1>0 DEF ListsTyped
<1>1. CASE CutShort(c)
  BY <1>0, <1>1, ReturnKeeps DEF CutShort
<1>2. CASE ClaimUnread(c)
  <2> DEFINE k == At(calls[c], "read_credit")
  <2>1. /\ k \in Call /\ k.at = "read_credit" /\ k.kind = calls[c].kind
        /\ k.claim = calls[c].claim
    BY <1>0, AtCall DEF Stages
  <2>2. Becomes(c, k) /\ calls[c].at = "check"
    BY <1>2 DEF ClaimUnread, GoesTo
  <2> HIDE DEF k
  <2>3. Staged(k) /\ ~Past(k)
    BY <1>0, <2>1, <2>2 DEF Staged, Past
  <2> QED
    BY <1>0, <2>1, <2>2, <2>3, ReadKeeps
<1>3. CASE calls[c].at = "genesis" /\ GoesTo(c, "check")
  <2> DEFINE k == At(calls[c], "check")
  <2>1. /\ k \in Call /\ k.at = "check" /\ k.kind = calls[c].kind
        /\ k.claim = calls[c].claim
    BY <1>0, AtCall DEF Stages
  <2>2. Becomes(c, k)
    BY <1>3 DEF GoesTo
  <2> HIDE DEF k
  <2>3. Staged(k) /\ ~Past(k)
    BY <1>0, <1>3, <2>1 DEF Staged, Past
  <2> QED
    BY <1>0, <2>1, <2>2, <2>3, ReadKeeps
<1>4. CASE calls[c].at = "read_supply"
           /\ Becomes(c, Sees(calls[c], AfterSupply(calls[c]), 0))
  <2> DEFINE k == Sees(calls[c], AfterSupply(calls[c]), 0)
  <2>1. /\ k \in Call /\ k.at \in {"read_entries", "write_supply"}
        /\ k.kind = calls[c].kind /\ k.claim = calls[c].claim
    <3>1. AfterSupply(calls[c]) \in Stages
      BY <1>0, CallParts
    <3>2. AfterSupply(calls[c]) \in {"read_entries", "write_supply"}
      BY DEF AfterSupply
    <3> HIDE DEF k
    <3> QED
      BY <1>0, <3>1, <3>2, SeesCall DEF k
  <2>2. Becomes(c, k)
    BY <1>4
  <2> HIDE DEF k
  <2>3. Staged(k) /\ (Past(k) <=> Past(calls[c]))
    BY <1>0, <1>4, <2>1 DEF Staged, Past
  <2> QED
    BY <1>0, <2>1, <2>2, <2>3, ReadKeeps
<1>5. CASE TipFails(c)
  <2>1. PICK k : Passing(k) /\ Becomes(c, k)
    BY <1>5, AfterTipPasses DEF TipFails
  <2> QED
    BY <1>0, <1>l, <2>1, SidesKeep
<1>6. CASE IndexFails(c)
  <2>1. PICK k : Passing(k) /\ Becomes(c, k)
    BY <1>6, AfterIndexPasses DEF IndexFails
  <2> QED
    BY <1>0, <1>l, <2>1, SidesKeep
<1> QED
  BY <1>1, <1>2, <1>3, <1>4, <1>5, <1>6 DEF Fails, SupplyUnread

LEMMA InitIInv ==
    ASSUME Init
    PROVE  IInv
<1>1. \A c \in Callers : calls[c] = Blank(Home[c]) /\ Home[c] \in Nodes
  BY EconomyAssumption DEF Init
<1>2. calls \in [Callers -> Call]
  BY <1>1, BlankCall DEF Init
<1>3. TypeOK
  <2>1. /\ <<>> \in Seq(Entry) /\ <<>> \in Seq(TipEntry) /\ <<>> \in Seq(Events)
        /\ Len(<<>>) = 0
    OBVIOUS
  <2>2. MaxEntries \in Nat /\ MaxTips \in Nat /\ MaxIndexed \in Nat /\ MaxCalls \in Nat
    BY LedgerAssumption, EconomyAssumption
  <2> QED
    BY <1>2, <2>1, <2>2 DEF Init, LedgerInit, TypeOK
<1>4. \A c \in Callers : Staged(calls[c]) /\ ~Past(calls[c]) /\ ~Granting(calls[c])
                         /\ calls[c].at = "idle"
  BY <1>1, BlankPasses
<1>5. DebitInv
  BY <1>4 DEF Init, LedgerInit, DebitInv
<1>6. ClaimInv
  BY <1>4 DEF Init, LedgerInit, ClaimInv
<1>7. OnceInv
  BY <1>4 DEF Init, LedgerInit, OnceInv, Busy
<1> QED
  BY <1>3, <1>5, <1>6, <1>7 DEF IInv

LEMMA NextKeepsIInv ==
    ASSUME IInv, [Next]_vars
    PROVE  IInv'
<1>1. ASSUME NEW c \in Callers, Starts(c)
      PROVE  IInv'
  BY <1>1, StartsKeep
<1>2. ASSUME NEW c \in Callers, BookStep(c)
      PROVE  IInv'
  BY <1>2, ChecksKeep, ReadsKeep, CreditKeeps, DebitKeeps, SupplyKeeps, EntriesKeep, MarkKeeps
     DEF BookStep
<1>3. ASSUME NEW c \in Callers, SideStep(c)
      PROVE  IInv'
  BY <1>3, TipsKeep, EventsKeep DEF SideStep
<1>4. ASSUME NEW c \in Callers, Fails(c)
      PROVE  IInv'
  BY <1>4, FailsKeep
<1>5. ASSUME NEW e \in Events, EventExpires(e)
      PROVE  IInv'
  <2>1. /\ evidence' \in [Events -> 0..4]
        /\ made' \in 0..MaxCalls
    BY <1>5 DEF EventExpires, IInv, TypeOK
  <2> QED
    BY <1>5, <2>1, NothingElseKeeps DEF EventExpires
<1>6. CASE UNCHANGED vars
  <2>1. /\ evidence' \in [Events -> 0..4]
        /\ made' \in 0..MaxCalls
    BY <1>6 DEF vars, IInv, TypeOK
  <2> QED
    BY <1>6, <2>1, NothingElseKeeps DEF vars
<1> QED
  BY <1>1, <1>2, <1>3, <1>4, <1>5, <1>6 DEF Next

\* The invariant: for any nodes, threads, fees, events, failures and overlaps.
THEOREM EconomyInvariant == Spec => []IInv
<1>1. Init => IInv
  BY InitIInv
<1>2. IInv /\ [Next]_vars => IInv'
  BY NextKeepsIInv
<1> QED
  BY <1>1, <1>2, PTL DEF Spec

\* A claim that is set has been credited, whatever overlaps or fails: it is
\* marked by the call that has written the balance.
THEOREM MarkedClaimsWerePaid == Spec => []ClaimsWerePaid
<1>1. IInv => ClaimsWerePaid
  BY DEF IInv, ClaimInv, ClaimsWerePaid
<1> QED
  BY <1>1, EconomyInvariant, PTL

\* While calls come one by one and finish, no claim is credited twice: what has
\* been paid is claimed, but for the reward under way.
THEOREM OrderlyClaimsArePaidOnce == Spec => []PaidOnce
<1>1. IInv => PaidOnce
  BY DEF IInv, OnceInv, PaidOnce
<1> QED
  BY <1>1, EconomyInvariant, PTL

----------------------------------------------------------------------------
(* What a step keeps of a call. *)

\* k is j at another command.
Same(k, j) ==
    /\ k.kind = j.kind /\ k.node = j.node /\ k.to = j.to /\ k.amount = j.amount
    /\ k.fee = j.fee /\ k.claim = j.claim /\ k.event = j.event /\ k.level = j.level

LEMMA AtSame ==
    ASSUME NEW j \in Call, NEW stage \in Stages
    PROVE  /\ At(j, stage) \in Call /\ At(j, stage).at = stage
           /\ At(j, stage).seen = j.seen /\ At(j, stage).entries = j.entries
           /\ Same(At(j, stage), j)
BY DEF At, Same, Call

LEMMA SeesSame ==
    ASSUME NEW j \in Call, NEW stage \in Stages, NEW v \in Nat
    PROVE  /\ Sees(j, stage, v) \in Call /\ Sees(j, stage, v).at = stage
           /\ Sees(j, stage, v).seen = v /\ Same(Sees(j, stage, v), j)
BY DEF Sees, Same, Call

LEMMA SeesBalanceSame ==
    ASSUME NEW j \in Call, NEW stage \in Stages, NEW n, bal[n] \in Nat
    PROVE  LET k == SeesBalance(j, stage, n) IN
           k \in Call /\ k.at = stage /\ k.seen = bal[n] /\ Same(k, j)
<1>1. (n \in nans) \in BOOLEAN
  OBVIOUS
<1> QED
  BY <1>1 DEF SeesBalance, Same, Call

----------------------------------------------------------------------------
(* Evidence and what is paid for it. *)

SeedClaim(n, e, level) == <<"seed_hold", n, <<e, level>>>>

AtEvent(k) == k.at \in {"read_event", "write_event", "read_index", "write_index"}
BeforeCredit(k) == k.kind = "reward" /\ k.at \in {"check", "read_credit", "write_credit"}

\* The call under way fits the evidence, its owners and what was paid.
Fits(k, ev, own, pd) ==
    /\ AtEvent(k) => /\ k.kind \in {"share", "upgrade"} /\ k.node = own[k.event]
                     /\ k.kind = "share" => k.level = 1
    /\ k.at = "write_event" =>
           /\ ev[k.event] <= k.level
           /\ \A n \in Nodes, level \in Levels :
                  SeedClaim(n, k.event, level) \in pd => level <= k.level
    /\ k.at \in {"read_index", "write_index"} => ev[k.event] \in {0, k.level}
    /\ BeforeCredit(k) => \A n \in Nodes, e \in Events, level \in Levels :
           k.claim = SeedClaim(n, e, level) => n = own[e] /\ ev[e] \in {0, level}
    /\ k.at = "genesis" => k.claim = <<"seed_hold", k.claim[2], Genesis>>

\* The call is on its way to see a level paid.
Owes(k, claim) ==
    \/ /\ k.kind = "upgrade" /\ k.at \in {"read_index", "write_index"}
       /\ claim = SeedClaim(k.node, k.event, k.level)
    \/ k.kind = "reward" /\ k.at \notin {"idle", "genesis"} /\ k.claim = claim

\* While calls come one by one, an event's claims are its owner's and of no
\* level above its own, and its own level is paid or about to be.
EvidenceInv ==
    orderly =>
        /\ \A e \in Events : owner[e] = NoNode => evidence[e] = 0
        /\ \A n \in Nodes, e \in Events, level \in Levels :
               SeedClaim(n, e, level) \in paid =>
                   n = owner[e] /\ (evidence[e] > 0 => level <= evidence[e])
        /\ \A c \in Callers : Fits(calls[c], evidence, owner, paid)
        /\ \A e \in Events : evidence[e] > 0 /\ Credit[evidence[e]] > 0 =>
               LET claim == SeedClaim(owner[e], e, evidence[e]) IN
               claim \in claims \/ \E c \in Callers : Owes(calls[c], claim)

\* Seen from the only call under way.
OnlyCall(c) == \A d \in Callers \ {c} : ~Busy(d)

LEMMA IdleFits ==
    ASSUME NEW k, k.at = "idle", NEW ev, NEW own, NEW pd
    PROVE  Fits(k, ev, own, pd) /\ \A claim : ~Owes(k, claim)
BY DEF Fits, AtEvent, BeforeCredit, Owes

LEMMA EvidenceStep ==
    ASSUME NEW c \in Callers, orderly' => OnlyCall(c),
           \A d \in Callers \ {c} : calls'[d] = calls[d],
           EvidenceInv, orderly' => orderly, claims \subseteq claims',
           UNCHANGED <<evidence, owner, paid>>,
           orderly' => Fits(calls'[c], evidence, owner, paid),
           orderly' => \A claim : Owes(calls[c], claim) =>
                          claim \in claims' \/ Owes(calls'[c], claim)
    PROVE  EvidenceInv'
<1> SUFFICES ASSUME orderly', orderly
             PROVE  EvidenceInv'
  BY DEF EvidenceInv
<1>1. \A d \in Callers : Fits(calls'[d], evidence, owner, paid)
  BY IdleFits DEF OnlyCall, Busy
<1>2. ASSUME NEW e \in Events, evidence[e] > 0, Credit[evidence[e]] > 0
      PROVE  LET claim == SeedClaim(owner[e], e, evidence[e]) IN
             claim \in claims' \/ \E d \in Callers : Owes(calls'[d], claim)
  <2> DEFINE claim == SeedClaim(owner[e], e, evidence[e])
  <2>1. CASE claim \in claims
    BY <2>1
  <2>2. CASE claim \notin claims
    <3>1. PICK d \in Callers : Owes(calls[d], claim)
      BY <1>2, <2>2 DEF EvidenceInv
    <3>2. d = c
      BY <3>1, IdleFits DEF OnlyCall, Busy
    <3>3. claim \in claims' \/ Owes(calls'[c], claim)
      <4> HIDE DEF claim
      <4> QED
        BY <3>1, <3>2
    <3> QED
      BY <3>3
  <2> QED
    BY <2>1, <2>2
<1> QED
  BY <1>1, <1>2 DEF EvidenceInv

LEMMA BlankFields ==
    ASSUME NEW n \in Nodes
    PROVE  /\ Blank(n) \in Call /\ Blank(n).node = n /\ Blank(n).fee = 0
           /\ Blank(n).kind = "reward" /\ ~Blank(n).odd
<1>1. Blank(n).node = n /\ Blank(n).fee = 0 /\ Blank(n).kind = "reward" /\ ~Blank(n).odd
  BY DEF Blank
<1> QED
  BY <1>1, BlankCall

LEMMA RewardFields ==
    ASSUME NEW n \in Nodes, NEW amount \in Nat, NEW claim \in Claims
    PROVE  LET k == RewardCall(n, amount, claim) IN
           /\ k \in Call /\ k.at = "check" /\ k.kind = "reward" /\ k.node = n
           /\ k.amount = amount /\ k.fee = 0 /\ k.claim = claim /\ ~k.odd
<1>1. ASSUME NEW b \in Call
      PROVE  LET r == [b EXCEPT !.at = "check", !.amount = amount, !.claim = claim]
             IN  /\ r.at = "check" /\ r.kind = b.kind /\ r.node = b.node
                 /\ r.amount = amount /\ r.fee = b.fee /\ r.claim = claim /\ r.odd = b.odd
  BY DEF Call
<1>2. LET k == RewardCall(n, amount, claim) IN
      k.node = n /\ k.amount = amount /\ k.fee = 0 /\ ~k.odd
  BY <1>1, BlankFields DEF RewardCall
<1> QED
  BY <1>2, RewardCallType

\* What a call is when it starts.
Begun(k, fee, own) ==
    /\ ~k.odd
    /\ \/ /\ k.kind = "reward" /\ k.at = "check" /\ k.amount = Reward["uptime"] /\ k.fee = 0
          /\ \E h \in Hours : k.claim = <<"uptime", k.node, h>>
       \/ /\ k.kind = "transfer" /\ k.at = "read_debit" /\ (~k.nan => k.amount \in Amounts)
          /\ k.to # k.node /\ k.fee = fee
       \/ /\ k.kind = "settle" /\ k.at = "read_debit" /\ (~k.nan => k.amount \in Amounts)
          /\ k.fee = 0
       \/ k.kind = "tip" /\ k.at = "read_tips"
       \/ /\ k.kind = "reward" /\ k.at = "genesis" /\ k.amount = Reward["seed_hold"]
          /\ k.fee = 0 /\ k.claim = <<"seed_hold", k.node, Genesis>>
       \/ /\ k.kind = "share" /\ k.at = "write_event" /\ k.event \in Events
          /\ k.level = 1 /\ own[k.event] = NoNode
       \/ /\ k.kind = "upgrade" /\ k.at = "read_event" /\ k.event \in Events
          /\ k.level \in Levels /\ own[k.event] = k.node

LEMMA Beginnings ==
    ASSUME IInv, NEW c \in Callers, Starts(c)
    PROVE  \/ UNCHANGED <<bal, nans, supply, claims, entries, tips, paid, again,
                          calls, evidence, owner, index, orderly, numbers>>
           \/ \E k \in Call :
                  /\ Start(c, k) /\ Begun(k, Fee[c], owner)
                  /\ IF k.kind = "share" THEN owner' = [owner EXCEPT ![k.event] = k.node]
                     ELSE owner' = owner
<1> DEFINE Found(k) == /\ Start(c, k) /\ Begun(k, Fee[c], owner)
                       /\ IF k.kind = "share" THEN owner' = [owner EXCEPT ![k.event] = k.node]
                          ELSE owner' = owner
<1>h. /\ Home[c] \in Nodes /\ Fee[c] \in Nat /\ Amounts \subseteq Nat
      /\ Reward["uptime"] \in Nat /\ Reward["seed_hold"] \in Nat
      /\ owner \in [Events -> Nodes \cup {NoNode}]
  BY EconomyAssumption DEF IInv, TypeOK, Reasons
<1>0. CASE HearsEvent(c)
  BY <1>0 DEF HearsEvent
<1>1. ASSUME NEW h \in Hours, HearsTick(c, h)
      PROVE  \E k \in Call : Found(k)
  <2> DEFINE claim == <<"uptime", Home[c], h>>
             k == RewardCall(Home[c], Reward["uptime"], claim)
  <2>1. claim \in Claims
    BY <1>h DEF Claims, Matters, Reasons
  <2>2. /\ k \in Call /\ k.at = "check" /\ k.kind = "reward" /\ k.node = Home[c]
        /\ k.amount = Reward["uptime"] /\ k.fee = 0 /\ k.claim = claim /\ ~k.odd
    <3> HIDE DEF claim
    <3> QED
      BY <1>h, <2>1, RewardFields
  <2>3. Start(c, k) /\ owner' = owner
    BY <1>1 DEF HearsTick
  <2> HIDE DEF k
  <2> QED
    BY <2>2, <2>3 DEF Begun
<1>2. ASSUME NEW to \in Nodes, NEW x \in Amounts \cup {NaN}, AsksTransfer(c, to, x)
      PROVE  \E k \in Call : Found(k)
  <2> DEFINE b == [Blank(Home[c]) EXCEPT !.at = "read_debit", !.kind = "transfer",
                                         !.to = to, !.fee = Fee[c]]
             k == Asked(b, x)
  <2>1. /\ b \in Call /\ b.at = "read_debit" /\ b.kind = "transfer" /\ b.node = Home[c]
        /\ b.to = to /\ b.fee = Fee[c] /\ ~b.odd
    <3>1. "read_debit" \in Stages /\ "transfer" \in Kinds /\ Fee[c] \in Nat
      BY <1>h DEF Stages, Kinds
    <3>2. ASSUME NEW j \in Call
          PROVE  LET r == [j EXCEPT !.at = "read_debit", !.kind = "transfer",
                                    !.to = to, !.fee = Fee[c]]
                 IN  /\ r \in Call /\ r.node = j.node /\ r.fee = Fee[c] /\ r.odd = j.odd
                     /\ r.at = "read_debit" /\ r.kind = "transfer" /\ r.to = to
      <4> USE <3>1
      <4> QED
        BY DEF Call
    <3> QED
      BY <1>h, <3>2, BlankFields
  <2>2. /\ k \in Call /\ k.at = "read_debit" /\ k.kind = "transfer" /\ k.node = Home[c]
        /\ k.to = to /\ k.fee = Fee[c] /\ ~k.odd /\ (~k.nan => k.amount \in Amounts)
    <3> HIDE DEF b
    <3> QED
      BY <2>1, AskedCall
  <2>3. Start(c, k) /\ owner' = owner /\ to # Home[c]
    BY <1>2 DEF AsksTransfer
  <2> HIDE DEF k
  <2> QED
    BY <2>2, <2>3 DEF Begun
<1>3. ASSUME NEW n \in Nodes, NEW x \in Amounts \cup {NaN}, AsksSettlement(c, n, x)
      PROVE  \E k \in Call : Found(k)
  <2> DEFINE b == [Blank(n) EXCEPT !.at = "read_debit", !.kind = "settle"]
             k == Asked(b, x)
  <2>1. b \in Call /\ b.at = "read_debit" /\ b.kind = "settle" /\ b.fee = 0 /\ ~b.odd
    <3>1. "read_debit" \in Stages /\ "settle" \in Kinds
      BY DEF Stages, Kinds
    <3>2. ASSUME NEW j \in Call
          PROVE  LET r == [j EXCEPT !.at = "read_debit", !.kind = "settle"]
                 IN  /\ r \in Call /\ r.fee = j.fee /\ r.odd = j.odd
                     /\ r.at = "read_debit" /\ r.kind = "settle"
      <4> USE <3>1
      <4> QED
        BY DEF Call
    <3> QED
      BY <1>h, <3>2, BlankFields
  <2>2. /\ k \in Call /\ k.at = "read_debit" /\ k.kind = "settle"
        /\ k.fee = 0 /\ ~k.odd /\ (~k.nan => k.amount \in Amounts)
    <3> HIDE DEF b
    <3> QED
      BY <2>1, AskedCall
  <2>3. Start(c, k) /\ owner' = owner
    BY <1>3 DEF AsksSettlement
  <2> HIDE DEF k
  <2> QED
    BY <2>2, <2>3 DEF Begun
<1>4. ASSUME NEW n \in Nodes, AsksTip(c, n)
      PROVE  \E k \in Call : Found(k)
  <2> DEFINE k == [Blank(n) EXCEPT !.at = "read_tips", !.kind = "tip"]
  <2>2. k \in Call /\ k.at = "read_tips" /\ k.kind = "tip" /\ ~k.odd
    <3>1. "read_tips" \in Stages /\ "tip" \in Kinds
      BY <1>h DEF Stages, Kinds
    <3>2. ASSUME NEW b \in Call
          PROVE  LET r == [b EXCEPT !.at = "read_tips", !.kind = "tip"]
                 IN  r \in Call /\ r.node = b.node /\ r.fee = b.fee /\ r.odd = b.odd
                     /\ r.at = "read_tips" /\ r.kind = "tip"
      <4> USE <3>1
      <4> QED
        BY DEF Call
    <3> QED
      BY <1>h, <3>2, BlankFields
  <2>3. Start(c, k) /\ owner' = owner
    BY <1>4 DEF AsksTip
  <2> HIDE DEF k
  <2> QED
    BY <2>2, <2>3 DEF Begun
<1>5. ASSUME AsksGenesis(c)
      PROVE  \E k \in Call : Found(k)
  <2> DEFINE claim == <<"seed_hold", Home[c], Genesis>>
             k == [RewardCall(Home[c], Reward["seed_hold"], claim) EXCEPT !.at = "genesis"]
  <2>1. claim \in Claims
    BY <1>h DEF Claims, Matters, Reasons
  <2>2. /\ k \in Call /\ k.at = "genesis" /\ k.kind = "reward" /\ k.node = Home[c]
        /\ k.amount = Reward["seed_hold"] /\ k.fee = 0 /\ k.claim = claim /\ ~k.odd
    <3> DEFINE first == RewardCall(Home[c], Reward["seed_hold"], claim)
    <3>1. /\ first \in Call /\ Same(k, first) /\ k \in Call /\ k.at = "genesis"
          /\ k.odd = first.odd
      <4>1. first \in Call /\ k = At(first, "genesis") /\ "genesis" \in Stages
        BY <1>h, <2>1, RewardFields DEF At, Stages
      <4> HIDE DEF k, first
      <4> QED
        BY <4>1, AtSame, AtCall
    <3> HIDE DEF claim, k
    <3> QED
      BY <1>h, <2>1, <3>1, RewardFields DEF Same
  <2>3. Start(c, k) /\ owner' = owner
    BY <1>5 DEF AsksGenesis
  <2> HIDE DEF k
  <2> QED
    BY <2>2, <2>3 DEF Begun
<1>6. ASSUME NEW e \in Events, NEW n \in Nodes, ObservesShare(c, e, n)
      PROVE  \E k \in Call : Found(k)
  <2> DEFINE k == [Blank(n) EXCEPT !.at = "write_event", !.kind = "share",
                                   !.event = e, !.level = 1]
  <2>2. /\ k \in Call /\ k.at = "write_event" /\ k.kind = "share" /\ k.node = n
        /\ k.event = e /\ k.level = 1 /\ ~k.odd
    <3>1. "write_event" \in Stages /\ "share" \in Kinds /\ 1 \in 0..4 /\ e \in Events \cup {NoEvent}
      BY <1>h DEF Stages, Kinds
    <3>2. ASSUME NEW b \in Call
          PROVE  LET r == [b EXCEPT !.at = "write_event", !.kind = "share",
                                     !.event = e, !.level = 1]
                 IN  r \in Call /\ r.node = b.node /\ r.fee = b.fee /\ r.odd = b.odd
                     /\ r.at = "write_event" /\ r.kind = "share" /\ r.event = e /\ r.level = 1
      <4> USE <3>1
      <4> QED
        BY DEF Call
    <3> QED
      BY <1>h, <3>2, BlankFields
  <2>3. Start(c, k) /\ owner' = [owner EXCEPT ![e] = n] /\ owner[e] = NoNode
    BY <1>6 DEF ObservesShare
  <2> HIDE DEF k
  <2> QED
    BY <2>2, <2>3 DEF Begun
<1>7. ASSUME NEW e \in Events, NEW level \in Levels, AsksUpgrade(c, e, level)
      PROVE  \E k \in Call : Found(k)
  <2> DEFINE k == [Blank(owner[e]) EXCEPT !.at = "read_event", !.kind = "upgrade",
                                          !.event = e, !.level = level]
  <2>1. owner[e] \in Nodes
    BY <1>7, <1>h DEF AsksUpgrade
  <2>2. /\ k \in Call /\ k.at = "read_event" /\ k.kind = "upgrade" /\ k.node = owner[e]
        /\ k.event = e /\ k.level = level /\ ~k.odd
    <3>1. "read_event" \in Stages /\ "upgrade" \in Kinds /\ level \in 0..4 /\ e \in Events \cup {NoEvent}
      BY <1>h, <2>1 DEF Stages, Kinds, Levels
    <3>2. ASSUME NEW b \in Call
          PROVE  LET r == [b EXCEPT !.at = "read_event", !.kind = "upgrade",
                                     !.event = e, !.level = level]
                 IN  r \in Call /\ r.node = b.node /\ r.fee = b.fee /\ r.odd = b.odd
                     /\ r.at = "read_event" /\ r.kind = "upgrade" /\ r.event = e /\ r.level = level
      <4> USE <3>1
      <4> QED
        BY DEF Call
    <3> QED
      BY <1>h, <3>2, <2>1, BlankFields
  <2>3. Start(c, k) /\ owner' = owner
    BY <1>7 DEF AsksUpgrade
  <2> HIDE DEF k
  <2> QED
    BY <2>2, <2>3 DEF Begun
<1> HIDE DEF Found
<1>8. (\E k \in Call : Found(k)) \/ HearsEvent(c)
  BY <1>1, <1>2, <1>3, <1>4, <1>5, <1>6, <1>7 DEF Starts
<1> QED
  BY <1>0, <1>8 DEF Found

LEMMA EvidenceStarts ==
    ASSUME IInv, EvidenceInv, NEW c \in Callers, Starts(c)
    PROVE  EvidenceInv'
<1>1. CASE UNCHANGED <<bal, nans, supply, claims, entries, tips, paid, again,
                       calls, evidence, owner, index, orderly, numbers>>
  BY <1>1 DEF EvidenceInv
<1>2. ASSUME NEW k \in Call, Start(c, k), Begun(k, Fee[c], owner),
             IF k.kind = "share" THEN owner' = [owner EXCEPT ![k.event] = k.node]
             ELSE owner' = owner
      PROVE  EvidenceInv'
  <2>1. /\ calls'[c] = k /\ \A d \in Callers \ {c} : calls'[d] = calls[d]
        /\ orderly' => orderly /\ OnlyCall(c)
        /\ UNCHANGED <<evidence, paid, claims>>
        /\ \A claim : ~Owes(calls[c], claim)
    BY <1>2, BecomesCall, IdleFits DEF Start, Becomes, IInv, TypeOK, OnlyCall, Busy
  <2>2. CASE k.kind # "share"
    <3>1. Fits(k, evidence, owner, paid)
      BY <1>2, <2>2 DEF Begun, Fits, AtEvent, BeforeCredit, SeedClaim
    <3> QED
      BY <1>2, <2>1, <2>2, <3>1, EvidenceStep
  <2>3. CASE k.kind = "share"
    <3> DEFINE e == k.event
    <3>1. /\ e \in Events /\ owner[e] = NoNode /\ k.at = "write_event" /\ k.level = 1
          /\ owner \in [Events -> Nodes \cup {NoNode}] /\ owner' = [owner EXCEPT ![e] = k.node]
          /\ k.node \in Nodes /\ evidence \in [Events -> 0..4]
      BY <1>2, <2>3 DEF Begun, IInv, TypeOK, Call
    <3> SUFFICES ASSUME orderly', orderly, OnlyCall(c)
                 PROVE  EvidenceInv'
      BY <2>1 DEF EvidenceInv
    <3>2. /\ evidence[e] = 0
          /\ \A n \in Nodes, level \in Levels : SeedClaim(n, e, level) \notin paid
      BY <3>1, EconomyAssumption DEF EvidenceInv
    <3>3. owner'[e] = k.node /\ \A x \in Events \ {e} : owner'[x] = owner[x]
      BY <3>1
    <3>4. Fits(k, evidence, owner', paid)
      BY <2>3, <3>1, <3>2, <3>3 DEF Fits, AtEvent, BeforeCredit
    <3>5. \A d \in Callers : Fits(calls'[d], evidence', owner', paid')
      BY <2>1, <3>4, IdleFits DEF OnlyCall, Busy
    <3>6. \A x \in Events : owner'[x] = NoNode => evidence'[x] = 0
      BY <2>1, <3>2, <3>3 DEF EvidenceInv
    <3>7. \A n \in Nodes, x \in Events, level \in Levels :
              SeedClaim(n, x, level) \in paid' =>
                  n = owner'[x] /\ (evidence'[x] > 0 => level <= evidence'[x])
      BY <2>1, <3>2, <3>3 DEF EvidenceInv
    <3>8. ASSUME NEW x \in Events, evidence'[x] > 0, Credit[evidence'[x]] > 0
          PROVE  LET claim == SeedClaim(owner'[x], x, evidence'[x]) IN
                 claim \in claims' \/ \E d \in Callers : Owes(calls'[d], claim)
      <4>1. x # e /\ evidence[x] > 0 /\ Credit[evidence[x]] > 0 /\ owner'[x] = owner[x]
        BY <2>1, <3>2, <3>3, <3>8
      <4>2. SeedClaim(owner[x], x, evidence[x]) \in claims
        BY <2>1, <4>1, IdleFits DEF EvidenceInv, OnlyCall, Busy
      <4> QED
        BY <2>1, <4>1, <4>2
    <3> QED
      BY <3>5, <3>6, <3>7, <3>8 DEF EvidenceInv
  <2> QED
    BY <2>2, <2>3
<1> QED
  BY <1>1, <1>2, Beginnings

\* A call that goes on without touching events, evidence or what was paid.
LEMMA EvidenceGoesOn ==
    ASSUME IInv, EvidenceInv, NEW c \in Callers, Busy(c), NEW k \in Call, Becomes(c, k),
           UNCHANGED <<evidence, owner, paid, claims>>, orderly' => orderly,
           orderly' => Fits(k, evidence, owner, paid),
           orderly' => \A claim : Owes(calls[c], claim) => claim \in claims \/ Owes(k, claim)
    PROVE  EvidenceInv'
<1>1. calls'[c] = k /\ \A d \in Callers \ {c} : calls'[d] = calls[d]
  BY BecomesCall DEF IInv, TypeOK
<1>2. orderly' => OnlyCall(c)
  BY Alone DEF IInv, OnlyCall
<1> QED
  BY <1>1, <1>2, EvidenceStep

\* Same call, neither at an event's commands nor before its credit.
LEMMA EvidenceElsewhere ==
    ASSUME NEW k, ~AtEvent(k), k.at # "genesis", ~BeforeCredit(k),
           NEW ev, NEW own, NEW pd
    PROVE  Fits(k, ev, own, pd)
BY DEF Fits, AtEvent

LEMMA EvidenceReads ==
    ASSUME IInv, EvidenceInv, NEW c \in Callers,
           \/ CheckGenesis(c) \/ CheckClaim(c) \/ ReadCredit(c) \/ ReadDebit(c)
           \/ WriteDebit(c) \/ ReadSupply(c) \/ StoreSupply(c)
           \/ ReadEntries(c) \/ WriteEntries(c) \/ MarkClaim(c)
    PROVE  EvidenceInv'
<1> DEFINE j == calls[c]
<1>0. /\ j \in Call /\ Staged(j) /\ Busy(c) /\ supply \in Nat
      /\ j.node \in Nodes /\ Payee(j) \in Nodes /\ \A n \in Nodes : bal[n] \in Nat
      /\ UNCHANGED <<evidence, owner, paid, orderly>>
      /\ orderly => OnlyCall(c)
      /\ orderly => Fits(j, evidence, owner, paid)
  BY CallFacts, CallParts, Alone DEF IInv, Call, Busy, CheckGenesis, CheckClaim, ReadCredit,
     ReadDebit, WriteDebit, ReadSupply, StoreSupply, ReadEntries, WriteEntries, MarkClaim,
     BooksStay, RestStays, EvidenceInv, OnlyCall
<1> HIDE DEF j
<1>b. Blank(Home[c]) \in Call /\ Blank(Home[c]).at = "idle"
  BY BlankPasses
\* The same call at another command of its reward, transfer or settlement.
<1>1. ASSUME NEW k \in Call, Becomes(c, k), Same(k, j), claims' = claims, ~AtEvent(k),
             k.at \notin {"idle", "genesis"}, j.at \notin {"read_index", "write_index"},
             BeforeCredit(k) => j.at = "genesis" \/ BeforeCredit(j)
      PROVE  EvidenceInv'
  <2>1. orderly => Fits(k, evidence, owner, paid)
    <3>1. CASE ~BeforeCredit(k)
      BY <1>1, <3>1, EvidenceElsewhere
    <3>2. CASE BeforeCredit(j)
      BY <1>0, <1>1, <3>2 DEF Fits, AtEvent, BeforeCredit, Same
    <3>3. CASE j.at = "genesis" /\ BeforeCredit(k)
      <4> SUFFICES ASSUME orderly, NEW n \in Nodes, NEW e \in Events, NEW level \in Levels,
                          k.claim = SeedClaim(n, e, level)
                   PROVE  FALSE
        BY <1>1 DEF Fits, AtEvent
      <4>1. k.claim = <<"seed_hold", k.claim[2], Genesis>>
        BY <1>0, <1>1, <3>3 DEF Fits, Same
      <4>2. Genesis = <<e, level>> /\ <<e, level>> \in Events \X {1, 2, 3, 4}
        BY <4>1 DEF SeedClaim, Levels
      <4> QED
        BY <4>2, LedgerAssumption
    <3> QED
      BY <1>1, <3>1, <3>2, <3>3
  <2>2. \A claim : Owes(j, claim) => Owes(k, claim)
    BY <1>1 DEF Owes, Same
  <2> QED
    BY <1>0, <1>1, <2>1, <2>2, EvidenceGoesOn DEF j
\* A call that returns.
<1>2. ASSUME Returns(c), claims \subseteq claims',
             orderly => \A claim : Owes(j, claim) => claim \in claims'
      PROVE  EvidenceInv'
  <2>1. /\ calls'[c] = Blank(Home[c]) /\ \A d \in Callers \ {c} : calls'[d] = calls[d]
    BY <1>2, <1>b, BecomesCall DEF IInv, TypeOK, Returns
  <2>2. Fits(calls'[c], evidence, owner, paid)
    BY <2>1, <1>b, IdleFits
  <2> QED
    BY <1>0, <1>2, <2>1, <2>2, EvidenceStep DEF j
<1>3. CASE CheckGenesis(c)
  <2>1. j.at = "genesis" /\ claims' = claims
    BY <1>3 DEF CheckGenesis, j
  <2>2. CASE Returns(c)
    BY <1>2, <2>1, <2>2 DEF Owes
  <2>3. CASE GoesTo(c, "check")
    <3> DEFINE k == At(j, "check")
    <3>1. Becomes(c, k) /\ k \in Call /\ k.at = "check" /\ Same(k, j)
      BY <1>0, <2>3, AtSame DEF GoesTo, Stages, j
    <3> HIDE DEF k
    <3> QED
      BY <1>1, <2>1, <3>1 DEF AtEvent
  <2> QED
    BY <1>3, <2>2, <2>3 DEF CheckGenesis
<1>4. CASE CheckClaim(c)
  <2>1. j.at = "check" /\ claims' = claims /\ j.kind = "reward"
    BY <1>0, <1>4 DEF CheckClaim, j, Staged
  <2>2. CASE j.claim \in claims /\ Returns(c)
    BY <1>2, <2>1, <2>2 DEF Owes
  <2>3. CASE GoesTo(c, "read_credit")
    <3> DEFINE k == At(j, "read_credit")
    <3>1. Becomes(c, k) /\ k \in Call /\ k.at = "read_credit" /\ Same(k, j)
      BY <1>0, <2>3, AtSame DEF GoesTo, Stages, j
    <3> HIDE DEF k
    <3> QED
      BY <1>1, <2>1, <3>1 DEF AtEvent, BeforeCredit
  <2> QED
    BY <1>4, <2>2, <2>3 DEF CheckClaim, j
<1>5. CASE ReadCredit(c)
  <2> DEFINE k == SeesBalance(j, "write_credit", Payee(j))
  <2>1. /\ Becomes(c, k) /\ k \in Call /\ k.at = "write_credit" /\ Same(k, j)
        /\ j.at = "read_credit" /\ claims' = claims
    <3>1. bal[Payee(j)] \in Nat /\ "write_credit" \in Stages
      BY <1>0 DEF Stages
    <3>2. Becomes(c, k) /\ j.at = "read_credit" /\ claims' = claims
      BY <1>5 DEF ReadCredit, j
    <3> QED
      BY <1>0, <3>1, <3>2, SeesBalanceSame
  <2> HIDE DEF k
  <2> QED
    BY <1>1, <2>1 DEF AtEvent, BeforeCredit, Same
<1>6. CASE ReadDebit(c)
  <2>1. j.at = "read_debit" /\ claims' = claims /\ j.kind # "reward"
    BY <1>0, <1>6 DEF ReadDebit, j, Staged
  <2>2. CASE Returns(c)
    BY <1>2, <2>1, <2>2 DEF Owes
  <2>3. CASE Becomes(c, SeesBalance(j, "write_debit", j.node))
    <3> DEFINE k == SeesBalance(j, "write_debit", j.node)
    <3>1. bal[j.node] \in Nat /\ "write_debit" \in Stages /\ Becomes(c, k)
      BY <1>0, <2>3 DEF Stages
    <3>2. k \in Call /\ k.at = "write_debit" /\ Same(k, j)
      BY <1>0, <3>1, SeesBalanceSame
    <3> HIDE DEF k
    <3> QED
      BY <1>1, <2>1, <3>1, <3>2 DEF AtEvent, BeforeCredit
  <2> QED
    BY <1>6, <2>2, <2>3 DEF ReadDebit, j
<1>7. CASE WriteDebit(c)
  <2> DEFINE stage == IF j.kind = "transfer" THEN "read_credit" ELSE "read_supply"
             k == At(j, stage)
  <2>1. /\ Becomes(c, k) /\ k \in Call /\ k.at = stage /\ Same(k, j)
        /\ j.at = "write_debit" /\ claims' = claims
    <3>1. stage \in Stages
      BY DEF Stages
    <3>2. Becomes(c, k) /\ j.at = "write_debit" /\ claims' = claims
      BY <1>7 DEF WriteDebit, GoesTo, j
    <3> HIDE DEF stage
    <3> QED
      BY <1>0, <3>1, <3>2, AtSame
  <2>2. j.kind # "reward"
    BY <1>0, <2>1 DEF Staged
  <2> HIDE DEF k
  <2> QED
    BY <1>1, <2>1, <2>2 DEF AtEvent, BeforeCredit, Same
<1>8. CASE ReadSupply(c)
  <2> DEFINE stage == AfterSupply(j)
             k == Sees(j, stage, supply)
  <2>1. /\ Becomes(c, k) /\ k \in Call /\ k.at = stage /\ Same(k, j)
        /\ j.at = "read_supply" /\ claims' = claims
    <3>1. stage \in Stages
      BY DEF Stages, AfterSupply
    <3>2. Becomes(c, k) /\ j.at = "read_supply" /\ claims' = claims
      BY <1>8 DEF ReadSupply, j
    <3> HIDE DEF stage
    <3> QED
      BY <1>0, <3>1, <3>2, SeesSame
  <2>2. stage \in {"read_entries", "write_supply"}
    BY DEF AfterSupply
  <2> HIDE DEF k, stage
  <2> QED
    BY <1>1, <2>1, <2>2 DEF AtEvent, BeforeCredit
<1>9. CASE StoreSupply(c)
  <2> DEFINE k == At(j, "read_entries")
  <2>1. /\ Becomes(c, k) /\ k \in Call /\ k.at = "read_entries" /\ Same(k, j)
        /\ j.at = "write_supply" /\ claims' = claims
    BY <1>0, <1>9, AtSame DEF StoreSupply, GoesTo, Stages, j
  <2> HIDE DEF k
  <2> QED
    BY <1>1, <2>1 DEF AtEvent, BeforeCredit
<1>10. CASE ReadEntries(c)
  <2> DEFINE k == [j EXCEPT !.at = "write_entries", !.entries = entries]
  <2>1. /\ Becomes(c, k) /\ k \in Call /\ k.at = "write_entries" /\ Same(k, j)
        /\ j.at = "read_entries" /\ claims' = claims
    <3>1. entries \in Seq(Entry) /\ "write_entries" \in Stages
      BY DEF IInv, TypeOK, Stages
    <3>2. Becomes(c, k) /\ j.at = "read_entries" /\ claims' = claims
      BY <1>10 DEF ReadEntries, j
    <3> QED
      BY <1>0, <3>1, <3>2 DEF Call, Same
  <2> HIDE DEF k
  <2> QED
    BY <1>1, <2>1 DEF AtEvent, BeforeCredit
<1>11. CASE WriteEntries(c)
  <2>1. j.at = "write_entries" /\ claims' = claims
    BY <1>11 DEF WriteEntries, j
  <2>2. ASSUME NEW stage \in {"mark", "read_tips"}, GoesTo(c, stage)
        PROVE  EvidenceInv'
    <3> DEFINE k == At(j, stage)
    <3>1. Becomes(c, k) /\ k \in Call /\ k.at = stage /\ Same(k, j)
      BY <1>0, <2>2, AtSame DEF GoesTo, Stages, j
    <3> HIDE DEF k
    <3> QED
      BY <1>1, <2>1, <3>1 DEF AtEvent, BeforeCredit
  <2>3. CASE Returns(c) /\ j.kind # "reward"
    BY <1>2, <2>1, <2>3 DEF Owes
  <2> QED
    BY <1>11, <2>2, <2>3 DEF WriteEntries, j
<1>12. CASE MarkClaim(c)
  <2>1. /\ j.at = "mark" /\ claims' = claims \cup {j.claim} /\ Returns(c) /\ j.kind = "reward"
    BY <1>0, <1>12 DEF MarkClaim, j, Staged
  <2> QED
    BY <1>2, <2>1 DEF Owes
<1> QED
  BY <1>3, <1>4, <1>5, <1>6, <1>7, <1>8, <1>9, <1>10, <1>11, <1>12

LEMMA EvidenceCredits ==
    ASSUME IInv, EvidenceInv, NEW c \in Callers, WriteCredit(c)
    PROVE  EvidenceInv'
<1> DEFINE j == calls[c]
           k == At(j, "read_supply")
<1>0. /\ j \in Call /\ Staged(j) /\ Busy(c) /\ Becomes(c, k) /\ j.at = "write_credit"
      /\ UNCHANGED <<evidence, owner, claims, orderly>>
      /\ IF j.kind = "reward" THEN paid' = paid \cup {j.claim} ELSE paid' = paid
      /\ orderly => OnlyCall(c)
      /\ orderly => Fits(j, evidence, owner, paid)
      /\ evidence \in [Events -> 0..4]
  BY CallFacts, Alone DEF IInv, TypeOK, Busy, WriteCredit, Credited, GoesTo, RestStays,
     EvidenceInv, OnlyCall
<1>1. k \in Call /\ k.at = "read_supply" /\ Same(k, j)
  BY <1>0, AtSame DEF Stages
<1> HIDE DEF j, k
<1>2. calls'[c] = k /\ \A d \in Callers \ {c} : calls'[d] = calls[d]
  BY <1>0, <1>1, BecomesCall DEF IInv, TypeOK
<1> SUFFICES ASSUME orderly'
             PROVE  EvidenceInv'
  BY DEF EvidenceInv
<1>3. orderly /\ OnlyCall(c) /\ Fits(j, evidence, owner, paid)
  BY <1>0
<1>4. \A d \in Callers : Fits(calls'[d], evidence', owner', paid')
  <2>1. Fits(k, evidence', owner', paid')
    BY <1>1 DEF Fits, AtEvent, BeforeCredit
  <2> QED
    BY <1>2, <1>3, <2>1, IdleFits DEF OnlyCall, Busy
<1>5. ASSUME NEW n \in Nodes, NEW e \in Events, NEW level \in Levels,
             SeedClaim(n, e, level) \in paid'
      PROVE  n = owner'[e] /\ (evidence'[e] > 0 => level <= evidence'[e])
  <2>1. CASE SeedClaim(n, e, level) \in paid
    BY <1>0, <1>3, <2>1 DEF EvidenceInv
  <2>2. CASE j.kind = "reward" /\ j.claim = SeedClaim(n, e, level)
    <3>1. n = owner[e] /\ evidence[e] \in {0, level}
      BY <1>0, <1>3, <2>2 DEF Fits, BeforeCredit
    <3>2. level \in Nat /\ owner' = owner /\ evidence' = evidence
      BY <1>0 DEF Levels
    <3> QED
      BY <3>1, <3>2
  <2> QED
    BY <1>0, <1>5, <2>1, <2>2
<1>6. ASSUME NEW e \in Events, evidence'[e] > 0, Credit[evidence'[e]] > 0
      PROVE  LET claim == SeedClaim(owner'[e], e, evidence'[e]) IN
             claim \in claims' \/ \E d \in Callers : Owes(calls'[d], claim)
  <2> DEFINE claim == SeedClaim(owner[e], e, evidence[e])
  <2>1. claim \in claims \/ \E d \in Callers : Owes(calls[d], claim)
    BY <1>0, <1>3, <1>6 DEF EvidenceInv
  <2>2. ASSUME NEW d \in Callers, Owes(calls[d], claim)
        PROVE  Owes(calls'[c], claim)
    <3> HIDE DEF claim
    <3>1. d = c
      BY <1>3, <2>2, IdleFits DEF OnlyCall, Busy
    <3>2. Owes(j, claim)
      BY <2>2, <3>1 DEF j
    <3> QED
      BY <1>0, <1>1, <1>2, <3>2 DEF Owes, Same
  <2>3. claim \in claims' \/ \E d \in Callers : Owes(calls'[d], claim)
    <3> HIDE DEF claim
    <3> QED
      BY <1>0, <2>1, <2>2
  <2> QED
    BY <1>0, <2>3
<1>7. \A e \in Events : owner'[e] = NoNode => evidence'[e] = 0
  BY <1>0, <1>3 DEF EvidenceInv
<1> QED
  BY <1>4, <1>5, <1>6, <1>7 DEF EvidenceInv

LEMMA EvidenceTips ==
    ASSUME IInv, EvidenceInv, NEW c \in Callers, ReadTips(c) \/ WriteTips(c)
    PROVE  EvidenceInv'
<1> DEFINE j == calls[c]
<1>0. /\ j \in Call /\ Busy(c) /\ j.at \in {"read_tips", "write_tips"}
      /\ UNCHANGED <<evidence, owner, paid, claims, orderly>>
  BY CallFacts DEF Busy, ReadTips, WriteTips, BooksStay, RestStays
<1> HIDE DEF j
\* No call near a tip owes a claim, but for rewards, which give none.
<1>1. ASSUME NEW k \in Call, Becomes(c, k), ~AtEvent(k), k.at # "genesis", ~BeforeCredit(k),
             j.kind # "reward" \/ (k.kind = "reward" /\ k.at # "idle" /\ k.claim = j.claim)
      PROVE  EvidenceInv'
  <2>1. \A claim : Owes(j, claim) => Owes(k, claim)
    BY <1>0, <1>1 DEF Owes
  <2> QED
    BY <1>0, <1>1, <2>1, EvidenceElsewhere, EvidenceGoesOn DEF j
<1>2. CASE ReadTips(c)
  <2> DEFINE k == [j EXCEPT !.at = "write_tips", !.tips = tips]
  <2>1. Becomes(c, k) /\ k \in Call /\ k.at = "write_tips" /\ Same(k, j)
    <3>1. tips \in Seq(TipEntry) /\ "write_tips" \in Stages
      BY DEF IInv, TypeOK, Stages
    <3>2. Becomes(c, k)
      BY <1>2 DEF ReadTips, j
    <3> QED
      BY <1>0, <3>1, <3>2 DEF Call, Same
  <2> HIDE DEF k
  <2> QED
    BY <1>1, <2>1 DEF AtEvent, BeforeCredit, Same
<1>3. CASE WriteTips(c)
  <2>1. j.kind \in {"tip", "settle"}
    BY <1>0, CallFacts DEF Staged, j
  <2>2. CASE Returns(c)
    BY <1>1, <2>1, <2>2, BlankPasses DEF Returns, AtEvent, BeforeCredit
  <2>3. CASE Becomes(c, [j EXCEPT !.at = "read_entries", !.kind = "settled"])
    <3> DEFINE k == [j EXCEPT !.at = "read_entries", !.kind = "settled"]
    <3>1. k \in Call /\ k.at = "read_entries" /\ k.kind = "settled"
      <4>1. "read_entries" \in Stages /\ "settled" \in Kinds
        BY DEF Stages, Kinds
      <4> QED
        BY <1>0, <4>1 DEF Call
    <3>2. Becomes(c, k)
      BY <2>3
    <3> HIDE DEF k
    <3> QED
      BY <1>1, <2>1, <3>1, <3>2 DEF AtEvent, BeforeCredit
  <2> QED
    BY <1>3, <2>2, <2>3 DEF WriteTips, AfterTip, j
<1> QED
  BY <1>2, <1>3

LEMMA EvidenceEvents ==
    ASSUME IInv, EvidenceInv, NEW c \in Callers,
           ReadEvent(c) \/ ReadIndex(c) \/ WriteIndex(c)
    PROVE  EvidenceInv'
<1> DEFINE j == calls[c]
<1>0. /\ j \in Call /\ Busy(c) /\ Staged(j) /\ AtEvent(j)
      /\ UNCHANGED <<evidence, owner, paid, claims, orderly>>
      /\ orderly => Fits(j, evidence, owner, paid)
      /\ evidence \in [Events -> 0..4] /\ owner \in [Events -> Nodes \cup {NoNode}]
  BY CallFacts DEF Busy, ReadEvent, ReadIndex, WriteIndex, BooksStay, RestStays, AtEvent,
     IInv, TypeOK, EvidenceInv
<1>e. j.event \in Events /\ j.level \in Levels /\ j.kind \in {"share", "upgrade"}
  BY <1>0 DEF Staged, AtEvent
<1> HIDE DEF j
<1>n. j.node \in Nodes
  BY <1>0 DEF Call
<1>1. ASSUME NEW k \in Call, Becomes(c, k),
             orderly => Fits(k, evidence, owner, paid),
             orderly => \A claim : Owes(j, claim) => claim \in claims \/ Owes(k, claim)
      PROVE  EvidenceInv'
  BY <1>0, <1>1, EvidenceGoesOn DEF j
<1>b. Blank(Home[c]) \in Call /\ Blank(Home[c]).at = "idle"
  BY BlankPasses
<1>2. CASE ReadEvent(c)
  <2>1. j.at = "read_event" /\ \A claim : ~Owes(j, claim)
    BY <1>2, <1>e DEF ReadEvent, j, Owes
  <2>2. CASE Returns(c)
    BY <1>1, <1>b, <2>1, <2>2, IdleFits DEF Returns
  <2>3. CASE /\ GoesTo(c, "write_event")
             /\ evidence[j.event] > 0 /\ evidence[j.event] <= j.level
    <3> DEFINE k == At(j, "write_event")
    <3>1. Becomes(c, k) /\ k \in Call /\ k.at = "write_event" /\ Same(k, j)
      BY <1>0, <2>3, AtSame DEF GoesTo, Stages, j
    <3> HIDE DEF k
    <3>2. ASSUME orderly
          PROVE  Fits(k, evidence, owner, paid)
      <4>1. \A n \in Nodes, level \in Levels :
                SeedClaim(n, j.event, level) \in paid => level <= j.level
        <5> SUFFICES ASSUME NEW n \in Nodes, NEW level \in Levels,
                            SeedClaim(n, j.event, level) \in paid
                     PROVE  level <= j.level
          OBVIOUS
        <5>1. level <= evidence[j.event]
          BY <1>e, <2>3, <3>2 DEF EvidenceInv
        <5>2. evidence[j.event] \in 0..4 /\ level \in Nat /\ j.level \in Nat
          BY <1>0, <1>e DEF Levels
        <5> QED
          BY <2>3, <5>1, <5>2
      <4>2. j.kind \in {"share", "upgrade"} /\ j.node = owner[j.event]
            /\ (j.kind = "share" => j.level = 1)
        BY <1>0, <3>2 DEF Fits
      <4> QED
        BY <2>3, <3>1, <4>1, <4>2 DEF Fits, Same, BeforeCredit
    <3> QED
      BY <1>1, <2>1, <3>1, <3>2
  <2>4. evidence[j.event] \in 0..4 /\ j.level \in Nat
    BY <1>0, <1>e DEF Levels
  <2> QED
    BY <1>2, <2>2, <2>3, <2>4 DEF ReadEvent, j
<1>3. CASE ReadIndex(c)
  <2> DEFINE k == [j EXCEPT !.at = "write_index", !.index = index]
  <2>1. /\ Becomes(c, k) /\ k \in Call /\ k.at = "write_index" /\ Same(k, j)
        /\ j.at = "read_index"
    <3>1. index \in Seq(Events) /\ "write_index" \in Stages
      BY DEF IInv, TypeOK, Stages
    <3>2. Becomes(c, k) /\ j.at = "read_index"
      BY <1>3 DEF ReadIndex, j
    <3> QED
      BY <1>0, <3>1, <3>2 DEF Call, Same
  <2> HIDE DEF k
  <2>2. orderly => Fits(k, evidence, owner, paid)
    BY <1>0, <1>e, <2>1 DEF Fits, Same, AtEvent, BeforeCredit
  <2>3. \A claim : Owes(j, claim) => Owes(k, claim)
    BY <1>e, <2>1 DEF Owes, Same
  <2> QED
    BY <1>1, <2>1, <2>2, <2>3
<1>4. CASE WriteIndex(c)
  <2>1. j.at = "write_index" /\ AfterIndex(c)
    BY <1>4 DEF WriteIndex, j
  <2>2. CASE Returns(c) /\ ~(j.kind = "upgrade" /\ Credit[j.level] > 0)
    <3> DEFINE k == Blank(Home[c])
    <3>1. \A d \in Callers : d # c => calls'[d] = calls[d]
      BY <1>b, <2>2, BecomesCall DEF IInv, TypeOK, Returns
    <3>2. calls'[c] = k
      BY <1>b, <2>2, BecomesCall DEF IInv, TypeOK, Returns
    <3> SUFFICES ASSUME orderly', orderly
                 PROVE  EvidenceInv'
      BY <1>0 DEF EvidenceInv
    <3>3. OnlyCall(c)
      BY <1>0, Alone DEF IInv, OnlyCall
    <3>4. \A d \in Callers : Fits(calls'[d], evidence', owner', paid')
      BY <1>b, <3>1, <3>2, <3>3, IdleFits DEF OnlyCall, Busy
    <3>5. ASSUME NEW e \in Events, evidence'[e] > 0, Credit[evidence'[e]] > 0
          PROVE  SeedClaim(owner'[e], e, evidence'[e]) \in claims'
      <4> DEFINE claim == SeedClaim(owner[e], e, evidence[e])
      <4>1. evidence[e] > 0 /\ Credit[evidence[e]] > 0
        BY <1>0, <3>5
      <4>2. claim \in claims \/ \E d \in Callers : Owes(calls[d], claim)
        BY <4>1 DEF EvidenceInv
      <4>3. ASSUME NEW d \in Callers, Owes(calls[d], claim)
            PROVE  FALSE
        <5>1. d = c
          <6> HIDE DEF claim
          <6> QED
            BY <3>3, <4>3, IdleFits DEF OnlyCall, Busy
        <5>2. j.kind = "upgrade" /\ claim = SeedClaim(j.node, j.event, j.level)
          BY <1>e, <4>3, <5>1 DEF Owes, j
        <5>3. evidence[e] = j.level
          BY <5>2 DEF SeedClaim
        <5> QED
          BY <2>2, <4>1, <5>2, <5>3
      <4> QED
        BY <1>0, <4>2, <4>3
    <3> QED
      BY <1>0, <3>4, <3>5 DEF EvidenceInv
  <2>3. CASE /\ j.kind = "upgrade" /\ Credit[j.level] > 0
             /\ Becomes(c, RewardCall(j.node, Credit[j.level],
                                      SeedClaim(j.node, j.event, j.level)))
    <3> DEFINE claim == SeedClaim(j.node, j.event, j.level)
               k == RewardCall(j.node, Credit[j.level], claim)
    <3>1. claim \in Claims /\ Credit[j.level] \in Nat
      BY <1>e, <1>n, EconomyAssumption DEF Claims, Matters, Reasons, SeedClaim
    <3>2. /\ k \in Call /\ k.at = "check" /\ k.kind = "reward" /\ k.claim = claim
          /\ Becomes(c, k)
      <4>1. Becomes(c, k)
        BY <2>3
      <4> HIDE DEF claim
      <4> QED
        BY <1>n, <3>1, <4>1, RewardFields
    <3> HIDE DEF k
    <3>3. ASSUME orderly
          PROVE  Fits(k, evidence, owner, paid)
      <4>1. j.node = owner[j.event] /\ evidence[j.event] \in {0, j.level}
        BY <1>0, <2>1, <3>3 DEF Fits
      <4> QED
        BY <3>2, <4>1 DEF Fits, AtEvent, SeedClaim
    <3>4. \A x : Owes(j, x) => Owes(k, x)
      BY <1>e, <3>2 DEF Owes
    <3> QED
      BY <1>1, <3>2, <3>3, <3>4
  <2> QED
    BY <2>1, <2>2, <2>3 DEF AfterIndex, SeedClaim, j
<1> QED
  BY <1>2, <1>3, <1>4

LEMMA EvidenceWrites ==
    ASSUME IInv, EvidenceInv, NEW c \in Callers, WriteEvent(c)
    PROVE  EvidenceInv'
<1> DEFINE j == calls[c]
           k == At(j, "read_index")
           e == j.event
<1>0. /\ j \in Call /\ Busy(c) /\ Staged(j) /\ j.at = "write_event" /\ Becomes(c, k)
      /\ UNCHANGED <<owner, paid, claims, orderly>>
      /\ evidence' = [evidence EXCEPT ![e] = j.level]
      /\ orderly => Fits(j, evidence, owner, paid) /\ OnlyCall(c)
      /\ evidence \in [Events -> 0..4] /\ owner \in [Events -> Nodes \cup {NoNode}]
  BY CallFacts, Alone DEF Busy, WriteEvent, BooksStay, GoesTo, IInv, TypeOK, EvidenceInv, OnlyCall
<1>e. e \in Events /\ j.level \in Levels /\ j.kind \in {"share", "upgrade"}
  BY <1>0 DEF Staged
<1>1. k \in Call /\ k.at = "read_index" /\ Same(k, j)
  BY <1>0, AtSame DEF Stages
<1> HIDE DEF j, k
<1>n. j.node \in Nodes
  BY <1>0 DEF Call
<1>2. calls'[c] = k /\ \A d \in Callers \ {c} : calls'[d] = calls[d]
  BY <1>0, <1>1, BecomesCall DEF IInv, TypeOK
<1>3. evidence'[e] = j.level /\ \A x \in Events \ {e} : evidence'[x] = evidence[x]
  BY <1>0, <1>e
<1> SUFFICES ASSUME orderly', orderly
             PROVE  EvidenceInv'
  BY <1>0 DEF EvidenceInv
<1>4. /\ OnlyCall(c) /\ j.node = owner[e] /\ (j.kind = "share" => j.level = 1)
      /\ \A n \in Nodes, level \in Levels : SeedClaim(n, e, level) \in paid => level <= j.level
  BY <1>0 DEF Fits, AtEvent
<1> HIDE DEF e
<1>5. \A d \in Callers : Fits(calls'[d], evidence', owner', paid')
  <2>1. Fits(k, evidence', owner', paid')
    BY <1>0, <1>1, <1>3, <1>4, <1>e DEF Fits, AtEvent, BeforeCredit, Same, e
  <2> QED
    BY <1>2, <1>4, <2>1, IdleFits DEF OnlyCall, Busy
<1>6. \A x \in Events : owner'[x] = NoNode => evidence'[x] = 0
  BY <1>0, <1>3, <1>4, <1>n, EconomyAssumption DEF EvidenceInv
<1>7. \A n \in Nodes, x \in Events, level \in Levels :
          SeedClaim(n, x, level) \in paid' =>
              n = owner'[x] /\ (evidence'[x] > 0 => level <= evidence'[x])
  BY <1>0, <1>3, <1>4 DEF EvidenceInv
<1>8. ASSUME NEW x \in Events, evidence'[x] > 0, Credit[evidence'[x]] > 0
      PROVE  LET claim == SeedClaim(owner'[x], x, evidence'[x]) IN
             claim \in claims' \/ \E d \in Callers : Owes(calls'[d], claim)
  <2>1. CASE x = e
    <3>1. j.kind = "upgrade"
      BY <1>3, <1>4, <1>8, <1>e, <2>1, EconomyAssumption
    <3>2. Owes(k, SeedClaim(owner'[x], x, evidence'[x]))
      BY <1>0, <1>1, <1>3, <1>4, <2>1, <3>1 DEF Owes, Same, e
    <3> QED
      BY <1>2, <3>2
  <2>2. CASE x # e
    <3> DEFINE claim == SeedClaim(owner[x], x, evidence[x])
    <3>1. claim \in claims \/ \E d \in Callers : Owes(calls[d], claim)
      BY <1>3, <1>8, <2>2 DEF EvidenceInv
    <3>2. ASSUME NEW d \in Callers, Owes(calls[d], claim)
          PROVE  FALSE
      <4> HIDE DEF claim
      <4>1. d = c
        BY <1>4, <3>2, IdleFits DEF OnlyCall, Busy
      <4> QED
        BY <1>0, <1>e, <3>2, <4>1 DEF Owes, j
    <3> QED
      BY <1>0, <1>3, <2>2, <3>1, <3>2
  <2> QED
    BY <2>1, <2>2
<1> QED
  BY <1>5, <1>6, <1>7, <1>8 DEF EvidenceInv

LEMMA EvidenceExpires ==
    ASSUME IInv, EvidenceInv, NEW e \in Events, EventExpires(e)
    PROVE  EvidenceInv'
<1>0. /\ evidence' = [evidence EXCEPT ![e] = 0] /\ evidence \in [Events -> 0..4]
      /\ UNCHANGED <<claims, paid, calls, owner, orderly>>
      /\ calls \in [Callers -> Call]
  BY DEF EventExpires, IInv, TypeOK
<1>1. evidence'[e] = 0 /\ \A x \in Events \ {e} : evidence'[x] = evidence[x]
  BY <1>0
<1> SUFFICES ASSUME orderly', orderly
             PROVE  EvidenceInv'
  BY <1>0 DEF EvidenceInv
<1>2. ASSUME NEW c \in Callers
      PROVE  Fits(calls'[c], evidence', owner', paid')
  <2>1. Fits(calls[c], evidence, owner, paid) /\ Staged(calls[c]) /\ calls'[c] = calls[c]
    BY <1>0, CallFacts DEF EvidenceInv
  <2>2. AtEvent(calls[c]) => calls[c].event \in Events /\ calls[c].level \in Nat
    BY <2>1 DEF Staged, AtEvent, Levels
  <2>3. \A x \in Events : evidence'[x] \in {0, evidence[x]} /\ evidence[x] \in Nat
    BY <1>0, <1>1
  <2> QED
    BY <1>0, <2>1, <2>2, <2>3 DEF Fits, AtEvent
<1>3. /\ \A x \in Events : owner'[x] = NoNode => evidence'[x] = 0
      /\ \A n \in Nodes, x \in Events, level \in Levels :
             SeedClaim(n, x, level) \in paid' =>
                 n = owner'[x] /\ (evidence'[x] > 0 => level <= evidence'[x])
  BY <1>0, <1>1 DEF EvidenceInv
<1>4. \A x \in Events : evidence'[x] > 0 /\ Credit[evidence'[x]] > 0 =>
          LET claim == SeedClaim(owner'[x], x, evidence'[x]) IN
          claim \in claims' \/ \E d \in Callers : Owes(calls'[d], claim)
  BY <1>0, <1>1 DEF EvidenceInv
<1> QED
  BY <1>2, <1>3, <1>4 DEF EvidenceInv

LEMMA NextKeepsEvidenceInv ==
    ASSUME IInv, EvidenceInv, [Next]_vars
    PROVE  EvidenceInv'
<1>1. ASSUME NEW c \in Callers, Starts(c) \/ BookStep(c) \/ SideStep(c)
      PROVE  EvidenceInv'
  BY <1>1, EvidenceStarts, EvidenceReads, EvidenceCredits, EvidenceTips, EvidenceEvents,
     EvidenceWrites DEF BookStep, SideStep
<1>2. ASSUME NEW c \in Callers, Fails(c)
      PROVE  EvidenceInv'
  BY <1>2 DEF Fails, EvidenceInv
<1>3. ASSUME NEW e \in Events, EventExpires(e)
      PROVE  EvidenceInv'
  BY <1>3, EvidenceExpires
<1>4. CASE UNCHANGED vars
  BY <1>4 DEF vars, EvidenceInv
<1> QED
  BY <1>1, <1>2, <1>3, <1>4 DEF Next

LEMMA EvidenceInvariant == Spec => []EvidenceInv
<1>1. Init => EvidenceInv
  <2> SUFFICES ASSUME Init
               PROVE  EvidenceInv
    OBVIOUS
  <2>1. \A c \in Callers : calls[c].at = "idle"
    BY BlankPasses DEF Init
  <2>2. \A c \in Callers : Fits(calls[c], evidence, owner, paid)
    BY <2>1, IdleFits
  <2>3. evidence = [e \in Events |-> 0] /\ paid = {}
    BY DEF Init, LedgerInit
  <2> QED
    BY <2>2, <2>3 DEF EvidenceInv
<1>2. IInv /\ EvidenceInv /\ [Next]_vars => EvidenceInv'
  BY NextKeepsEvidenceInv
<1> QED
  BY <1>1, <1>2, EconomyInvariant, PTL DEF Spec

\* Between orderly calls a mining event has been paid for the level it stands
\* at and for none above it: its owner's claims follow its level.
THEOREM EvidenceIsPaid == Spec => []EvidencePaysItsLevel
<1>1. IInv /\ EvidenceInv => EvidencePaysItsLevel
  <2> SUFFICES ASSUME IInv, EvidenceInv, Quiet, NEW e \in Events, evidence[e] > 0,
                      NEW level \in Levels
               PROVE  LET claim == <<"seed_hold", owner[e], <<e, level>>>> IN
                      /\ claim \in paid => level <= evidence[e]
                      /\ level = evidence[e] /\ Credit[level] > 0 => claim \in claims
    BY DEF EvidencePaysItsLevel
  <2>1. orderly /\ \A c \in Callers : calls[c].at = "idle"
    BY DEF Quiet, Busy
  <2>2. owner[e] \in Nodes
    BY <2>1 DEF EvidenceInv, IInv, TypeOK
  <2>3. SeedClaim(owner[e], e, level) \in paid => level <= evidence[e]
    BY <2>1, <2>2 DEF EvidenceInv
  <2>4. level = evidence[e] /\ Credit[level] > 0 => SeedClaim(owner[e], e, level) \in claims
    BY <2>1, IdleFits DEF EvidenceInv
  <2> QED
    BY <2>3, <2>4 DEF SeedClaim
<1> QED
  BY <1>1, EconomyInvariant, EvidenceInvariant, PTL

----------------------------------------------------------------------------
(* Numbers.  Until an amount that is no number is asked for, every balance *)
(* and every call under way is one: a step makes numbers of numbers.       *)

NumbersInv ==
    /\ orderly => numbers
    /\ numbers => nans = {} /\ \A c \in Callers : Counts(calls[c])

LEMMA NumbersStep ==
    ASSUME IInv, NumbersInv, NEW c \in Callers, NEW k, Becomes(c, k),
           orderly' => numbers', numbers' => numbers,
           numbers' => nans' = {} /\ Counts(k)
    PROVE  NumbersInv'
<1>1. calls'[c] = k /\ \A d \in Callers \ {c} : calls'[d] = calls[d]
  BY DEF Becomes, IInv, TypeOK
<1> QED
  BY <1>1 DEF NumbersInv

\* What a command makes of a call.
Further(k, j, n) ==
    \/ k = Blank(n)
    \/ \E stage : k = At(j, stage)
    \/ \E stage, v : k = Sees(j, stage, v)
    \/ \E stage, m : k = SeesBalance(j, stage, m)
    \/ \E stage, x : k = [j EXCEPT !.at = stage, !.entries = x]
    \/ \E stage, x : k = [j EXCEPT !.at = stage, !.tips = x]
    \/ \E stage, x : k = [j EXCEPT !.at = stage, !.index = x]
    \/ \E stage, x : k = [j EXCEPT !.at = stage, !.kind = x]
    \/ \E amount, claim : k = RewardCall(j.node, amount, claim)

LEMMA FurtherCounts ==
    ASSUME NEW j \in Call, NEW n \in Nodes, NEW k, Further(k, j, n), nans = {}, Counts(j)
    PROVE  Counts(k)
<1>1. CASE k = Blank(n)
  BY <1>1, BlankCall
<1>2. CASE \E stage : k = At(j, stage)
  BY <1>2 DEF At, Counts, Call
<1>3. CASE \E stage, v : k = Sees(j, stage, v)
  BY <1>3 DEF Sees, Counts, Call
<1>4. CASE \E stage, m : k = SeesBalance(j, stage, m)
  BY <1>4 DEF SeesBalance, Counts, Call
<1>5. CASE \E stage, x : k = [j EXCEPT !.at = stage, !.entries = x]
  BY <1>5 DEF Counts, Call
<1>6. CASE \E stage, x : k = [j EXCEPT !.at = stage, !.tips = x]
  BY <1>6 DEF Counts, Call
<1>7. CASE \E stage, x : k = [j EXCEPT !.at = stage, !.index = x]
  BY <1>7 DEF Counts, Call
<1>8. CASE \E stage, x : k = [j EXCEPT !.at = stage, !.kind = x]
  BY <1>8 DEF Counts, Call
<1>9. CASE \E amount, claim : k = RewardCall(j.node, amount, claim)
  <2>1. Blank(j.node) \in Call /\ Counts(Blank(j.node))
    BY BlankCall DEF Call
  <2> HIDE DEF Blank
  <2> QED
    BY <1>9, <2>1 DEF RewardCall, Counts, Call
<1> QED
  BY <1>1, <1>2, <1>3, <1>4, <1>5, <1>6, <1>7, <1>8, <1>9 DEF Further

LEMMA ChangesFurther ==
    ASSUME NEW j, NEW n, NEW stage, NEW x
    PROVE  /\ Further([j EXCEPT !.at = stage, !.entries = x], j, n)
           /\ Further([j EXCEPT !.at = stage, !.tips = x], j, n)
           /\ Further([j EXCEPT !.at = stage, !.index = x], j, n)
           /\ Further([j EXCEPT !.at = stage, !.kind = x], j, n)
<1>1. ASSUME NEW k, k = [j EXCEPT !.at = stage, !.entries = x]
      PROVE  Further(k, j, n)
  BY <1>1, Zenon DEF Further
<1>2. ASSUME NEW k, k = [j EXCEPT !.at = stage, !.tips = x]
      PROVE  Further(k, j, n)
  BY <1>2, Zenon DEF Further
<1>3. ASSUME NEW k, k = [j EXCEPT !.at = stage, !.index = x]
      PROVE  Further(k, j, n)
  BY <1>3, Zenon DEF Further
<1>4. ASSUME NEW k, k = [j EXCEPT !.at = stage, !.kind = x]
      PROVE  Further(k, j, n)
  BY <1>4, Zenon DEF Further
<1> QED
  BY <1>1, <1>2, <1>3, <1>4, Zenon

LEMMA ReturnsFurther ==
    ASSUME NEW c \in Callers, Returns(c)
    PROVE  \E k : Becomes(c, k) /\ Further(k, calls[c], Home[c])
BY DEF Returns, Further

LEMMA GoesToFurther ==
    ASSUME NEW c \in Callers, NEW stage, GoesTo(c, stage)
    PROVE  \E k : Becomes(c, k) /\ Further(k, calls[c], Home[c])
BY DEF GoesTo, Further

LEMMA AftersFurther ==
    ASSUME NEW c \in Callers, AfterTip(c) \/ AfterIndex(c)
    PROVE  \E k : Becomes(c, k) /\ Further(k, calls[c], Home[c])
<1>1. CASE Returns(c)
  BY <1>1, ReturnsFurther
<1>2. CASE AfterTip(c) /\ ~Returns(c)
  <2>1. \E stage, x : Becomes(c, [calls[c] EXCEPT !.at = stage, !.kind = x])
    BY <1>2 DEF AfterTip
  <2> QED
    BY <2>1, ChangesFurther
<1>3. CASE AfterIndex(c) /\ ~Returns(c)
  <2>1. \E amount, claim : Becomes(c, RewardCall(calls[c].node, amount, claim))
    BY <1>3 DEF AfterIndex
  <2> QED
    BY <2>1 DEF Further
<1> QED
  BY <1>1, <1>2, <1>3

\* A balance is written with the sum or the difference of numbers.
LEMMA NumbersWritten ==
    ASSUME NumbersInv, NEW c \in Callers, NEW n, NEW v, WriteBalance(n, v, Counts(calls[c]))
    PROVE  numbers => nans' = {}
BY DEF NumbersInv, WriteBalance

LEMMA StepsFurther ==
    ASSUME IInv, NumbersInv, NEW c \in Callers, BookStep(c) \/ SideStep(c) \/ Fails(c)
    PROVE  /\ \E k : Becomes(c, k) /\ Further(k, calls[c], Home[c])
           /\ numbers' = numbers /\ (orderly' => orderly)
           /\ numbers => nans' = {}
<1>n. numbers => nans = {}
  BY DEF NumbersInv
<1>1. CASE CheckGenesis(c) \/ CheckClaim(c) \/ MarkClaim(c)
  BY <1>1, <1>n, ReturnsFurther, GoesToFurther
     DEF CheckGenesis, CheckClaim, MarkClaim, BooksStay, RestStays
<1>2. CASE ReadCredit(c) \/ ReadSupply(c) \/ ReadEntries(c) \/ ReadTips(c) \/ ReadIndex(c)
  <2>1. /\ nans' = nans /\ numbers' = numbers /\ orderly' = orderly
        /\ \/ \E stage, v : Becomes(c, Sees(calls[c], stage, v))
           \/ \E stage, m : Becomes(c, SeesBalance(calls[c], stage, m))
           \/ \E stage, x : Becomes(c, [calls[c] EXCEPT !.at = stage, !.entries = x])
           \/ \E stage, x : Becomes(c, [calls[c] EXCEPT !.at = stage, !.tips = x])
           \/ \E stage, x : Becomes(c, [calls[c] EXCEPT !.at = stage, !.index = x])
    <3>1. CASE ReadCredit(c) \/ ReadSupply(c)
      BY <3>1 DEF ReadCredit, ReadSupply, BooksStay, RestStays
    <3>2. CASE ReadEntries(c)
      BY <3>2 DEF ReadEntries, BooksStay, RestStays
    <3>3. CASE ReadTips(c)
      BY <3>3 DEF ReadTips, BooksStay, RestStays
    <3>4. CASE ReadIndex(c)
      BY <3>4 DEF ReadIndex, BooksStay, RestStays
    <3> QED
      BY <1>2, <3>1, <3>2, <3>3, <3>4
  <2>2. CASE \/ \E stage, v : Becomes(c, Sees(calls[c], stage, v))
             \/ \E stage, m : Becomes(c, SeesBalance(calls[c], stage, m))
    BY <1>n, <2>1, <2>2 DEF Further
  <2> QED
    BY <1>n, <2>1, <2>2, ChangesFurther
<1>3. CASE ReadDebit(c)
  BY <1>3, <1>n, ReturnsFurther DEF ReadDebit, BooksStay, RestStays, Further
<1>4. CASE WriteCredit(c)
  BY <1>4, GoesToFurther, NumbersWritten DEF WriteCredit, RestStays
<1>5. CASE WriteDebit(c)
  BY <1>5, GoesToFurther, NumbersWritten DEF WriteDebit, RestStays
<1>6. CASE StoreSupply(c)
  BY <1>6, <1>n, GoesToFurther DEF StoreSupply, BooksStay, RestStays
<1>7. CASE WriteEntries(c)
  <2>1. Returns(c) \/ \E stage : GoesTo(c, stage)
    BY <1>7 DEF WriteEntries
  <2> QED
    BY <1>7, <1>n, <2>1, ReturnsFurther, GoesToFurther DEF WriteEntries, BooksStay, RestStays
<1>8. CASE WriteTips(c) \/ WriteIndex(c)
  BY <1>8, <1>n, AftersFurther DEF WriteTips, WriteIndex, BooksStay, RestStays
<1>9. CASE ReadEvent(c) \/ WriteEvent(c)
  BY <1>9, <1>n, ReturnsFurther, GoesToFurther DEF ReadEvent, WriteEvent, BooksStay, RestStays
<1>10. CASE Fails(c)
  <2>1. numbers' = numbers /\ nans' = nans /\ ~orderly'
    BY <1>10 DEF Fails, StoreStays
  <2>2. CASE CutShort(c) \/ ClaimUnread(c) \/ TipFails(c) \/ IndexFails(c)
    BY <1>n, <2>1, <2>2, ReturnsFurther, GoesToFurther, AftersFurther
       DEF CutShort, ClaimUnread, TipFails, IndexFails
  <2>3. CASE SupplyUnread(c)
    BY <1>n, <2>1, <2>3, GoesToFurther DEF SupplyUnread, Further
  <2> QED
    BY <1>10, <2>2, <2>3 DEF Fails
<1> QED
  BY <1>1, <1>2, <1>3, <1>4, <1>5, <1>6, <1>7, <1>8, <1>9, <1>10 DEF BookStep, SideStep

LEMMA NextKeepsNumbersInv ==
    ASSUME IInv, NumbersInv, [Next]_vars
    PROVE  NumbersInv'
<1>1. ASSUME NEW c \in Callers, Starts(c)
      PROVE  NumbersInv'
  <2>1. CASE UNCHANGED <<nans, calls, orderly, numbers>>
    BY <2>1 DEF NumbersInv
  <2>2. ASSUME NEW k \in Call, Start(c, k), Begun(k, Fee[c], owner)
        PROVE  NumbersInv'
    <3>1. /\ Becomes(c, k) /\ nans' = nans
          /\ orderly' = (orderly /\ ~k.nan /\ \A d \in Callers : ~Busy(d))
          /\ numbers' = (numbers /\ ~k.nan) /\ ~k.odd
      BY <2>2 DEF Start, Becomes, Begun
    <3>2. /\ orderly' => numbers'
          /\ numbers' => numbers
          /\ numbers' => nans' = {} /\ Counts(k)
      BY <3>1 DEF NumbersInv, Counts
    <3> QED
      BY <3>1, <3>2, NumbersStep
  <2> QED
    BY <1>1, <2>1, <2>2, Beginnings
<1>2. ASSUME NEW c \in Callers, BookStep(c) \/ SideStep(c) \/ Fails(c)
      PROVE  NumbersInv'
  <2>1. PICK k : Becomes(c, k) /\ Further(k, calls[c], Home[c])
    BY <1>2, StepsFurther
  <2>2. numbers' = numbers /\ (orderly' => orderly) /\ (numbers => nans' = {})
    BY <1>2, StepsFurther
  <2>3. numbers => nans = {} /\ Counts(calls[c])
    BY DEF NumbersInv
  <2>4. numbers => Counts(k)
    BY <2>1, <2>3, CallFacts, FurtherCounts, EconomyAssumption
  <2> QED
    BY <2>1, <2>2, <2>4, NumbersStep DEF NumbersInv
<1>3. CASE UNCHANGED <<nans, calls, orderly, numbers>>
  BY <1>3 DEF NumbersInv
<1> QED
  BY <1>1, <1>2, <1>3 DEF Next, EventExpires, vars

LEMMA NumbersInvariant == Spec => []NumbersInv
<1>1. Init => NumbersInv
  <2> SUFFICES ASSUME Init
               PROVE  NumbersInv
    OBVIOUS
  <2>1. \A c \in Callers : calls[c] = Blank(Home[c]) /\ Home[c] \in Nodes
    BY EconomyAssumption DEF Init
  <2>2. \A c \in Callers : Counts(calls[c])
    BY <2>1, BlankCall
  <2> QED
    BY <2>2 DEF NumbersInv, Init, LedgerInit
<1>2. IInv /\ NumbersInv /\ [Next]_vars => NumbersInv'
  BY NextKeepsNumbersInv
<1> QED
  BY <1>1, <1>2, EconomyInvariant, PTL DEF Spec

\* No balance and no supply goes below zero, whatever overlaps or fails: a
\* debit writes what it read, less what it has checked that it covers.  And a
\* balance is a number until an amount that is none has been asked for.
THEOREM BalancesNeverOverdrawn == Spec => []NeverOverdrawn
<1>1. IInv /\ NumbersInv => NeverOverdrawn
  BY DEF IInv, DebitInv, NumbersInv, NeverOverdrawn
<1> QED
  BY <1>1, EconomyInvariant, NumbersInvariant, PTL

----------------------------------------------------------------------------
(* The books: what the call under way has written and what it still will.  *)

BookAmounts == Amounts \cup {Reward[r] : r \in Reasons} \cup {Credit[l] : l \in Levels}

\* The sums and differences a call is made of.
Shaped(k) ==
    /\ k.kind = "transfer" => k.to # k.node /\ k.fee \in {Fee[c] : c \in Callers}
    /\ k.kind \in {"reward", "settle"} => k.fee = 0
    /\ k.kind \in {"reward", "transfer", "settle"} => k.amount \in BookAmounts

\* Of the supply and of the balance of n, what is still to be written.
ToPost(k) == IF Posting(k) THEN SupplyChange(k) ELSE 0
ToPay(k, n) == IF Paying(k) /\ k.to = n THEN k.amount ELSE 0
Moved(k) == IF Paying(k) THEN k.amount ELSE 0

\* Balances have been written and the entry has not.
Unlisted(k) ==
    Paying(k) \/ k.at \in {"read_supply", "write_supply", "read_entries", "write_entries"}
ToList(k, n) == IF Unlisted(k) THEN Effect(EntryOf(k), n) ELSE 0

Listed(list, n) == Sum([i \in DOMAIN list |-> Effect(list[i], n)], DOMAIN list)

Balanced(b, s, list) ==
    /\ s = Sum(b, Nodes)
    /\ Len(list) < MaxEntries => \A n \in Nodes : b[n] = Listed(list, n)

Tallies(k, b, s, list) ==
    /\ s + ToPost(k) = Sum(b, Nodes) + Moved(k)
    /\ Len(list) < MaxEntries =>
           \A n \in Nodes : b[n] + ToPay(k, n) = Listed(list, n) + ToList(k, n)

\* What the call has read is still there.
Current(k, b, s, list) ==
    /\ k.at = "write_credit" => k.seen = b[Payee(k)]
    /\ k.at = "write_debit" => k.seen = b[k.node]
    /\ k.at = "write_supply" => k.seen = s
    /\ k.at = "write_entries" => k.entries = list

BooksInv ==
    orderly =>
        /\ (\A c \in Callers : ~Busy(c)) => Balanced(bal, supply, entries)
        /\ \A c \in Callers : Busy(c) =>
               /\ Shaped(calls[c])
               /\ Tallies(calls[c], bal, supply, entries)
               /\ Current(calls[c], bal, supply, entries)

\* A call that has nothing written yet, or has written everything.
Still(k) == ~Unlisted(k)

LEMMA StillFigures ==
    ASSUME NEW k, Still(k)
    PROVE  ToPost(k) = 0 /\ Moved(k) = 0 /\ \A n : ToPay(k, n) = 0 /\ ToList(k, n) = 0
BY DEF Still, Unlisted, Posting, ToPost, Moved, ToPay, ToList

LEMMA EffectType ==
    ASSUME NEW x \in Entry, NEW n
    PROVE  Effect(x, n) \in Int
<1>1. x.amount \in Nat /\ x.fee \in Nat
  BY DEF Entry
<1> QED
  BY <1>1 DEF Effect

LEMMA ListedType ==
    ASSUME NEW list \in Seq(Entry), NEW n
    PROVE  Listed(list, n) \in Int /\ IsFiniteSet(DOMAIN list)
<1> DEFINE f == [i \in DOMAIN list |-> Effect(list[i], n)]
<1>1. IsFiniteSet(DOMAIN list)
  BY FS_Interval
<1>2. \A i \in DOMAIN list : f[i] \in Int
  BY EffectType
<1> HIDE DEF f
<1>3. Sum(f, DOMAIN list) \in Int
  BY <1>1, <1>2, SumType
<1> QED
  BY <1>1, <1>3 DEF Listed, f

LEMMA StillTallies ==
    ASSUME NEW k, Still(k), NEW b \in [Nodes -> Int], NEW s \in Int, NEW list \in Seq(Entry)
    PROVE  Tallies(k, b, s, list) <=> Balanced(b, s, list)
<1>1. ToPost(k) = 0 /\ Moved(k) = 0 /\ \A n : ToPay(k, n) = 0 /\ ToList(k, n) = 0
  BY StillFigures
<1>3. \A n \in Nodes : b[n] \in Int
  OBVIOUS
<1>4. Sum(b, Nodes) \in Int
  BY <1>3, SumType, LedgerAssumption
<1>5. \A n \in Nodes : Listed(list, n) \in Int
  BY ListedType
<1> QED
  BY <1>1, <1>3, <1>4, <1>5 DEF Tallies, Balanced

\* The only call under way takes a step: what its new record has to fit.
LEMMA BooksStep ==
    ASSUME IInv', NEW c \in Callers, NEW k, calls'[c] = k,
           \A d \in Callers \ {c} : calls'[d] = calls[d],
           orderly' => OnlyCall(c),
           orderly' => /\ k.at # "idle" => Shaped(k)
                       /\ Tallies(k, bal', supply', entries')
                       /\ Current(k, bal', supply', entries')
    PROVE  BooksInv'
<1> SUFFICES ASSUME orderly'
             PROVE  BooksInv'
  BY DEF BooksInv
<1>1. \A d \in Callers \ {c} : calls'[d].at = "idle"
  BY DEF OnlyCall, Busy
<1>2. CASE k.at = "idle"
  <2>1. Still(k)
    BY <1>2 DEF Still, Unlisted, Paying
  <2>2. Balanced(bal', supply', entries')
    <3>1. bal' \in [Nodes -> Int] /\ supply' \in Int /\ entries' \in Seq(Entry)
      BY DEF IInv, TypeOK
    <3> QED
      BY <2>1, <3>1, StillTallies
  <2> QED
    BY <1>1, <1>2, <2>2 DEF BooksInv, Busy
<1>3. CASE k.at # "idle"
  BY <1>1, <1>3 DEF BooksInv, Busy
<1> QED
  BY <1>2, <1>3

\* What the figures of a call are while it is the only one.
LEMMA BooksOf ==
    ASSUME IInv, BooksInv, orderly, NEW c \in Callers, OnlyCall(c)
    PROVE  /\ Tallies(calls[c], bal, supply, entries)
           /\ Busy(c) => Shaped(calls[c]) /\ Current(calls[c], bal, supply, entries)
<1>1. CASE Busy(c)
  BY <1>1 DEF BooksInv
<1>2. CASE ~Busy(c)
  <2>1. Balanced(bal, supply, entries)
    BY <1>2 DEF BooksInv, OnlyCall
  <2>2. Still(calls[c])
    BY <1>2 DEF Still, Unlisted, Paying, Busy
  <2>3. bal \in [Nodes -> Int] /\ supply \in Int /\ entries \in Seq(Entry)
    BY DEF IInv, TypeOK
  <2> QED
    BY <1>2, <2>1, <2>2, <2>3, StillTallies
<1> QED
  BY <1>1, <1>2

----------------------------------------------------------------------------
(* The books as they will be, which AtomicBooks sees. *)

LEMMA ToBe ==
    ASSUME NEW c \in Callers, OnlyCall(c)
    PROVE  /\ BalanceToBe = [n \in Nodes |-> IF Paying(calls[c]) /\ calls[c].to = n
                                             THEN bal[n] + calls[c].amount ELSE bal[n]]
           /\ SupplyToBe = IF Posting(calls[c]) THEN supply + SupplyChange(calls[c]) ELSE supply
<1>1. \A d \in Callers \ {c} : ~Paying(calls[d]) /\ ~Posting(calls[d])
  BY DEF OnlyCall, Busy, Paying, Posting
<1>2. SupplyToBe = IF Posting(calls[c]) THEN supply + SupplyChange(calls[c]) ELSE supply
  <2>1. CASE Posting(calls[c])
    <3>1. (CHOOSE d \in Callers : Posting(calls[d])) = c
      BY <1>1, <2>1
    <3> QED
      BY <2>1, <3>1 DEF SupplyToBe
  <2>2. CASE ~Posting(calls[c])
    BY <1>1, <2>2 DEF SupplyToBe
  <2> QED
    BY <2>1, <2>2
<1>3. ASSUME NEW n \in Nodes
      PROVE  (IF \E d \in Callers : Paying(calls[d]) /\ calls[d].to = n
              THEN bal[n] + calls[CHOOSE d \in Callers :
                                      Paying(calls[d]) /\ calls[d].to = n].amount
              ELSE bal[n])
             = IF Paying(calls[c]) /\ calls[c].to = n THEN bal[n] + calls[c].amount ELSE bal[n]
  <2>1. CASE Paying(calls[c]) /\ calls[c].to = n
    <3>1. (CHOOSE d \in Callers : Paying(calls[d]) /\ calls[d].to = n) = c
      BY <1>1, <2>1
    <3> QED
      BY <2>1, <3>1
  <2>2. CASE ~(Paying(calls[c]) /\ calls[c].to = n)
    BY <1>1, <2>2
  <2> QED
    BY <2>1, <2>2
<1> QED
  BY <1>2, <1>3 DEF BalanceToBe

LEMMA ToBeNext ==
    ASSUME NEW c \in Callers, \A d \in Callers \ {c} : calls'[d].at = "idle"
    PROVE  /\ BalanceToBe' = [n \in Nodes |-> IF Paying(calls'[c]) /\ calls'[c].to = n
                                              THEN bal'[n] + calls'[c].amount ELSE bal'[n]]
           /\ SupplyToBe' = IF Posting(calls'[c]) THEN supply' + SupplyChange(calls'[c])
                            ELSE supply'
<1>1. \A d \in Callers \ {c} : ~Paying(calls'[d]) /\ ~Posting(calls'[d])
  BY DEF Paying, Posting
<1>2. SupplyToBe' = IF Posting(calls'[c]) THEN supply' + SupplyChange(calls'[c]) ELSE supply'
  <2>1. CASE Posting(calls'[c])
    <3>1. (CHOOSE d \in Callers : Posting(calls'[d])) = c
      BY <1>1, <2>1
    <3> QED
      BY <2>1, <3>1 DEF SupplyToBe
  <2>2. CASE ~Posting(calls'[c])
    BY <1>1, <2>2 DEF SupplyToBe
  <2> QED
    BY <2>1, <2>2
<1>3. ASSUME NEW n \in Nodes
      PROVE  (IF \E d \in Callers : Paying(calls'[d]) /\ calls'[d].to = n
              THEN bal'[n] + calls'[CHOOSE d \in Callers :
                                      Paying(calls'[d]) /\ calls'[d].to = n].amount
              ELSE bal'[n])
             = IF Paying(calls'[c]) /\ calls'[c].to = n THEN bal'[n] + calls'[c].amount
               ELSE bal'[n]
  <2>1. CASE Paying(calls'[c]) /\ calls'[c].to = n
    <3>1. (CHOOSE d \in Callers : Paying(calls'[d]) /\ calls'[d].to = n) = c
      BY <1>1, <2>1
    <3> QED
      BY <2>1, <3>1
  <2>2. CASE ~(Paying(calls'[c]) /\ calls'[c].to = n)
    BY <1>1, <2>2
  <2> QED
    BY <2>1, <2>2
<1> QED
  BY <1>2, <1>3 DEF BalanceToBe

Atomic == [Books!Next]_(Books!vars)

LEMMA BrokenIsAtomic ==
    ASSUME ~orderly', orderly' \in BOOLEAN
    PROVE  Atomic
BY DEF Atomic, Books!Next, Books!Break

\* What a step has to show: the books fit again, and change as one step may.
LEMMA SilentStep ==
    ASSUME IInv, IInv', BooksInv, NEW c \in Callers, NEW k \in Call, Becomes(c, k),
           UNCHANGED <<bal, nans, supply, entries, paid>>,
           orderly' => orderly /\ OnlyCall(c),
           orderly' => /\ k.at # "idle" => Shaped(k)
                       /\ Current(k, bal, supply, entries)
                       /\ Paying(k) <=> Paying(calls[c])
                       /\ Paying(k) => k.to = calls[c].to /\ k.amount = calls[c].amount
                       /\ ToPost(k) = ToPost(calls[c])
                       /\ \A n \in Nodes : ToList(k, n) = ToList(calls[c], n)
    PROVE  BooksInv' /\ Atomic
<1>0. orderly \in BOOLEAN /\ orderly' \in BOOLEAN
  BY DEF IInv, TypeOK
<1>1. CASE ~orderly'
  BY <1>0, <1>1, BrokenIsAtomic DEF BooksInv
<1>2. CASE orderly'
  <2>1. orderly /\ OnlyCall(c)
    BY <1>2
  <2>2. Tallies(calls[c], bal, supply, entries)
    BY <2>1, BooksOf
  <2>3. /\ Moved(k) = Moved(calls[c]) /\ \A n \in Nodes : ToPay(k, n) = ToPay(calls[c], n)
    BY <1>2 DEF Moved, ToPay
  <2>4. Tallies(k, bal', supply', entries')
    BY <1>2, <2>2, <2>3 DEF Tallies
  <2>5. calls'[c] = k /\ \A d \in Callers \ {c} : calls'[d] = calls[d]
    BY BecomesCall DEF IInv, TypeOK
  <2>6. BooksInv'
    BY <1>2, <2>4, <2>5, BooksStep
  <2>7. \A d \in Callers \ {c} : calls'[d].at = "idle"
    BY <2>1, <2>5 DEF OnlyCall, Busy
  <2>8. BalanceToBe' = BalanceToBe
    BY <1>2, <2>1, <2>5, <2>7, ToBe, ToBeNext
  <2>9. SupplyToBe' = SupplyToBe
    <3>1. /\ SupplyToBe = IF Posting(calls[c]) THEN supply + SupplyChange(calls[c]) ELSE supply
          /\ SupplyToBe' = IF Posting(k) THEN supply + SupplyChange(k) ELSE supply
      BY <2>1, <2>5, <2>7, ToBe, ToBeNext
    <3>2. supply \in Int
      BY DEF IInv, TypeOK
    <3> QED
      BY <1>2, <3>1, <3>2 DEF ToPost
  <2> QED
    BY <1>0, <1>2, <2>1, <2>6, <2>8, <2>9 DEF Atomic, Books!vars
<1> QED
  BY <1>1, <1>2

LEMMA StillStep ==
    ASSUME IInv, IInv', BooksInv, NEW c \in Callers, NEW k \in Call, Becomes(c, k),
           UNCHANGED <<bal, nans, supply, entries, paid>>,
           orderly' => orderly /\ OnlyCall(c),
           orderly' => /\ Still(k) /\ Still(calls[c])
                       /\ k.at # "idle" => Shaped(k)
                       /\ k.at = "write_debit" => k.seen = bal[k.node]
                       /\ k.at = "write_credit" => k.seen = bal[Payee(k)]
    PROVE  BooksInv' /\ Atomic
<1>1. ASSUME orderly'
      PROVE  /\ Paying(k) <=> Paying(calls[c])
             /\ Paying(k) => k.to = calls[c].to /\ k.amount = calls[c].amount
             /\ ToPost(k) = ToPost(calls[c])
             /\ \A n \in Nodes : ToList(k, n) = ToList(calls[c], n)
             /\ Current(k, bal, supply, entries)
  BY <1>1, StillFigures DEF Still, Unlisted, Current
<1> QED
  BY <1>1, SilentStep

LEMMA SameParts ==
    ASSUME NEW k, NEW j, Same(k, j)
    PROVE  /\ SupplyChange(k) = SupplyChange(j) /\ EntryOf(k) = EntryOf(j)
           /\ Payee(k) = Payee(j) /\ Owed(k) = Owed(j) /\ AfterSupply(k) = AfterSupply(j)
           /\ Shaped(j) => Shaped(k)
BY DEF Same, SupplyChange, EntryOf, Payee, Owed, AfterSupply, Shaped

LEMMA EffectOfEntry ==
    ASSUME NEW k \in Call, NEW n
    PROVE  /\ k.kind = "reward" =>
                  Effect(EntryOf(k), n) = IF k.node = n THEN k.amount ELSE 0
           /\ k.kind = "transfer" =>
                  Effect(EntryOf(k), n) = (IF k.to = n THEN k.amount ELSE 0)
                                          - (IF k.node = n THEN k.amount + k.fee ELSE 0)
           /\ k.kind = "settle" =>
                  Effect(EntryOf(k), n) = - (IF k.node = n THEN k.amount + k.fee ELSE 0)
           /\ k.kind = "settled" => Effect(EntryOf(k), n) = 0
<1>1. k.amount \in Nat /\ k.fee \in Nat
  BY DEF Call
<1> QED
  BY <1>1 DEF Effect, EntryOf

----------------------------------------------------------------------------
(* The calls start, check and read: nothing of the books changes. *)

LEMMA BooksStarts ==
    ASSUME IInv, IInv', BooksInv, NEW c \in Callers, Starts(c)
    PROVE  BooksInv' /\ Atomic
<1>1. CASE UNCHANGED <<bal, nans, supply, claims, entries, tips, paid, again,
                       calls, evidence, owner, index, orderly, numbers>>
  <2>1. BooksInv'
    BY <1>1 DEF BooksInv, Busy
  <2>2. BalanceToBe' = BalanceToBe /\ SupplyToBe' = SupplyToBe
    BY <1>1 DEF BalanceToBe, SupplyToBe
  <2> QED
    BY <1>1, <2>1, <2>2 DEF Atomic, Books!vars
<1>2. ASSUME NEW k \in Call, Start(c, k), Begun(k, Fee[c], owner)
      PROVE  BooksInv' /\ Atomic
  <2>1. /\ Becomes(c, k) /\ UNCHANGED <<bal, nans, supply, entries, paid>>
        /\ orderly' => orderly /\ OnlyCall(c) /\ ~k.nan
        /\ Still(calls[c])
    BY <1>2 DEF Start, Becomes, OnlyCall, Still, Unlisted, Paying, Busy
  <2>2. /\ Still(k) /\ k.at \notin {"write_debit", "write_credit"}
        /\ ~k.nan => Shaped(k)
    <3>1. {Reward["uptime"], Reward["seed_hold"]} \subseteq BookAmounts
          /\ Amounts \subseteq BookAmounts
      BY DEF BookAmounts, Reasons
    <3> QED
      BY <1>2, <3>1 DEF Begun, Still, Unlisted, Paying, Shaped
  <2> QED
    BY <2>1, <2>2, StillStep
<1> QED
  BY <1>1, <1>2, Beginnings

LEMMA BooksFacts ==
    ASSUME IInv, BooksInv, NEW c \in Callers, Busy(c), orderly' => orderly
    PROVE  /\ calls[c] \in Call /\ Staged(calls[c])
           /\ orderly' => /\ orderly /\ OnlyCall(c) /\ Shaped(calls[c])
                          /\ Tallies(calls[c], bal, supply, entries)
                          /\ Current(calls[c], bal, supply, entries)
BY CallFacts, Alone, BooksOf DEF IInv, OnlyCall

LEMMA BooksChecks ==
    ASSUME IInv, IInv', BooksInv, NEW c \in Callers,
           CheckGenesis(c) \/ CheckClaim(c) \/ ReadDebit(c) \/ MarkClaim(c)
    PROVE  BooksInv' /\ Atomic
<1> DEFINE j == calls[c]
<1>0. /\ Busy(c) /\ UNCHANGED <<bal, nans, supply, entries, paid, orderly>>
      /\ j.at \in {"genesis", "check", "read_debit", "mark"}
  BY DEF CheckGenesis, CheckClaim, ReadDebit, MarkClaim, BooksStay, RestStays, Busy
<1>1. /\ j \in Call /\ Staged(j)
      /\ orderly' => orderly /\ OnlyCall(c) /\ Shaped(j)
  BY <1>0, BooksFacts
<1>2. \A n \in Nodes : bal[n] \in Nat
  BY CallFacts
<1> HIDE DEF j
<1>3. Still(j)
  BY <1>0 DEF Still, Unlisted, Paying
<1>4. CASE Returns(c)
  <2>1. Blank(Home[c]) \in Call /\ Blank(Home[c]).at = "idle"
    BY BlankPasses
  <2> QED
    BY <1>0, <1>1, <1>3, <1>4, <2>1, StillStep DEF Returns, Still, Unlisted, Paying, j
<1>5. CASE GoesTo(c, "check")
  <2> DEFINE k == At(j, "check")
  <2>1. Becomes(c, k) /\ k \in Call /\ k.at = "check" /\ Same(k, j)
    BY <1>1, <1>5, AtSame DEF GoesTo, Stages, j
  <2> HIDE DEF k
  <2>2. Still(k)
    BY <2>1 DEF Still, Unlisted, Paying
  <2>3. orderly' => Shaped(k)
    BY <1>1, <2>1, SameParts
  <2> QED
    BY <1>0, <1>1, <1>3, <2>1, <2>2, <2>3, StillStep DEF j
<1>6. CASE CheckClaim(c) /\ GoesTo(c, "read_credit")
  <2> DEFINE k == At(j, "read_credit")
  <2>1. Becomes(c, k) /\ k \in Call /\ k.at = "read_credit" /\ Same(k, j)
    BY <1>1, <1>6, AtSame DEF GoesTo, Stages, j
  <2> HIDE DEF k
  <2>2. Still(k)
    <3>1. j.kind = "reward"
      BY <1>1, <1>6 DEF Staged, CheckClaim, j
    <3> QED
      BY <2>1, <3>1 DEF Still, Unlisted, Paying, Same
  <2>3. orderly' => Shaped(k)
    BY <1>1, <2>1, SameParts
  <2> QED
    BY <1>0, <1>1, <1>3, <2>1, <2>2, <2>3, StillStep DEF j
<1>7. CASE Becomes(c, SeesBalance(j, "write_debit", j.node))
  <2> DEFINE k == SeesBalance(j, "write_debit", j.node)
  <2>1. bal[j.node] \in Nat /\ "write_debit" \in Stages /\ Becomes(c, k)
    BY <1>1, <1>2, <1>7 DEF Stages, Call
  <2>2. k \in Call /\ k.at = "write_debit" /\ k.seen = bal[j.node] /\ Same(k, j)
    BY <1>1, <2>1, SeesBalanceSame
  <2> HIDE DEF k
  <2>3. Still(k)
    BY <2>2 DEF Still, Unlisted, Paying
  <2>4. orderly' => Shaped(k)
    BY <1>1, <2>2, SameParts
  <2>5. k.seen = bal[k.node]
    BY <2>2 DEF Same
  <2> QED
    BY <1>0, <1>1, <1>3, <2>1, <2>2, <2>3, <2>4, <2>5, StillStep DEF j
<1> QED
  BY <1>4, <1>5, <1>6, <1>7 DEF CheckGenesis, CheckClaim, ReadDebit, MarkClaim, j

LEMMA BooksReadCredit ==
    ASSUME IInv, IInv', BooksInv, NEW c \in Callers, ReadCredit(c)
    PROVE  BooksInv' /\ Atomic
<1> DEFINE j == calls[c]
           v == bal[Payee(j)]
           k == SeesBalance(j, "write_credit", Payee(j))
<1>0. /\ Busy(c) /\ UNCHANGED <<bal, nans, supply, entries, paid, orderly>>
      /\ j.at = "read_credit" /\ Becomes(c, k)
  BY DEF ReadCredit, BooksStay, RestStays, Busy
<1>1. /\ j \in Call /\ Staged(j)
      /\ orderly' => orderly /\ OnlyCall(c) /\ Shaped(j)
  BY <1>0, BooksFacts
<1>2. v \in Nat /\ "write_credit" \in Stages
  BY <1>1, CallFacts, CallParts DEF Stages
<1> HIDE DEF j
<1>3. k \in Call /\ k.at = "write_credit" /\ k.seen = v /\ Same(k, j)
  BY <1>1, <1>2, SeesBalanceSame
<1> HIDE DEF k, v
<1>4. orderly' => Shaped(k)
  BY <1>1, <1>3, SameParts
<1>5. Current(k, bal, supply, entries)
  BY <1>3, SameParts DEF Current, v
<1>6. /\ Paying(k) <=> Paying(j)
      /\ Paying(k) => k.to = j.to /\ k.amount = j.amount
      /\ ToPost(k) = ToPost(j)
      /\ \A n \in Nodes : ToList(k, n) = ToList(j, n)
  BY <1>0, <1>3, SameParts DEF Paying, Posting, ToPost, ToList, Unlisted, Same
<1> QED
  BY <1>0, <1>1, <1>3, <1>4, <1>5, <1>6, SilentStep DEF j

LEMMA BooksReadSupply ==
    ASSUME IInv, IInv', BooksInv, NEW c \in Callers, ReadSupply(c)
    PROVE  BooksInv' /\ Atomic
<1> DEFINE j == calls[c]
           stage == AfterSupply(j)
           k == Sees(j, stage, supply)
<1>0. /\ Busy(c) /\ UNCHANGED <<bal, nans, supply, entries, paid, orderly>>
      /\ j.at = "read_supply" /\ Becomes(c, k) /\ supply \in Nat
  BY CallFacts DEF ReadSupply, BooksStay, RestStays, Busy
<1>1. /\ j \in Call /\ Staged(j)
      /\ orderly' => orderly /\ OnlyCall(c) /\ Shaped(j)
  BY <1>0, BooksFacts
<1>2. stage \in Stages
  BY <1>1, CallParts
<1> HIDE DEF j, stage
<1>3. k \in Call /\ k.at = stage /\ k.seen = supply /\ Same(k, j)
  BY <1>0, <1>1, <1>2, SeesSame
<1> HIDE DEF k
<1>s. \/ stage = "read_entries" /\ j.kind = "transfer" /\ j.fee = 0
      \/ stage = "write_supply" /\ (j.kind # "transfer" \/ j.fee # 0)
  BY DEF stage, AfterSupply
<1>4. orderly' => Shaped(k)
  BY <1>1, <1>3, SameParts
<1>5. Current(k, bal, supply, entries)
  BY <1>3, <1>s DEF Current
<1>f. j.fee \in Nat
  BY <1>1 DEF Call
<1>6. ~Paying(k) /\ ~Paying(j) /\ Unlisted(k) /\ Unlisted(j)
  BY <1>0, <1>3, <1>s DEF Paying, Unlisted
<1>7. ToPost(k) = ToPost(j)
  <2>1. SupplyChange(k) = SupplyChange(j) /\ k.kind = j.kind /\ k.fee = j.fee
    BY <1>3, SameParts DEF Same
  <2>2. Posting(k) <=> Posting(j)
    BY <1>0, <1>3, <1>6, <1>s, <1>f, <2>1 DEF Posting
  <2> QED
    BY <2>1, <2>2 DEF ToPost
<1>8. \A n \in Nodes : ToList(k, n) = ToList(j, n)
  BY <1>3, <1>6, SameParts DEF ToList
<1> QED
  BY <1>0, <1>1, <1>3, <1>4, <1>5, <1>6, <1>7, <1>8, SilentStep DEF j

LEMMA BooksReadEntries ==
    ASSUME IInv, IInv', BooksInv, NEW c \in Callers, ReadEntries(c)
    PROVE  BooksInv' /\ Atomic
<1> DEFINE j == calls[c]
           k == [j EXCEPT !.at = "write_entries", !.entries = entries]
<1>0. /\ Busy(c) /\ UNCHANGED <<bal, nans, supply, entries, paid, orderly>>
      /\ j.at = "read_entries" /\ Becomes(c, k)
  BY DEF ReadEntries, BooksStay, RestStays, Busy
<1>1. /\ j \in Call /\ Staged(j)
      /\ orderly' => orderly /\ OnlyCall(c) /\ Shaped(j)
  BY <1>0, BooksFacts
<1>2. entries \in Seq(Entry) /\ "write_entries" \in Stages
  BY DEF IInv, TypeOK, Stages
<1> HIDE DEF j
<1>3. k \in Call /\ k.at = "write_entries" /\ k.entries = entries /\ Same(k, j)
  BY <1>1, <1>2 DEF Call, Same
<1> HIDE DEF k
<1>4. orderly' => Shaped(k)
  BY <1>1, <1>3, SameParts
<1>5. Current(k, bal, supply, entries)
  BY <1>3 DEF Current
<1>6. ~Paying(k) /\ ~Paying(j) /\ Unlisted(k) /\ Unlisted(j) /\ ~Posting(k) /\ ~Posting(j)
  BY <1>0, <1>3 DEF Paying, Unlisted, Posting
<1>7. ToPost(k) = ToPost(j) /\ \A n \in Nodes : ToList(k, n) = ToList(j, n)
  BY <1>3, <1>6, SameParts DEF ToList, ToPost
<1> QED
  BY <1>0, <1>1, <1>3, <1>4, <1>5, <1>6, <1>7, SilentStep DEF j

\* The tips, the events and their index: the books are not touched.
LEMMA BooksSides ==
    ASSUME IInv, IInv', BooksInv, NEW c \in Callers, SideStep(c)
    PROVE  BooksInv' /\ Atomic
<1> DEFINE j == calls[c]
<1>0. /\ Busy(c) /\ UNCHANGED <<bal, nans, supply, entries, paid, orderly>>
      /\ j.at \in {"read_tips", "write_tips"} \/ AtEvent(j)
  BY DEF SideStep, ReadTips, WriteTips, ReadEvent, WriteEvent, ReadIndex, WriteIndex,
         BooksStay, RestStays, Busy, AtEvent
<1>1. /\ j \in Call /\ Staged(j)
      /\ orderly' => orderly /\ OnlyCall(c) /\ Shaped(j)
  BY <1>0, BooksFacts
<1> HIDE DEF j
<1>3. Still(j)
  BY <1>0 DEF Still, Unlisted, Paying, AtEvent
<1>4. ASSUME NEW k \in Call, Becomes(c, k), Same(k, j),
             k.at \in {"write_tips", "write_event", "read_index", "write_index"}
      PROVE  BooksInv' /\ Atomic
  <2>1. Still(k)
    BY <1>4 DEF Still, Unlisted, Paying
  <2>2. orderly' => Shaped(k)
    BY <1>1, <1>4, SameParts
  <2> QED
    BY <1>0, <1>1, <1>3, <1>4, <2>1, <2>2, StillStep DEF j
<1>5. CASE Returns(c)
  <2>1. Blank(Home[c]) \in Call /\ Blank(Home[c]).at = "idle"
    BY BlankPasses
  <2> QED
    BY <1>0, <1>1, <1>3, <1>5, <2>1, StillStep DEF Returns, Still, Unlisted, Paying, j
<1>6. CASE ReadTips(c)
  <2> DEFINE k == [j EXCEPT !.at = "write_tips", !.tips = tips]
  <2>1. tips \in Seq(TipEntry) /\ "write_tips" \in Stages /\ Becomes(c, k)
    BY <1>6 DEF IInv, TypeOK, Stages, ReadTips, j
  <2>2. k \in Call /\ k.at = "write_tips" /\ Same(k, j)
    BY <1>1, <2>1 DEF Call, Same
  <2> HIDE DEF k
  <2> QED
    BY <1>4, <2>1, <2>2
<1>7. CASE ReadIndex(c)
  <2> DEFINE k == [j EXCEPT !.at = "write_index", !.index = index]
  <2>1. index \in Seq(Events) /\ "write_index" \in Stages /\ Becomes(c, k)
    BY <1>7 DEF IInv, TypeOK, Stages, ReadIndex, j
  <2>2. k \in Call /\ k.at = "write_index" /\ Same(k, j)
    BY <1>1, <2>1 DEF Call, Same
  <2> HIDE DEF k
  <2> QED
    BY <1>4, <2>1, <2>2
<1>8. ASSUME NEW stage \in {"write_event", "read_index"}, GoesTo(c, stage)
      PROVE  BooksInv' /\ Atomic
  <2> DEFINE k == At(j, stage)
  <2>1. Becomes(c, k) /\ k \in Call /\ k.at = stage /\ Same(k, j)
    BY <1>1, <1>8, AtSame DEF GoesTo, Stages, j
  <2> HIDE DEF k
  <2> QED
    BY <1>4, <1>8, <2>1
<1>9. CASE WriteTips(c) /\ ~Returns(c)
  <2> DEFINE k == [j EXCEPT !.at = "read_entries", !.kind = "settled"]
  <2>1. Becomes(c, k) /\ j.at = "write_tips"
    BY <1>9 DEF WriteTips, AfterTip, j
  <2>2. k \in Call /\ k.at = "read_entries" /\ k.kind = "settled"
    <3>1. "read_entries" \in Stages /\ "settled" \in Kinds
      BY DEF Stages, Kinds
    <3> QED
      BY <1>1, <3>1 DEF Call
  <2> HIDE DEF k
  <2>3. ~Paying(k) /\ ~Paying(j) /\ ~Posting(k) /\ ~Posting(j) /\ ~Unlisted(j)
        /\ Unlisted(k) /\ Shaped(k)
    BY <2>1, <2>2 DEF Paying, Posting, Unlisted, Shaped
  <2>4. ToPost(k) = ToPost(j) /\ \A n \in Nodes : ToList(k, n) = ToList(j, n)
    BY <2>2, <2>3, EffectOfEntry DEF ToPost, ToList
  <2>5. Current(k, bal, supply, entries)
    BY <2>2 DEF Current
  <2> QED
    BY <1>0, <1>1, <2>1, <2>2, <2>3, <2>4, <2>5, SilentStep DEF j
<1>10. CASE WriteIndex(c) /\ ~Returns(c)
  <2> DEFINE claim == <<"seed_hold", j.node, <<j.event, j.level>>>>
             k == RewardCall(j.node, Credit[j.level], claim)
  <2>1. Becomes(c, k) /\ j.event \in Events /\ j.level \in Levels /\ j.node \in Nodes
    BY <1>1, <1>10 DEF WriteIndex, AfterIndex, Staged, Call, j
  <2>2. claim \in Claims /\ Credit[j.level] \in Nat
    BY <2>1, EconomyAssumption DEF Claims, Matters, Reasons
  <2>3. /\ k \in Call /\ k.at = "check" /\ k.kind = "reward"
        /\ k.amount = Credit[j.level] /\ k.fee = 0
    <3> HIDE DEF claim
    <3> QED
      BY <2>1, <2>2, RewardFields
  <2> HIDE DEF k, claim
  <2>4. Still(k) /\ Shaped(k)
    BY <2>1, <2>3 DEF Still, Unlisted, Paying, Shaped, BookAmounts
  <2> QED
    BY <1>0, <1>1, <1>3, <2>1, <2>3, <2>4, StillStep DEF j
<1> QED
  BY <1>5, <1>6, <1>7, <1>8, <1>9, <1>10 DEF SideStep, ReadEvent, WriteEvent

----------------------------------------------------------------------------
(* The writes of the books. *)

LEMMA ListedAppend ==
    ASSUME NEW list \in Seq(Entry), NEW x \in Entry, NEW n
    PROVE  Listed(Append(list, x), n) = Listed(list, n) + Effect(x, n)
<1> DEFINE m == Len(list)
           more == Append(list, x)
           f == [i \in DOMAIN list |-> Effect(list[i], n)]
           g == [i \in DOMAIN more |-> Effect(more[i], n)]
<1>1. /\ DOMAIN list = 1..m /\ DOMAIN more = 1..(m + 1) /\ m \in Nat
      /\ more \in Seq(Entry) /\ more[m + 1] = x
      /\ \A i \in 1..m : more[i] = list[i]
  OBVIOUS
<1>2. g[m + 1] = Effect(x, n) /\ \A i \in 1..m : g[i] = f[i]
  BY <1>1
<1>3. \A i \in 1..(m + 1) : g[i] \in Int
  <2>1. \A i \in 1..(m + 1) : more[i] \in Entry
    BY <1>1
  <2> HIDE DEF more
  <2> QED
    BY <1>1, <2>1, EffectType
<1> HIDE DEF f, g, more, m
<1>4. m + 1 \in 1..(m + 1) /\ 1..(m + 1) \ {m + 1} = 1..m
  BY <1>1
<1>5. IsFiniteSet(1..(m + 1)) /\ IsFiniteSet(1..m)
  <2>1. 1 \in Int /\ m \in Int /\ m + 1 \in Int
    BY <1>1
  <2>2. IsFiniteSet(1..m)
    BY <2>1, FS_Interval
  <2>3. IsFiniteSet(1..(m + 1))
    <3> DEFINE p == m + 1
    <3>1. p \in Int
      BY <2>1
    <3> HIDE DEF p
    <3>2. IsFiniteSet(1..p)
      BY <2>1, <3>1, FS_Interval
    <3> QED
      BY <3>2 DEF p
  <2> QED
    BY <2>2, <2>3
<1>6. Sum(g, 1..(m + 1)) = g[m + 1] + Sum(g, 1..m)
  <2> DEFINE S == 1..(m + 1)
             a == m + 1
  <2>1. IsFiniteSet(S) /\ a \in S /\ (\A i \in S : g[i] \in Int) /\ S \ {a} = 1..m
    BY <1>3, <1>4, <1>5
  <2> HIDE DEF S, a
  <2>2. Sum(g, S) = g[a] + Sum(g, S \ {a})
    BY <2>1, SumRemove
  <2> QED
    BY <2>1, <2>2 DEF S, a
<1>7. Sum(g, 1..m) = Sum(f, 1..m)
  BY <1>2, <1>5, SumAgrees
<1>8. Sum(f, 1..m) \in Int /\ Effect(x, n) \in Int
  <2>1. \A i \in 1..m : f[i] \in Int
    BY <1>1, <1>2, <1>3
  <2> QED
    BY <1>5, <2>1, SumType, EffectType
<1>9. Listed(list, n) = Sum(f, 1..m) /\ Listed(more, n) = Sum(g, 1..(m + 1))
  BY <1>1 DEF Listed, f, g
<1> QED
  BY <1>2, <1>6, <1>7, <1>8, <1>9 DEF more

LEMMA SumOfBalances ==
    ASSUME NEW b \in [Nodes -> Int], NEW n \in Nodes, NEW v \in Int
    PROVE  /\ Sum(b, Nodes) \in Int
           /\ Sum([b EXCEPT ![n] = v], Nodes) = Sum(b, Nodes) - b[n] + v
<1> DEFINE g == [b EXCEPT ![n] = v]
<1>1. g[n] = v /\ (\A x \in Nodes \ {n} : g[x] = b[x]) /\ \A x \in Nodes : b[x] \in Int
  OBVIOUS
<1>2. IsFiniteSet(Nodes)
  BY LedgerAssumption
<1>3. Sum(b, Nodes) \in Int
  BY <1>1, <1>2, SumType
<1>4. Sum(g, Nodes) = Sum(b, Nodes) - b[n] + v
  <2> HIDE DEF g
  <2>1. g[n] \in Int
    BY <1>1
  <2>2. Sum(g, Nodes) = Sum(b, Nodes) - b[n] + g[n]
    BY <1>1, <1>2, <2>1, SumUpdate
  <2> QED
    BY <1>1, <2>2
<1> QED
  BY <1>3, <1>4

\* A write: the call is the only one, and the books fit before and after.
LEMMA WriteStep ==
    ASSUME IInv, IInv', BooksInv, NEW c \in Callers, NEW k \in Call, Becomes(c, k),
           orderly' = orderly,
           orderly => /\ OnlyCall(c)
                      /\ k.at # "idle" => Shaped(k)
                      /\ Tallies(k, bal', supply', entries')
                      /\ Current(k, bal', supply', entries')
    PROVE  /\ BooksInv'
           /\ orderly \in BOOLEAN
           /\ calls'[c] = k
           /\ orderly => \A d \in Callers \ {c} : calls'[d].at = "idle"
<1>1. calls'[c] = k /\ \A d \in Callers \ {c} : calls'[d] = calls[d]
  BY BecomesCall DEF IInv, TypeOK
<1>2. BooksInv'
  BY <1>1, BooksStep
<1> QED
  BY <1>1, <1>2 DEF OnlyCall, Busy, IInv, TypeOK

LEMMA BooksCredit ==
    ASSUME IInv, IInv', BooksInv, NEW c \in Callers, WriteCredit(c), Counts(calls[c])
    PROVE  BooksInv' /\ Atomic
<1> DEFINE j == calls[c]
           k == At(j, "read_supply")
           n == Payee(j)
<1>0. /\ Busy(c) /\ UNCHANGED <<supply, entries, orderly>>
      /\ j.at = "write_credit" /\ Becomes(c, k)
      /\ bal' = [bal EXCEPT ![n] = j.seen + j.amount]
      /\ IF j.kind = "reward" THEN paid' = paid \cup {j.claim} ELSE paid' = paid
  BY DEF WriteCredit, WriteBalance, Credited, GoesTo, RestStays, Busy
<1>1. /\ j \in Call /\ Staged(j) /\ orderly' = orderly
      /\ orderly => /\ OnlyCall(c) /\ Shaped(j)
                    /\ Tallies(j, bal, supply, entries) /\ Current(j, bal, supply, entries)
  BY <1>0, BooksFacts
<1>2. k \in Call /\ k.at = "read_supply" /\ Same(k, j)
  BY <1>1, AtSame DEF Stages
<1>3. /\ n \in Nodes /\ j.amount \in Nat /\ j.fee \in Nat /\ j.seen \in Nat /\ j.node \in Nodes
      /\ j.to \in Nodes
  BY <1>1, CallParts DEF Call
<1>4. bal \in [Nodes -> Int] /\ supply \in Int /\ entries \in Seq(Entry) /\ orderly \in BOOLEAN
  BY DEF IInv, TypeOK
<1>c. j.kind = "reward" /\ orderly => j.claim \in Claims \ paid
  BY <1>0, <1>1 DEF j, Staged, IInv, OnceInv, Granting
<1> HIDE DEF j, k, n
<1>k. j.kind \in {"reward", "transfer"}
  BY <1>0, <1>1 DEF Staged
<1>5. ASSUME orderly
      PROVE  /\ Shaped(k) /\ Tallies(k, bal', supply', entries')
             /\ Current(k, bal', supply', entries')
             /\ j.seen = bal[n]
  <2>1. j.seen = bal[n]
    BY <1>0, <1>1, <1>5 DEF Current, n
  <2>2. /\ bal'[n] = bal[n] + j.amount /\ \A x \in Nodes \ {n} : bal'[x] = bal[x]
        /\ Sum(bal', Nodes) = Sum(bal, Nodes) + j.amount /\ Sum(bal, Nodes) \in Int
    <3>1. bal[n] \in Int /\ bal[n] + j.amount \in Int
      BY <1>3, <1>4
    <3>2. /\ Sum(bal', Nodes) = Sum(bal, Nodes) - bal[n] + (bal[n] + j.amount)
          /\ Sum(bal, Nodes) \in Int
      BY <1>0, <1>3, <1>4, <2>1, <3>1, SumOfBalances
    <3> QED
      BY <1>0, <1>3, <1>4, <2>1, <3>1, <3>2
  <2>3. Shaped(k)
    BY <1>1, <1>2, <1>5, SameParts
  <2>4. Current(k, bal', supply', entries')
    BY <1>2 DEF Current
  <2>5. ~Paying(k) /\ Unlisted(k) /\ Moved(k) = 0 /\ \A x \in Nodes : ToPay(k, x) = 0
    BY <1>2 DEF Paying, Unlisted, Moved, ToPay
  <2>6. SupplyChange(k) = SupplyChange(j) /\ EntryOf(k) = EntryOf(j)
        /\ k.kind = j.kind /\ k.fee = j.fee
    BY <1>2, SameParts DEF Same
  <2>7. \A x \in Nodes : ToList(k, x) = Effect(EntryOf(j), x)
    BY <2>5, <2>6 DEF ToList
  <2>8. \A x \in Nodes : Listed(entries, x) \in Int /\ bal[x] \in Int
    BY <1>4, ListedType
  <2>9. CASE j.kind = "reward"
    <3>1. n = j.node /\ Still(j) /\ j.fee = 0
      BY <1>0, <1>1, <1>5, <2>9 DEF n, Payee, Still, Unlisted, Paying, Shaped
    <3>2. Balanced(bal, supply, entries)
      BY <1>1, <1>4, <1>5, <3>1, StillTallies
    <3>3. ToPost(k) = j.amount
      BY <1>2, <2>6, <2>9 DEF ToPost, Posting, SupplyChange
    <3>4. \A x \in Nodes : Effect(EntryOf(j), x) = IF n = x THEN j.amount ELSE 0
      BY <1>1, <2>9, <3>1, EffectOfEntry
    <3>5. supply' + ToPost(k) = Sum(bal', Nodes) + Moved(k)
      BY <1>0, <1>3, <1>4, <2>2, <2>5, <3>2, <3>3 DEF Balanced
    <3>6. ASSUME Len(entries') < MaxEntries, NEW x \in Nodes
          PROVE  bal'[x] + ToPay(k, x) = Listed(entries', x) + ToList(k, x)
      <4>1. bal[x] = Listed(entries, x) /\ entries' = entries
        BY <1>0, <3>2, <3>6 DEF Balanced
      <4>2. ToList(k, x) = (IF n = x THEN j.amount ELSE 0) /\ ToPay(k, x) = 0
        BY <2>5, <2>7, <3>4
      <4>3. bal[x] \in Int
        BY <2>8
      <4>4. CASE x = n
        BY <1>3, <2>2, <4>1, <4>2, <4>3, <4>4
      <4>5. CASE x # n
        BY <2>2, <4>1, <4>2, <4>3, <4>5
      <4> QED
        BY <4>4, <4>5
    <3> QED
      BY <2>1, <2>3, <2>4, <3>5, <3>6 DEF Tallies
  <2>10. CASE j.kind = "transfer"
    <3>1. n = j.to /\ Paying(j) /\ Unlisted(j) /\ Posting(j)
      BY <1>0, <2>10 DEF n, Payee, Unlisted, Paying, Posting
    <3>2. ToPost(j) = -j.fee /\ ToPost(k) = -j.fee
      BY <1>2, <1>3, <2>6, <2>10, <3>1 DEF ToPost, Posting, SupplyChange, Paying
    <3>3. Moved(j) = j.amount /\ \A x \in Nodes : ToPay(j, x) = IF n = x THEN j.amount ELSE 0
      BY <3>1 DEF Moved, ToPay
    <3>4. \A x \in Nodes : ToList(j, x) = Effect(EntryOf(j), x) /\ Effect(EntryOf(j), x) \in Int
      BY <1>1, <3>1, CallParts, EffectType DEF ToList
    <3>5. supply' + ToPost(k) = Sum(bal', Nodes) + Moved(k)
      BY <1>0, <1>1, <1>3, <1>4, <1>5, <2>2, <2>5, <3>2, <3>3 DEF Tallies
    <3>6. ASSUME Len(entries') < MaxEntries, NEW x \in Nodes
          PROVE  bal'[x] + ToPay(k, x) = Listed(entries', x) + ToList(k, x)
      <4>1. bal[x] + ToPay(j, x) = Listed(entries, x) + ToList(j, x) /\ entries' = entries
        BY <1>0, <1>1, <1>5, <3>6 DEF Tallies
      <4>2. ToList(k, x) = ToList(j, x) /\ ToPay(k, x) = 0
            /\ ToPay(j, x) = IF n = x THEN j.amount ELSE 0
        BY <2>5, <2>7, <3>3, <3>4
      <4>3. bal[x] \in Int
        BY <2>8
      <4>4. CASE x = n
        BY <1>3, <2>2, <4>1, <4>2, <4>3, <4>4
      <4>5. CASE x # n
        BY <2>2, <4>1, <4>2, <4>3, <4>5
      <4> QED
        BY <4>4, <4>5
    <3> QED
      BY <2>1, <2>3, <2>4, <3>5, <3>6 DEF Tallies
  <2> QED
    BY <1>k, <2>9, <2>10
<1>6. /\ BooksInv' /\ calls'[c] = k
      /\ orderly => \A d \in Callers \ {c} : calls'[d].at = "idle"
  BY <1>0, <1>1, <1>2, <1>5, WriteStep
<1> SUFFICES ASSUME orderly
             PROVE  Atomic
  BY <1>1, <1>4, <1>6, BrokenIsAtomic
<1>7. /\ BalanceToBe = [x \in Nodes |-> IF Paying(j) /\ j.to = x THEN bal[x] + j.amount
                                        ELSE bal[x]]
      /\ SupplyToBe = IF Posting(j) THEN supply + SupplyChange(j) ELSE supply
  BY <1>1, ToBe DEF j
<1>8. /\ BalanceToBe' = [x \in Nodes |-> bal'[x]]
      /\ SupplyToBe' = IF Posting(k) THEN supply + SupplyChange(k) ELSE supply
  <2>1. ~Paying(k)
    BY <1>2 DEF Paying
  <2> QED
    BY <1>0, <1>6, <2>1, ToBeNext
<1>9. /\ bal'[n] = bal[n] + j.amount /\ \A x \in Nodes \ {n} : bal'[x] = bal[x]
      /\ \A x \in Nodes : bal[x] \in Int
  BY <1>0, <1>3, <1>4, <1>5
<1>p. SupplyChange(k) = SupplyChange(j) /\ k.kind = j.kind /\ k.fee = j.fee
  BY <1>2, SameParts DEF Same
<1>10. CASE j.kind = "reward"
  <2>1. ~Paying(j) /\ ~Posting(j) /\ Posting(k) /\ SupplyChange(k) = j.amount /\ n = j.node
    BY <1>0, <1>2, <1>p, <1>10 DEF Paying, Posting, SupplyChange, n, Payee
  <2>2. BalanceToBe = [x \in Nodes |-> bal[x]] /\ SupplyToBe = supply
        /\ SupplyToBe' = supply + j.amount
    BY <1>7, <1>8, <2>1
  <2>3. BalanceToBe' = [BalanceToBe EXCEPT ![n] = @ + j.amount]
    BY <1>3, <1>8, <1>9, <2>2
  <2>4. \E claim \in Claims \ paid : paid' = paid \cup {claim}
    BY <1>0, <1>c, <1>10
  <2>5. j.amount \in BookAmounts
    BY <1>1, <1>10 DEF Shaped
  <2>6. Books!Mint(n, j.amount)
    BY <1>0, <2>2, <2>3, <2>4 DEF Books!Mint
  <2> QED
    BY <1>3, <2>5, <2>6 DEF Atomic, Books!Next, BookAmounts
<1>11. CASE j.kind = "transfer"
  <2>1. Paying(j) /\ Posting(j) /\ SupplyChange(j) = -j.fee /\ n = j.to
    BY <1>0, <1>11 DEF Paying, Posting, SupplyChange, n, Payee
  <2>2. SupplyToBe' = SupplyToBe
    <3>1. CASE j.fee = 0
      BY <1>4, <1>7, <1>8, <1>p, <2>1, <3>1
    <3>2. CASE j.fee > 0
      <4>1. Posting(k)
        BY <1>2, <1>p, <3>2 DEF Posting
      <4> QED
        BY <1>7, <1>8, <1>p, <2>1, <4>1
    <3> QED
      BY <1>3, <3>1, <3>2
  <2>3. BalanceToBe' = BalanceToBe
    BY <1>3, <1>7, <1>8, <1>9, <2>1
  <2> QED
    BY <1>0, <1>11, <2>2, <2>3 DEF Atomic, Books!vars
<1> QED
  BY <1>k, <1>10, <1>11

LEMMA BooksDebit ==
    ASSUME IInv, IInv', BooksInv, NEW c \in Callers, WriteDebit(c), Counts(calls[c])
    PROVE  BooksInv' /\ Atomic
<1> DEFINE j == calls[c]
           stage == IF j.kind = "transfer" THEN "read_credit" ELSE "read_supply"
           k == At(j, stage)
           n == j.node
           owed == Owed(j)
<1>0. /\ Busy(c) /\ UNCHANGED <<supply, entries, orderly, paid>>
      /\ j.at = "write_debit" /\ Becomes(c, k)
      /\ bal' = [bal EXCEPT ![n] = j.seen - owed]
      /\ Covers(j) /\ Counts(j)
  BY DEF WriteDebit, WriteBalance, GoesTo, RestStays, Busy, IInv, DebitInv
<1>1. /\ j \in Call /\ Staged(j) /\ orderly' = orderly
      /\ orderly => /\ OnlyCall(c) /\ Shaped(j)
                    /\ Tallies(j, bal, supply, entries) /\ Current(j, bal, supply, entries)
  BY <1>0, BooksFacts
<1>2. k \in Call /\ k.at = stage /\ Same(k, j)
  <2>1. stage \in Stages
    BY DEF Stages
  <2> HIDE DEF j, stage
  <2> QED
    BY <1>1, <2>1, AtSame
<1>3. /\ n \in Nodes /\ j.to \in Nodes
      /\ j.amount \in Nat /\ j.fee \in Nat /\ j.seen \in Nat
      /\ owed = j.amount + j.fee /\ owed \in Nat /\ j.seen >= owed
  <2>1. n \in Nodes /\ j.to \in Nodes /\ j.amount \in Nat /\ j.fee \in Nat /\ j.seen \in Nat
    BY <1>1 DEF Call
  <2> QED
    BY <1>0, <2>1 DEF Owed, Covers
<1>4. bal \in [Nodes -> Int] /\ supply \in Int /\ entries \in Seq(Entry) /\ orderly \in BOOLEAN
  BY DEF IInv, TypeOK
<1>5. Still(j) /\ ~Paying(j) /\ ~Posting(j)
  BY <1>0 DEF Still, Unlisted, Paying, Posting
<1>s. stage = IF j.kind = "transfer" THEN "read_credit" ELSE "read_supply"
  OBVIOUS
<1>n. n = j.node
  OBVIOUS
<1> HIDE DEF j, k, n, stage, owed
<1>k. j.kind \in {"transfer", "settle"}
  BY <1>0, <1>1 DEF Staged
<1>p. /\ SupplyChange(k) = SupplyChange(j) /\ EntryOf(k) = EntryOf(j)
      /\ k.kind = j.kind /\ k.fee = j.fee /\ k.amount = j.amount /\ k.to = j.to
      /\ orderly => Shaped(k)
  BY <1>1, <1>2, SameParts DEF Same
<1>6. ASSUME orderly
      PROVE  /\ bal'[n] = bal[n] - owed /\ bal[n] >= owed
             /\ \A x \in Nodes \ {n} : bal'[x] = bal[x]
             /\ Sum(bal', Nodes) = Sum(bal, Nodes) - owed /\ Sum(bal, Nodes) \in Int
             /\ Balanced(bal, supply, entries)
  <2>1. j.seen = bal[n]
    BY <1>0, <1>1, <1>6, <1>n DEF Current
  <2>2. bal[n] \in Int /\ bal[n] - owed \in Int
    BY <1>3, <1>4
  <2>3. /\ Sum(bal', Nodes) = Sum(bal, Nodes) - bal[n] + (bal[n] - owed)
        /\ Sum(bal, Nodes) \in Int
    BY <1>0, <1>3, <1>4, <2>1, <2>2, SumOfBalances
  <2>4. Sum(bal', Nodes) = Sum(bal, Nodes) - owed
    BY <1>3, <2>2, <2>3
  <2>5. Balanced(bal, supply, entries)
    BY <1>1, <1>4, <1>5, <1>6, StillTallies
  <2> QED
    BY <1>0, <1>3, <1>4, <2>1, <2>3, <2>4, <2>5
<1>7. ASSUME orderly
      PROVE  Tallies(k, bal', supply', entries')
  <2>1. Unlisted(k) /\ Posting(k)
    <3>1. CASE j.kind = "transfer"
      BY <1>2, <1>p, <1>s, <3>1 DEF Unlisted, Posting, Paying
    <3>2. CASE j.kind = "settle"
      BY <1>2, <1>p, <1>s, <3>2 DEF Unlisted, Posting, Paying
    <3> QED
      BY <1>k, <3>1, <3>2
  <2>2. ToPost(k) = SupplyChange(j) /\ \A x \in Nodes : ToList(k, x) = Effect(EntryOf(j), x)
    BY <1>p, <2>1 DEF ToPost, ToList
  <2>3. CASE j.kind = "transfer"
    <3>1. Paying(k)
      BY <1>2, <1>p, <1>s, <2>3 DEF Paying
    <3>2. /\ Moved(k) = j.amount /\ \A x \in Nodes : ToPay(k, x) = IF j.to = x THEN j.amount ELSE 0
      BY <1>p, <3>1 DEF Moved, ToPay
    <3>3. SupplyChange(j) = -j.fee
      BY <2>3 DEF SupplyChange
    <3>4. supply' + ToPost(k) = Sum(bal', Nodes) + Moved(k)
      <4>1. supply' = Sum(bal, Nodes) /\ Sum(bal, Nodes) \in Int
        BY <1>0, <1>6, <1>7 DEF Balanced
      <4>2. Sum(bal', Nodes) = Sum(bal, Nodes) - (j.amount + j.fee)
        BY <1>3, <1>6, <1>7
      <4>3. ToPost(k) = -j.fee /\ Moved(k) = j.amount
        BY <2>2, <3>2, <3>3
      <4> QED
        BY <1>3, <4>1, <4>2, <4>3
    <3>5. n # j.to
      BY <1>1, <1>7, <1>n, <2>3 DEF Shaped
    <3>6. ASSUME Len(entries') < MaxEntries, NEW x \in Nodes
          PROVE  bal'[x] + ToPay(k, x) = Listed(entries', x) + ToList(k, x)
      <4>1. bal[x] = Listed(entries, x) /\ entries' = entries /\ bal[x] \in Int
        BY <1>0, <1>4, <1>6, <1>7, <3>6 DEF Balanced
      <4>2. ToList(k, x) = (IF j.to = x THEN j.amount ELSE 0) - (IF n = x THEN owed ELSE 0)
        BY <1>1, <1>3, <1>n, <2>2, <2>3, EffectOfEntry
      <4>3. CASE x = n
        BY <1>3, <1>6, <1>7, <3>2, <3>5, <4>1, <4>2, <4>3
      <4>4. CASE x # n
        BY <1>3, <1>6, <1>7, <3>2, <4>1, <4>2, <4>4
      <4> QED
        BY <4>3, <4>4
    <3> QED
      BY <3>4, <3>6 DEF Tallies
  <2>4. CASE j.kind = "settle"
    <3>1. ~Paying(k)
      BY <1>2, <1>s, <2>4 DEF Paying
    <3>2. Moved(k) = 0 /\ \A x \in Nodes : ToPay(k, x) = 0
      BY <3>1 DEF Moved, ToPay
    <3>3. SupplyChange(j) = -j.amount /\ j.fee = 0
      BY <1>1, <1>7, <2>4 DEF SupplyChange, Shaped
    <3>4. supply' + ToPost(k) = Sum(bal', Nodes) + Moved(k)
      BY <1>0, <1>3, <1>4, <1>6, <1>7, <2>2, <3>2, <3>3 DEF Balanced
    <3>6. ASSUME Len(entries') < MaxEntries, NEW x \in Nodes
          PROVE  bal'[x] + ToPay(k, x) = Listed(entries', x) + ToList(k, x)
      <4>1. bal[x] = Listed(entries, x) /\ entries' = entries /\ bal[x] \in Int
        BY <1>0, <1>4, <1>6, <1>7, <3>6 DEF Balanced
      <4>2. ToList(k, x) = - (IF n = x THEN owed ELSE 0)
        BY <1>1, <1>3, <1>n, <2>2, <2>4, EffectOfEntry
      <4>3. CASE x = n
        BY <1>3, <1>6, <1>7, <3>2, <4>1, <4>2, <4>3
      <4>4. CASE x # n
        BY <1>3, <1>6, <1>7, <3>2, <4>1, <4>2, <4>4
      <4> QED
        BY <4>3, <4>4
    <3> QED
      BY <3>4, <3>6 DEF Tallies
  <2> QED
    BY <1>k, <2>3, <2>4
<1>8. Current(k, bal', supply', entries')
  BY <1>2, <1>s DEF Current
<1>9. /\ BooksInv' /\ calls'[c] = k
      /\ orderly => \A d \in Callers \ {c} : calls'[d].at = "idle"
  BY <1>0, <1>1, <1>2, <1>7, <1>8, <1>p, WriteStep
<1> SUFFICES ASSUME orderly
             PROVE  Atomic
  BY <1>1, <1>4, <1>9, BrokenIsAtomic
<1>10. BalanceToBe = [x \in Nodes |-> bal[x]] /\ SupplyToBe = supply
  BY <1>1, <1>5, ToBe DEF j
<1>11. /\ BalanceToBe' = [x \in Nodes |-> IF Paying(k) /\ k.to = x THEN bal'[x] + k.amount
                                          ELSE bal'[x]]
       /\ SupplyToBe' = IF Posting(k) THEN supply' + SupplyChange(k) ELSE supply'
  BY <1>9, ToBeNext
<1>12. /\ bal'[n] = bal[n] - owed /\ bal[n] >= owed /\ \A x \in Nodes \ {n} : bal'[x] = bal[x]
       /\ \A x \in Nodes : bal[x] \in Int
  BY <1>4, <1>6
<1>a. j.amount \in BookAmounts
  BY <1>1, <1>k DEF Shaped
<1>13. CASE j.kind = "transfer"
  <2>1. Paying(k) /\ Posting(k) /\ SupplyChange(k) = -j.fee
    BY <1>2, <1>p, <1>s, <1>13 DEF Paying, Posting, SupplyChange
  <2>2. n # j.to /\ j.fee \in {Fee[d] : d \in Callers}
    BY <1>1, <1>n, <1>13 DEF Shaped
  <2>3. SupplyToBe' = SupplyToBe - j.fee
    BY <1>0, <1>3, <1>4, <1>10, <1>11, <2>1
  <2>4. BalanceToBe' = [BalanceToBe EXCEPT ![n] = @ - (j.amount + j.fee), ![j.to] = @ + j.amount]
    BY <1>3, <1>p, <1>10, <1>11, <1>12, <2>1, <2>2
  <2>5. BalanceToBe[n] >= j.amount + j.fee
    BY <1>3, <1>10, <1>12
  <2>6. Books!Transfer(n, j.to, j.amount, j.fee)
    BY <1>0, <2>2, <2>3, <2>4, <2>5 DEF Books!Transfer
  <2> QED
    BY <1>3, <1>a, <2>2, <2>6 DEF Atomic, Books!Next, BookAmounts
<1>14. CASE j.kind = "settle"
  <2>1. ~Paying(k) /\ Posting(k) /\ SupplyChange(k) = -j.amount /\ owed = j.amount
    <3>1. j.fee = 0
      BY <1>1, <1>14 DEF Shaped
    <3> QED
      BY <1>2, <1>3, <1>p, <1>s, <1>14, <3>1 DEF Paying, Posting, SupplyChange
  <2>2. SupplyToBe' = SupplyToBe - j.amount
    BY <1>0, <1>3, <1>4, <1>10, <1>11, <2>1
  <2>3. BalanceToBe' = [BalanceToBe EXCEPT ![n] = @ - j.amount]
    BY <1>3, <1>10, <1>11, <1>12, <2>1
  <2>4. BalanceToBe[n] >= j.amount
    BY <1>3, <1>10, <1>12, <2>1
  <2>5. Books!Burn(n, j.amount)
    BY <1>0, <2>2, <2>3, <2>4 DEF Books!Burn
  <2> QED
    BY <1>3, <1>a, <2>5 DEF Atomic, Books!Next, BookAmounts
<1> QED
  BY <1>k, <1>13, <1>14

LEMMA SumOfHeld ==
    ASSUME IInv
    PROVE  Sum(bal, Nodes) \in Nat
<1>1. \A n \in Nodes : bal[n] \in Nat
  BY DEF IInv, TypeOK, DebitInv
<1>2. IsFiniteSet(Nodes)
  BY LedgerAssumption
<1> QED
  BY <1>1, <1>2, SumType

LEMMA BooksSupply ==
    ASSUME IInv, IInv', BooksInv, NEW c \in Callers, StoreSupply(c), Counts(calls[c])
    PROVE  BooksInv' /\ Atomic
<1> DEFINE j == calls[c]
           k == At(j, "read_entries")
<1>0. /\ Busy(c) /\ UNCHANGED <<bal, nans, entries, orderly, paid>>
      /\ j.at = "write_supply" /\ Becomes(c, k)
      /\ supply' = AtLeastZero(j.seen + SupplyChange(j))
  BY DEF StoreSupply, WriteSupply, GoesTo, BooksStay, RestStays, Busy, Counts
<1>1. /\ j \in Call /\ Staged(j) /\ orderly' = orderly
      /\ orderly => /\ OnlyCall(c) /\ Shaped(j)
                    /\ Tallies(j, bal, supply, entries) /\ Current(j, bal, supply, entries)
  BY <1>0, BooksFacts
<1>2. k \in Call /\ k.at = "read_entries" /\ Same(k, j)
  BY <1>1, AtSame DEF Stages
<1>3. SupplyChange(j) \in Int /\ j.fee \in Nat /\ j.amount \in Nat /\ supply \in Int
      /\ orderly \in BOOLEAN
  BY <1>1, CallParts DEF Call, IInv, TypeOK
<1> HIDE DEF j, k
<1>4. ~Paying(j) /\ ~Paying(k) /\ ~Posting(k) /\ Unlisted(j) /\ Unlisted(k)
  BY <1>0, <1>2 DEF Paying, Posting, Unlisted
<1>5. EntryOf(k) = EntryOf(j) /\ (orderly => Shaped(k))
  BY <1>1, <1>2, SameParts
<1>6. ToPost(j) = SupplyChange(j)
  <2>1. CASE Posting(j)
    BY <2>1 DEF ToPost
  <2>2. CASE ~Posting(j)
    <3>1. j.kind = "transfer" /\ j.fee = 0
      BY <1>0, <1>3, <2>2 DEF Posting
    <3>2. SupplyChange(j) = -j.fee
      BY <3>1 DEF SupplyChange
    <3>3. SupplyChange(j) = 0
      <4>1. SupplyChange(j) + j.fee = 0
        BY <1>3, <3>2
      <4> QED
        BY <1>3, <3>1, <4>1
    <3> QED
      BY <2>2, <3>3 DEF ToPost
  <2> QED
    BY <2>1, <2>2
<1>7. ASSUME orderly
      PROVE  supply' = supply + SupplyChange(j) /\ supply' = Sum(bal, Nodes)
  <2>1. supply + SupplyChange(j) = Sum(bal, Nodes) + 0
    BY <1>1, <1>4, <1>6, <1>7 DEF Tallies, Moved
  <2>2. j.seen = supply /\ Sum(bal, Nodes) \in Nat
    BY <1>0, <1>1, <1>7, SumOfHeld DEF Current
  <2> QED
    BY <1>0, <2>1, <2>2 DEF AtLeastZero
<1>8. ASSUME orderly
      PROVE  Tallies(k, bal', supply', entries')
  <2>1. ToPost(k) = 0 /\ Moved(k) = 0 /\ \A x \in Nodes : ToPay(k, x) = 0 /\ ToPay(j, x) = 0
    BY <1>4 DEF ToPost, Moved, ToPay
  <2>2. \A x \in Nodes : ToList(k, x) = ToList(j, x)
    BY <1>4, <1>5 DEF ToList
  <2>3. Sum(bal, Nodes) \in Nat
    BY SumOfHeld
  <2> QED
    BY <1>0, <1>1, <1>7, <1>8, <2>1, <2>2, <2>3 DEF Tallies
<1>9. Current(k, bal', supply', entries')
  BY <1>2 DEF Current
<1>10. /\ BooksInv' /\ calls'[c] = k
       /\ orderly => \A d \in Callers \ {c} : calls'[d].at = "idle"
  BY <1>0, <1>1, <1>2, <1>5, <1>8, <1>9, WriteStep
<1> SUFFICES ASSUME orderly
             PROVE  Atomic
  BY <1>1, <1>3, <1>10, BrokenIsAtomic
<1>11. /\ BalanceToBe = [x \in Nodes |-> bal[x]]
       /\ SupplyToBe = IF Posting(j) THEN supply + SupplyChange(j) ELSE supply
  BY <1>1, <1>4, ToBe DEF j
<1>12. BalanceToBe' = [x \in Nodes |-> bal'[x]] /\ SupplyToBe' = supply'
  BY <1>4, <1>10, ToBeNext
<1>13. SupplyToBe' = SupplyToBe
  BY <1>3, <1>6, <1>7, <1>11, <1>12 DEF ToPost
<1> QED
  BY <1>0, <1>11, <1>12, <1>13 DEF Atomic, Books!vars

LEMMA BooksEntries ==
    ASSUME IInv, IInv', BooksInv, NEW c \in Callers, WriteEntries(c), Counts(calls[c])
    PROVE  BooksInv' /\ Atomic
<1> DEFINE j == calls[c]
           x == EntryOf(j)
<1>0. /\ Busy(c) /\ UNCHANGED <<bal, nans, supply, orderly, paid>>
      /\ j.at = "write_entries"
      /\ entries' = Newest(Append(j.entries, x), MaxEntries)
      /\ CASE j.kind = "reward" -> GoesTo(c, "mark")
           [] j.kind = "settle" -> GoesTo(c, "read_tips")
           [] OTHER -> Returns(c)
  BY DEF WriteEntries, BooksStay, RestStays, Busy, Counts
<1>1. /\ j \in Call /\ Staged(j) /\ orderly' = orderly
      /\ orderly => /\ OnlyCall(c) /\ Shaped(j)
                    /\ Tallies(j, bal, supply, entries) /\ Current(j, bal, supply, entries)
  BY <1>0, BooksFacts
<1>2. PICK k \in Call : /\ Becomes(c, k) /\ k.at \in {"mark", "read_tips", "idle"}
                        /\ orderly /\ k.at # "idle" => Shaped(k)
  <2>1. CASE j.kind = "reward" \/ j.kind = "settle"
    <3> DEFINE stage == IF j.kind = "reward" THEN "mark" ELSE "read_tips"
               k == At(j, stage)
    <3>1. Becomes(c, k) /\ stage \in Stages /\ stage \in {"mark", "read_tips"}
      BY <1>0, <2>1 DEF GoesTo, Stages
    <3> HIDE DEF j, stage
    <3>2. k \in Call /\ k.at = stage /\ Same(k, j)
      BY <1>1, <3>1, AtSame
    <3> HIDE DEF k
    <3>3. orderly => Shaped(k)
      BY <1>1, <3>2, SameParts
    <3> QED
      BY <3>1, <3>2, <3>3
  <2>2. CASE j.kind \notin {"reward", "settle"}
    <3>1. Returns(c)
      BY <1>0, <2>2
    <3>2. Blank(Home[c]) \in Call /\ Blank(Home[c]).at = "idle"
      BY BlankPasses
    <3> QED
      BY <3>1, <3>2 DEF Returns
  <2> QED
    BY <2>1, <2>2
<1>3. /\ x \in Entry /\ orderly \in BOOLEAN
      /\ bal \in [Nodes -> Int] /\ supply \in Int /\ entries \in Seq(Entry)
      /\ bal' \in [Nodes -> Int] /\ supply' \in Int /\ entries' \in Seq(Entry)
  BY <1>1, CallParts DEF IInv, TypeOK
<1> HIDE DEF j
<1>x. x = EntryOf(j)
  OBVIOUS
<1> HIDE DEF x
<1>4. ~Paying(j) /\ ~Posting(j) /\ Unlisted(j) /\ Still(k) /\ ~Paying(k) /\ ~Posting(k)
  BY <1>0, <1>2 DEF Paying, Posting, Unlisted, Still
<1>5. ASSUME orderly
      PROVE  Balanced(bal', supply', entries')
  <2>1. ToPost(j) = 0 /\ Moved(j) = 0 /\ \A n \in Nodes : ToPay(j, n) = 0
    BY <1>4 DEF ToPost, Moved, ToPay
  <2>2. \A n \in Nodes : ToList(j, n) = Effect(x, n)
    BY <1>4, <1>x DEF ToList
  <2>3. Sum(bal, Nodes) \in Nat
    BY SumOfHeld
  <2>4. supply' = Sum(bal', Nodes)
    BY <1>0, <1>1, <1>3, <1>5, <2>1, <2>3 DEF Tallies
  <2>5. ASSUME Len(entries') < MaxEntries, NEW n \in Nodes
        PROVE  bal'[n] = Listed(entries', n)
    <3> DEFINE items == Append(entries, x)
    <3>1. entries' = Newest(items, MaxEntries) /\ items \in Seq(Entry)
      BY <1>0, <1>1, <1>3, <1>5 DEF Current
    <3>2. Len(items) = Len(entries) + 1 /\ Len(entries) \in Nat /\ MaxEntries \in Nat \ {0}
      BY <1>3, LedgerAssumption
    <3>3. entries' = items
      <4> HIDE DEF items
      <4>1. CASE Len(items) <= MaxEntries
        BY <3>1, <4>1 DEF Newest
      <4>2. CASE ~(Len(items) <= MaxEntries)
        <5>1. entries' = SubSeq(items, Len(items) - MaxEntries + 1, Len(items))
          BY <3>1, <4>2 DEF Newest
        <5>2. Len(entries') = MaxEntries
          BY <3>1, <3>2, <4>2, <5>1
        <5> QED
          BY <2>5, <3>2, <5>2
      <4> QED
        BY <4>1, <4>2
    <3>4. Len(entries) < MaxEntries
      <4> HIDE DEF items
      <4> QED
        BY <2>5, <3>2, <3>3
    <3>5. bal[n] + 0 = Listed(entries, n) + Effect(x, n)
      BY <1>1, <1>5, <2>1, <2>2, <3>4 DEF Tallies
    <3>6. Listed(items, n) = Listed(entries, n) + Effect(x, n)
      BY <1>3, ListedAppend
    <3>7. bal[n] \in Int /\ bal' = bal
      BY <1>0, <1>3
    <3> QED
      BY <3>3, <3>5, <3>6, <3>7
  <2> QED
    BY <2>4, <2>5 DEF Balanced
<1>6. ASSUME orderly
      PROVE  Tallies(k, bal', supply', entries')
  BY <1>3, <1>4, <1>5, <1>6, StillTallies
<1>7. Current(k, bal', supply', entries')
  BY <1>2 DEF Current
<1>8. /\ BooksInv' /\ calls'[c] = k
      /\ orderly => \A d \in Callers \ {c} : calls'[d].at = "idle"
  BY <1>1, <1>2, <1>6, <1>7, WriteStep
<1> SUFFICES ASSUME orderly
             PROVE  Atomic
  BY <1>1, <1>3, <1>8, BrokenIsAtomic
<1>9. BalanceToBe = [n \in Nodes |-> bal[n]] /\ SupplyToBe = supply
  BY <1>1, <1>4, ToBe DEF j
<1>10. BalanceToBe' = [n \in Nodes |-> bal'[n]] /\ SupplyToBe' = supply'
  BY <1>4, <1>8, ToBeNext
<1> QED
  BY <1>0, <1>9, <1>10 DEF Atomic, Books!vars

----------------------------------------------------------------------------
(* All steps, and what follows. *)

LEMMA BooksFails ==
    ASSUME NEW c \in Callers, Fails(c)
    PROVE  BooksInv' /\ Atomic
<1>1. orderly' = FALSE
  BY DEF Fails
<1> QED
  BY <1>1, BrokenIsAtomic DEF BooksInv

LEMMA NextKeepsBooks ==
    ASSUME IInv, IInv', BooksInv, NumbersInv, [Next]_vars
    PROVE  BooksInv' /\ Atomic
<1>1. ASSUME NEW c \in Callers, Starts(c)
      PROVE  BooksInv' /\ Atomic
  BY <1>1, BooksStarts
<1>2. ASSUME NEW c \in Callers, BookStep(c)
      PROVE  BooksInv' /\ Atomic
  <2>1. CASE ~orderly
    <3>1. orderly' = orderly
      BY <1>2 DEF BookStep, CheckGenesis, CheckClaim, ReadCredit, WriteCredit, ReadDebit,
         WriteDebit, ReadSupply, StoreSupply, ReadEntries, WriteEntries, MarkClaim, RestStays
    <3> QED
      BY <2>1, <3>1, BrokenIsAtomic DEF BooksInv, IInv, TypeOK
  <2>2. CASE orderly
    <3>1. Counts(calls[c])
      BY <2>2 DEF NumbersInv
    <3> QED
      BY <1>2, <3>1, BooksChecks, BooksReadCredit, BooksCredit, BooksDebit, BooksReadSupply,
         BooksSupply, BooksReadEntries, BooksEntries DEF BookStep
  <2> QED
    BY <2>1, <2>2
<1>3. ASSUME NEW c \in Callers, SideStep(c)
      PROVE  BooksInv' /\ Atomic
  BY <1>3, BooksSides
<1>4. ASSUME NEW c \in Callers, Fails(c)
      PROVE  BooksInv' /\ Atomic
  BY <1>4, BooksFails
<1>5. CASE UNCHANGED <<bal, nans, supply, entries, paid, calls, orderly>>
  <2>1. BooksInv'
    BY <1>5 DEF BooksInv, Busy
  <2>2. BalanceToBe' = BalanceToBe /\ SupplyToBe' = SupplyToBe
    BY <1>5 DEF BalanceToBe, SupplyToBe
  <2> QED
    BY <1>5, <2>1, <2>2 DEF Atomic, Books!vars
<1>6. ASSUME NEW e \in Events, EventExpires(e)
      PROVE  BooksInv' /\ Atomic
  BY <1>5, <1>6 DEF EventExpires
<1>7. CASE UNCHANGED vars
  BY <1>5, <1>7 DEF vars
<1> QED
  BY <1>1, <1>2, <1>3, <1>4, <1>6, <1>7 DEF Next

LEMMA BooksBegin ==
    ASSUME Init
    PROVE  BooksInv /\ Books!Init
<1>1. /\ bal = [n \in Nodes |-> 0] /\ supply = 0 /\ entries = <<>> /\ paid = {}
      /\ orderly = TRUE /\ \A c \in Callers : calls[c].at = "idle"
  BY BlankPasses DEF Init, LedgerInit
<1>2. Balanced(bal, supply, entries)
  <2>1. Sum(bal, Nodes) = 0
    <3>1. (\A n \in Nodes : bal[n] = 0) /\ IsFiniteSet(Nodes)
      BY <1>1, LedgerAssumption
    <3> QED
      BY <3>1, SumType
  <2>2. ASSUME NEW n \in Nodes
        PROVE  Listed(entries, n) = 0
    <3> DEFINE f == [i \in DOMAIN entries |-> Effect(entries[i], n)]
    <3>1. DOMAIN entries = {} /\ IsFiniteSet({})
      BY <1>1, FS_EmptySet
    <3> HIDE DEF f
    <3>2. \A i \in {} : f[i] = 0
      OBVIOUS
    <3>3. Sum(f, {}) = 0
      BY <3>1, <3>2, SumType
    <3> QED
      BY <3>1, <3>3 DEF Listed, f
  <2> QED
    BY <1>1, <2>1, <2>2 DEF Balanced
<1>3. BooksInv
  BY <1>1, <1>2 DEF BooksInv, Busy
<1>4. \A c \in Callers : ~Paying(calls[c]) /\ ~Posting(calls[c])
  BY <1>1 DEF Paying, Posting
<1>5. BalanceToBe = [n \in Nodes |-> 0] /\ SupplyToBe = 0
  BY <1>1, <1>4 DEF BalanceToBe, SupplyToBe
<1> QED
  BY <1>1, <1>3, <1>5 DEF Books!Init

\* The second invariant, for the same nodes, threads, fees and failures: what
\* the call under way has written and what it still will fits the books.
LEMMA BooksInvariant == Spec => []BooksInv
<1>1. Init => BooksInv
  BY BooksBegin
<1>2. IInv /\ IInv' /\ BooksInv /\ NumbersInv /\ [Next]_vars => BooksInv'
  BY NextKeepsBooks
<1> QED
  BY <1>1, <1>2, EconomyInvariant, NumbersInvariant, PTL DEF Spec

\* Between orderly calls the supply is what the nodes hold together: every
\* path through credit, debit and transfer changes both alike.
THEOREM SupplyIsHeld == Spec => []BooksBalance
<1>1. IInv /\ BooksInv => BooksBalance
  <2> SUFFICES ASSUME IInv, BooksInv, Quiet
               PROVE  supply = FoldFunction(+, 0, bal)
    BY DEF BooksBalance
  <2>1. supply = Sum(bal, Nodes) /\ DOMAIN bal = Nodes
    BY DEF BooksInv, Quiet, Balanced, IInv, TypeOK
  <2> QED
    BY <2>1, FoldIsSum
<1> QED
  BY <1>1, EconomyInvariant, BooksInvariant, PTL

\* Between orderly calls, until the list has been full, each balance is what
\* the entries add up to: a call appends the entry of just what it wrote.
THEOREM EntriesExplain == Spec => []EntriesExplainBalances
<1>1. IInv /\ BooksInv => EntriesExplainBalances
  <2> SUFFICES ASSUME IInv, BooksInv, Quiet, Len(entries) < MaxEntries, NEW n \in Nodes
               PROVE  bal[n] = FoldFunction(+, 0, [i \in DOMAIN entries |-> Effect(entries[i], n)])
    BY DEF EntriesExplainBalances
  <2> DEFINE f == [i \in DOMAIN entries |-> Effect(entries[i], n)]
  <2>1. bal[n] = Sum(f, DOMAIN entries)
    BY DEF BooksInv, Quiet, Balanced, Listed
  <2>2. DOMAIN f = DOMAIN entries
    OBVIOUS
  <2>3. bal[n] = FoldFunction(+, 0, f)
    <3> HIDE DEF f
    <3> QED
      BY <2>1, <2>2, FoldIsSum
  <2> QED
    BY <2>3
<1> QED
  BY <1>1, EconomyInvariant, BooksInvariant, PTL

\* While calls come one by one and finish, the commands of a call change the
\* balances, the supply and the rewards paid as if in one step: every step is
\* a step of AtomicBooks or leaves its books as they are.
THEOREM CallsAreAtomic == Spec => LedgerIsAtomic
<1>1. Init => Books!Init
  BY BooksBegin
<1>2. IInv /\ IInv' /\ BooksInv /\ NumbersInv /\ [Next]_vars => [Books!Next]_(Books!vars)
  BY NextKeepsBooks DEF Atomic
<1> QED
  BY <1>1, <1>2, EconomyInvariant, BooksInvariant, NumbersInvariant, PTL DEF Spec, LedgerIsAtomic, Books!Spec

=============================================================================
