---------------------------- MODULE FabricProofs ----------------------------
(***************************************************************************)
(* Theorems about the two parts of the asset fabric.  Of PieceChallenge: who *)
(* counts as a holder, and what a challenge that returns true has shown, for *)
(* any nodes, pieces, topologies and policies, and any number of challenges. *)
(* Neither property is inductive: a verdict rests on an answer that was on   *)
(* its way or in the listener's hands, so the invariant says of every        *)
(* message whose piece it carries and for which challenge.  Of its plans:    *)
(* that they fill the gap and spread the shards, for any topology and policy. *)
(* Of AssetFabric: the list of events, for any nodes, threads, anchors and    *)
(* failures.                                                                 *)
(***************************************************************************)
EXTENDS PieceChallenge, AssetFabric, FiniteSetTheorems, WellFoundedInduction, TLAPS

Begun == 1..used.challenges

Types ==
    /\ used \in [challenges : Nat, repairs : Nat, ages : Nat, spoils : Nat]
    /\ used.challenges <= MaxChallenges
    /\ store \in [Nodes -> [Pieces -> {"good", "bad", "none"}]]
    /\ challenge \in [Challenges -> [target : Nodes, piece : Pieces \union {0},
                        at : {"none", "waiting", "true", "false", "timeout"}]]
    /\ event \in [Challenges -> [done : BOOLEAN, ok : BOOLEAN]]
    /\ verified \in [Peers -> SUBSET Pieces]
    /\ proved \in [Peers -> SUBSET Pieces]

\* A message about a challenge that was made: of this node, for this piece.
Concerns(id, n, p) ==
    /\ id \in Begun /\ n \in Peers /\ p \in Pieces
    /\ challenge[id].target = n /\ challenge[id].piece = p

Honest(m) ==
    /\ Concerns(m.id, m.source, m.piece)
    /\ Proves(m) => m.piece \in proved[m.source]

Answers ==
    /\ \A m \in net : m.kind = "challenge" => Concerns(m.id, m.target, m.piece)
    /\ \A m \in net : m.kind = "answer" => Honest(m)
    /\ judging # NoAnswer => Honest(judging)

\* What a verdict rests on: the target of the challenge has the piece verified.
Shown(c) == /\ challenge[c].target \in Peers
            /\ challenge[c].piece \in verified[challenge[c].target]

Verdicts ==
    \A c \in Challenges :
        /\ event[c].ok => c \in Begun /\ Shown(c)
        /\ challenge[c].at = "true" => c \in Begun /\ Shown(c)

\* The inductive invariant.
IInv == Types /\ Answers /\ VerifiedWasProved /\ Verdicts

LEMMA InitIInv == Init => IInv
<1> SUFFICES ASSUME Init PROVE IInv
  OBVIOUS
<1>1. Types
  <2>1. MaxChallenges \in Nat /\ Self \in Nodes
    BY ChallengeAssumption
  <2>2. /\ used \in [challenges : Nat, repairs : Nat, ages : Nat, spoils : Nat]
        /\ used.challenges = 0
    BY DEF Init
  <2> QED
    BY <2>1, <2>2 DEF Init, Types, NoChallenge, NoEvent
<1>2. Answers
  BY DEF Init, Answers
<1>3. VerifiedWasProved
  BY DEF Init, VerifiedWasProved
<1>4. Verdicts
  BY DEF Init, Verdicts, NoChallenge, NoEvent
<1> QED
  BY <1>1, <1>2, <1>3, <1>4 DEF IInv

\* A step that neither makes nor judges nor answers a challenge, and takes
\* messages away or adds some that are not about one.
LEMMA ElsewhereStep ==
    ASSUME IInv,
           UNCHANGED <<challenge, event, judging, verified, proved>>,
           used' \in [challenges : Nat, repairs : Nat, ages : Nat, spoils : Nat],
           used'.challenges = used.challenges,
           store' \in [Nodes -> [Pieces -> {"good", "bad", "none"}]],
           \A m \in net' : m \in net \/ m.kind \notin {"challenge", "answer"}
    PROVE  IInv'
<1>1. Types'
  BY DEF IInv, Types
<1>2. Begun' = Begun
  BY DEF Begun
<1>3. Answers'
  BY <1>2 DEF IInv, Answers, Honest, Concerns, Proves
<1>4. VerifiedWasProved' /\ Verdicts'
  BY <1>2 DEF IInv, VerifiedWasProved, Verdicts, Shown
<1> QED
  BY <1>1, <1>3, <1>4 DEF IInv

LEMMA ChallengeStep ==
    ASSUME IInv, NEW n \in Peers, NEW p \in Pieces, Challenge(n, p)
    PROVE  IInv'
<1>0. PICK c : c = used.challenges + 1
  OBVIOUS
<1>1. /\ used.challenges \in Nat /\ c \in Challenges /\ c \notin Begun /\ n \in Nodes
      /\ used' \in [challenges : Nat, repairs : Nat, ages : Nat, spoils : Nat]
      /\ used'.challenges = c
  <2>1. used' = [used EXCEPT !.challenges = c] /\ used.challenges < MaxChallenges
    BY <1>0 DEF Challenge
  <2>2. used.challenges \in Nat /\ c \in Nat /\ MaxChallenges \in Nat
    BY <1>0, ChallengeAssumption DEF IInv, Types
  <2>3. c \in Challenges /\ c \notin Begun
    BY <1>0, <2>1, <2>2 DEF Challenges, Begun
  <2> QED
    BY <2>1, <2>2, <2>3 DEF IInv, Types, Peers
<1>2. PICK at \in {"waiting", "false"} :
         challenge' = [challenge EXCEPT ![c] = [target |-> n, piece |-> p, at |-> at]]
  BY <1>0 DEF Challenge
<1>3. \A m \in net' : \/ m \in net
                      \/ m = [kind |-> "challenge", id |-> c, target |-> n, piece |-> p]
  BY <1>0 DEF Challenge
<1>4. UNCHANGED <<store, event, judging, verified, proved>>
  BY DEF Challenge
<1>5. Begun' = Begun \union {c}
  BY <1>0, <1>1 DEF Begun
<1>6. /\ challenge'[c] = [target |-> n, piece |-> p, at |-> at]
      /\ \A d \in Challenges : d # c => challenge'[d] = challenge[d]
  BY <1>1, <1>2 DEF IInv, Types
<1>7. Types'
  <2>1. challenge' \in [Challenges -> [target : Nodes, piece : Pieces \union {0},
                           at : {"none", "waiting", "true", "false", "timeout"}]]
    BY <1>1, <1>2 DEF IInv, Types
  <2>2. used'.challenges <= MaxChallenges
    BY <1>1, ChallengeAssumption DEF Challenges
  <2> QED
    BY <2>1, <2>2, <1>1, <1>4 DEF IInv, Types
<1>8. \A id, q, r : Concerns(id, q, r) => Concerns(id, q, r)'
  <2> SUFFICES ASSUME NEW id, NEW q, NEW r, Concerns(id, q, r)
               PROVE  Concerns(id, q, r)'
    OBVIOUS
  <2>1. id \in Challenges /\ id # c
    BY <1>1, ChallengeAssumption DEF Concerns, Begun, Challenges, IInv, Types
  <2> QED
    BY <2>1, <1>5, <1>6 DEF Concerns
<1>9. Answers'
  <2>1. Concerns(c, n, p)'
    BY <1>5, <1>6 DEF Concerns
  <2>2. \A m : Honest(m) => Honest(m)'
    BY <1>4, <1>8 DEF Honest, Proves
  <2>3. ASSUME NEW m \in net', m.kind = "challenge"
        PROVE  Concerns(m.id, m.target, m.piece)'
    <3>1. CASE m \in net
      BY <2>3, <3>1, <1>8 DEF IInv, Answers
    <3>2. CASE m \notin net
      <4>1. m.id = c /\ m.target = n /\ m.piece = p
        BY <3>2, <1>3
      <4> QED
        BY <4>1, <2>1
    <3> QED
      BY <3>1, <3>2
  <2>4. \A m \in net' : m.kind = "answer" => Honest(m)'
    BY <2>2, <1>3 DEF IInv, Answers
  <2>5. judging' # NoAnswer => Honest(judging)'
    BY <2>2, <1>4 DEF IInv, Answers
  <2> QED
    BY <2>3, <2>4, <2>5, <1>4 DEF Answers
<1>10. VerifiedWasProved'
  BY <1>4 DEF IInv, VerifiedWasProved
<1>11. Verdicts'
  BY <1>1, <1>4, <1>5, <1>6 DEF IInv, Verdicts, Shown
<1> QED
  BY <1>7, <1>9, <1>10, <1>11 DEF IInv

\* The thread of a challenge returns: "true" only where the event says so.
LEMMA ReturnStep ==
    ASSUME IInv, NEW c \in Challenges, NEW how \in {"true", "false", "timeout"},
           Returns(c, how), how = "true" => event[c].ok
    PROVE  IInv'
<1>1. UNCHANGED <<store, event, judging, verified, net, proved, used>>
  BY DEF Returns
<1>2. /\ challenge' = [challenge EXCEPT ![c].at = how]
      /\ \A d \in Challenges : /\ challenge'[d].target = challenge[d].target
                               /\ challenge'[d].piece = challenge[d].piece
                               /\ challenge'[d].at \in {challenge[d].at, how}
                               /\ d # c => challenge'[d] = challenge[d]
  BY DEF Returns, IInv, Types
<1>3. Types'
  BY <1>1, <1>2 DEF IInv, Types
<1>4. Begun' = Begun /\ Begun \subseteq Challenges
  BY <1>1, ChallengeAssumption DEF Begun, IInv, Types, Challenges
<1>5. Answers'
  BY <1>1, <1>2, <1>4 DEF IInv, Answers, Honest, Concerns, Proves
<1>6. VerifiedWasProved'
  BY <1>1 DEF IInv, VerifiedWasProved
<1>7. Verdicts'
  BY <1>1, <1>2, <1>4 DEF IInv, Verdicts, Shown
<1> QED
  BY <1>3, <1>5, <1>6, <1>7 DEF IInv

LEMMA FinishStep ==
    ASSUME IInv, NEW c \in Challenges, Finish(c)
    PROVE  IInv'
<1>1. CASE event[c].ok
  BY <1>1, ReturnStep DEF Finish
<1>2. CASE ~event[c].ok
  BY <1>2, ReturnStep DEF Finish
<1> QED
  BY <1>1, <1>2

LEMMA ExpireStep ==
    ASSUME IInv, NEW c \in Challenges, Expire(c)
    PROVE  IInv'
BY ReturnStep DEF Expire

\* Only the addressed node answers, and with what it has.
LEMMA AnswerStep ==
    ASSUME IInv, NEW m \in net, NEW n \in Peers, Answer(m, n)
    PROVE  IInv'
<1>0. PICK a : a = [kind |-> "answer", id |-> m.id, source |-> n, piece |-> m.piece,
                    data |-> store[n][m.piece]]
  OBVIOUS
<1>1. UNCHANGED <<store, challenge, event, judging, verified, used>>
  BY DEF Answer, possession
<1>2. Concerns(m.id, n, m.piece) /\ m.piece \in Pieces
  BY DEF Answer, IsAddressed, IInv, Answers, Concerns
<1>3. net' = (net \ {m}) \union {a}
  BY <1>0 DEF Answer
<1>4. /\ proved' \in [Peers -> SUBSET Pieces]
      /\ \A q \in Peers : proved[q] \subseteq proved'[q]
      /\ store[n][m.piece] = "good" => m.piece \in proved'[n]
  BY <1>2 DEF Answer, IInv, Types
<1>5. Types'
  BY <1>1, <1>4 DEF IInv, Types
<1>6. \A id, q, r : Concerns(id, q, r)' <=> Concerns(id, q, r)
  BY <1>1 DEF Concerns, Begun
<1>7. \A x : Honest(x) => Honest(x)'
  <2> SUFFICES ASSUME NEW x, Honest(x) PROVE Honest(x)'
    OBVIOUS
  <2>1. Concerns(x.id, x.source, x.piece)' /\ x.source \in Peers
    BY <1>6 DEF Honest, Concerns
  <2>2. Proves(x) => x.piece \in proved'[x.source]
    BY <1>4, <2>1 DEF Honest
  <2> QED
    BY <2>1, <2>2 DEF Honest, Proves
<1>8. a.kind = "answer" /\ Honest(a)'
  <2>1. a.id = m.id /\ a.source = n /\ a.piece = m.piece /\ a.data = store[n][m.piece]
    BY <1>0
  <2>2. a.kind = "answer"
    BY <1>0
  <2> QED
    BY <2>1, <2>2, <1>2, <1>4, <1>6 DEF Honest, Proves
<1>9. Answers'
  BY <1>1, <1>3, <1>6, <1>7, <1>8 DEF IInv, Answers
<1>10. VerifiedWasProved'
  BY <1>1, <1>4 DEF IInv, VerifiedWasProved
<1>11. Verdicts'
  BY <1>1 DEF IInv, Verdicts, Shown, Begun
<1> QED
  BY <1>5, <1>9, <1>10, <1>11 DEF IInv

LEMMA ReceiveStep ==
    ASSUME IInv, NEW m \in net, Receive(m)
    PROVE  IInv'
<1>1. UNCHANGED <<store, challenge, event, verified, proved, used>>
  BY DEF Receive
<1>2. Honest(m) /\ net' \subseteq net /\ judging' \in {m, NoAnswer}
  BY DEF Receive, IInv, Answers
<1>3. \A id, q, r : Concerns(id, q, r)' <=> Concerns(id, q, r)
  BY <1>1 DEF Concerns, Begun
<1>4. Answers'
  <2>1. \A x : Honest(x) => Honest(x)'
    BY <1>1, <1>3 DEF Honest, Proves
  <2> QED
    BY <1>2, <1>3, <2>1 DEF IInv, Answers
<1>5. Types' /\ VerifiedWasProved' /\ Verdicts'
  BY <1>1 DEF IInv, Types, VerifiedWasProved, Verdicts, Shown, Begun
<1> QED
  BY <1>4, <1>5 DEF IInv

\* What is verified of the sender it proved, and the sender is the target.
LEMMA JudgeStep ==
    ASSUME IInv, Judge
    PROVE  IInv'
<1> DEFINE m == judging
<1>1. UNCHANGED <<store, net, challenge, proved, used>> /\ judging' = NoAnswer
  BY DEF Judge
<1>2. Honest(m) /\ Concerns(m.id, m.source, m.piece)
  BY DEF Judge, IInv, Answers, Honest
<1>3. m.id \in Challenges /\ m.source \in Peers /\ m.piece \in Pieces
  BY <1>2, ChallengeAssumption DEF Concerns, Begun, Challenges, IInv, Types
<1>4. /\ event' = [event EXCEPT ![m.id] = [done |-> TRUE, ok |-> Proves(m)]]
      /\ verified' = IF Proves(m) THEN [verified EXCEPT ![m.source] = @ \union {m.piece}]
                     ELSE verified
  BY DEF Judge
<1>5. Proves(m) \in BOOLEAN
  BY DEF Proves
<1> HIDE DEF m
<1>6. /\ verified' \in [Peers -> SUBSET Pieces]
      /\ \A q \in Peers : verified[q] \subseteq verified'[q]
      /\ \A q \in Peers : \A r \in verified'[q] :
             r \in verified[q] \/ (Proves(m) /\ q = m.source /\ r = m.piece)
      /\ Proves(m) => m.piece \in verified'[m.source]
  BY <1>3, <1>4 DEF IInv, Types
<1>7. Types'
  BY <1>1, <1>3, <1>4, <1>5, <1>6 DEF IInv, Types
<1>8. Begun' = Begun
  BY <1>1 DEF Begun
<1>9. Answers'
  BY <1>1, <1>8 DEF IInv, Answers, Honest, Concerns, Proves
<1>10. VerifiedWasProved'
  BY <1>1, <1>2, <1>6 DEF IInv, VerifiedWasProved, Honest
<1>11. \A c \in Challenges : Shown(c) => Shown(c)'
  BY <1>1, <1>6 DEF Shown
<1>12. Verdicts'
  <2> SUFFICES ASSUME NEW c \in Challenges
               PROVE  /\ event'[c].ok => c \in Begun /\ Shown(c)'
                      /\ challenge[c].at = "true" => c \in Begun /\ Shown(c)'
    BY <1>1, <1>8 DEF Verdicts
  <2>1. CASE c = m.id
    <3>1. event'[c].ok = Proves(m)
      BY <2>1, <1>3, <1>4 DEF IInv, Types
    <3>2. Proves(m) => Shown(c)'
      BY <2>1, <1>1, <1>2, <1>6 DEF Shown, Concerns
    <3> QED
      BY <2>1, <3>1, <3>2, <1>2, <1>11 DEF IInv, Verdicts, Concerns
  <2>2. CASE c # m.id
    <3>1. event'[c] = event[c]
      BY <2>2, <1>4 DEF IInv, Types
    <3> QED
      BY <3>1, <1>11 DEF IInv, Verdicts
  <2> QED
    BY <2>1, <2>2
<1> QED
  BY <1>7, <1>9, <1>10, <1>12 DEF IInv

\* A transfer verifies on receiving what its sender has.
LEMMA TransferStep ==
    ASSUME IInv, NEW n \in Peers, NEW p \in Pieces, Transfer(n, p)
    PROVE  IInv'
<1>1. UNCHANGED <<net, challenge, event, judging>>
  BY DEF Transfer
<1>2. /\ used'.challenges = used.challenges + 1
      /\ used.challenges \in Nat /\ used'.challenges <= MaxChallenges
      /\ used' \in [challenges : Nat, repairs : Nat, ages : Nat, spoils : Nat]
  BY ChallengeAssumption DEF Transfer, IInv, Types
<1>3. /\ verified' \in [Peers -> SUBSET Pieces] /\ proved' \in [Peers -> SUBSET Pieces]
      /\ \A q \in Peers : verified[q] \subseteq verified'[q] /\ proved[q] \subseteq proved'[q]
      /\ VerifiedWasProved'
  <2>1. CASE store[n][p] = "good"
    <3>1. /\ verified' = [verified EXCEPT ![n] = @ \union {p}]
          /\ proved' = [proved EXCEPT ![n] = @ \union {p}]
      BY <2>1 DEF Transfer
    <3> QED
      BY <3>1 DEF IInv, Types, VerifiedWasProved
  <2>2. CASE store[n][p] # "good"
    <3>1. UNCHANGED <<verified, proved>>
      BY <2>2 DEF Transfer
    <3> QED
      BY <3>1 DEF IInv, Types, VerifiedWasProved
  <2> QED
    BY <2>1, <2>2
<1>4. store' \in [Nodes -> [Pieces -> {"good", "bad", "none"}]]
  BY DEF Transfer, IInv, Types
<1>5. Types'
  BY <1>1, <1>2, <1>3, <1>4 DEF IInv, Types
<1>6. Begun \subseteq Begun'
  BY <1>2 DEF Begun
<1>7. \A id, q, r : Concerns(id, q, r) => Concerns(id, q, r)'
  BY <1>1, <1>6 DEF Concerns
<1>8. Answers'
  <2>1. \A m : Honest(m) => Honest(m)'
    BY <1>3, <1>7 DEF Honest, Concerns, Proves
  <2> QED
    BY <2>1, <1>1, <1>7 DEF IInv, Answers
<1>9. Verdicts'
  BY <1>1, <1>3, <1>6 DEF IInv, Verdicts, Shown
<1> QED
  BY <1>3, <1>5, <1>8, <1>9 DEF IInv

LEMMA NextIInv == IInv /\ [Next]_vars => IInv'
<1> SUFFICES ASSUME IInv, [Next]_vars PROVE IInv'
  OBVIOUS
<1>1. ASSUME NEW n \in Peers, NEW p \in Pieces, Challenge(n, p) PROVE IInv'
  BY <1>1, ChallengeStep
<1>2. ASSUME NEW n \in Peers, NEW p \in Pieces, Transfer(n, p) PROVE IInv'
  BY <1>2, TransferStep
<1>3. ASSUME NEW c \in Challenges, Finish(c) PROVE IInv'
  BY <1>3, FinishStep
<1>4. ASSUME NEW c \in Challenges, Expire(c) PROVE IInv'
  BY <1>4, ExpireStep
<1>5. ASSUME NEW m \in net, NEW n \in Peers, Answer(m, n) PROVE IInv'
  BY <1>5, AnswerStep
<1>6. ASSUME NEW m \in net, Receive(m) PROVE IInv'
  BY <1>6, ReceiveStep
<1>7. CASE Judge
  BY <1>7, JudgeStep
<1>8. ASSUME NEW m \in net, Acquire(m) PROVE IInv'
  BY <1>8, ElsewhereStep DEF Acquire, possession, IInv, Types
<1>9. ASSUME NEW n \in Nodes, Beat(n) PROVE IInv'
  BY <1>9, ElsewhereStep DEF Beat, possession, IInv, Types
<1>10. ASSUME NEW n \in Nodes, Age(n) PROVE IInv'
  BY <1>10, ElsewhereStep DEF Age, possession, IInv, Types
<1>11. CASE ListCandidates
  BY <1>11, ElsewhereStep DEF ListCandidates, possession, IInv, Types
<1>12. CASE StrikeStale
  BY <1>12, ElsewhereStep DEF StrikeStale, possession, IInv, Types
<1>13. CASE RunRepair
  BY <1>13, ElsewhereStep DEF RunRepair, possession, IInv, Types
<1>14. CASE PlaceShards
  BY <1>14, ElsewhereStep DEF PlaceShards, possession, IInv, Types
<1>15. ASSUME NEW n \in Peers, NEW p \in Pieces, NEW how \in {"bad", "none"}, Spoil(n, p, how)
       PROVE  IInv'
  <2>1. store' \in [Nodes -> [Pieces -> {"good", "bad", "none"}]]
    BY <1>15 DEF Spoil, IInv, Types, Peers
  <2> QED
    BY <1>15, <2>1, ElsewhereStep DEF Spoil, possession, IInv, Types
<1>16. CASE UNCHANGED vars
  BY <1>16, ElsewhereStep DEF vars, possession, IInv, Types
<1> QED
  BY <1>1, <1>2, <1>3, <1>4, <1>5, <1>6, <1>7, <1>8, <1>9, <1>10, <1>11, <1>12,
     <1>13, <1>14, <1>15, <1>16 DEF Next

LEMMA AlwaysIInv == Spec => []IInv
BY InitIInv, NextIInv, PTL DEF Spec

(* Whatever is lost, late, damaged or misdirected, only a node that once     *)
(* proved a piece of its own counts as holding it.                          *)
THEOREM HoldersProvedIt == Spec => []VerifiedWasProved
<1>1. IInv => VerifiedWasProved
  BY DEF IInv
<1> QED
  BY <1>1, AlwaysIInv, PTL

(* A challenge returns true for its own target and piece, however many others *)
(* are pending, and whatever is judged after its time is over.               *)
THEOREM TrueVerdictsAreOfTheTarget == Spec => []TrueIsOfTarget
<1>1. IInv => TrueIsOfTarget
  BY DEF IInv, Verdicts, Shown, TrueIsOfTarget
<1> QED
  BY <1>1, AlwaysIInv, PTL

----------------------------------------------------------------------------
(* Choosing the best few of a finite set.                                   *)

\* Induction over the subsets of a finite set: none is the smallest bad one.
LEMMA NoSmallestBad ==
    ASSUME NEW S, IsFiniteSet(S), NEW Bad \in SUBSET SUBSET S,
           \A T \in Bad : \E U \in Bad : U \subseteq T /\ U # T
    PROVE  Bad = {}
<1> SUFFICES ASSUME Bad # {} PROVE FALSE
  OBVIOUS
<1>1. FiniteSubsetsOf(S) = SUBSET S
  BY FS_FiniteSubsetsOfFinite
<1>2. IsWellFoundedOn(StrictSubsetOrdering(S), SUBSET S)
  <2>1. IsWellFoundedOn(StrictSubsetOrdering(S), FiniteSubsetsOf(S))
    BY FS_StrictSubsetOrderingWellFounded
  <2> QED
    BY <1>1, <2>1
<1>3. PICK T \in Bad : \A U \in Bad : <<U, T>> \notin StrictSubsetOrdering(S)
  BY <1>2, WFMin
<1>4. PICK U \in Bad : U \subseteq T /\ U # T
  OBVIOUS
<1>5. <<U, T>> \in StrictSubsetOrdering(S)
  BY <1>4 DEF StrictSubsetOrdering
<1> QED
  BY <1>3, <1>5

\* A strict total order on S, given by what comes before each of its members.
Ordered(S, Ahead) ==
    /\ Ahead \in [S -> SUBSET S]
    /\ \A n \in S : n \notin Ahead[n]
    /\ \A m, n \in S : m \in Ahead[n] => Ahead[m] \subseteq Ahead[n]
    /\ \A m, n \in S : m = n \/ m \in Ahead[n] \/ n \in Ahead[m]

\* The members with fewer than k ahead of them are k, unless there are not
\* so many.
LEMMA TheBestFew ==
    ASSUME NEW S, IsFiniteSet(S), NEW Ahead, Ordered(S, Ahead), NEW k \in Nat,
           NEW T, T = {n \in S : Cardinality(Ahead[n]) < k}
    PROVE  /\ IsFiniteSet(T) /\ Cardinality(T) \in Nat
           /\ Cardinality(T) <= k
           /\ T = S \/ Cardinality(T) >= k
<1>1. IsFiniteSet(T) /\ Cardinality(T) \in Nat
  BY FS_Subset, FS_CardinalityType
<1>2. \A n \in S : /\ Ahead[n] \subseteq S /\ IsFiniteSet(Ahead[n])
                   /\ Cardinality(Ahead[n]) \in Nat
  BY FS_Subset, FS_CardinalityType DEF Ordered
<1>3. ASSUME NEW m \in S, NEW n \in S, m \in Ahead[n]
      PROVE  /\ Ahead[m] \subseteq Ahead[n] /\ Ahead[m] # Ahead[n]
             /\ Cardinality(Ahead[m]) < Cardinality(Ahead[n])
  <2>1. Ahead[m] \subseteq Ahead[n] /\ Ahead[m] # Ahead[n]
    BY <1>3 DEF Ordered
  <2>2. /\ Cardinality(Ahead[m]) <= Cardinality(Ahead[n])
        /\ Cardinality(Ahead[n]) # Cardinality(Ahead[m])
    BY <1>2, <2>1, FS_Subset
  <2> QED
    BY <1>2, <2>1, <2>2
<1>4. Cardinality(T) <= k
  <2> DEFINE place == [n \in T |-> Cardinality(Ahead[n])]
  <2>1. place \in [T -> 0..(k - 1)]
    BY <1>2
  <2>2. ASSUME NEW m \in T, NEW n \in T, place[m] = place[n]
        PROVE  m = n
    <3>1. m \in S /\ n \in S /\ Cardinality(Ahead[m]) = Cardinality(Ahead[n])
      BY <2>2
    <3>2. m = n \/ m \in Ahead[n] \/ n \in Ahead[m]
      BY <3>1 DEF Ordered
    <3> QED
      BY <3>1, <3>2, <1>2, <1>3
  <2>3. place \in Injection(T, 0..(k - 1))
    BY <2>1, <2>2 DEF Injection, IsInjective
  <2>4. IsFiniteSet(0..(k - 1)) /\ Cardinality(0..(k - 1)) <= k
    BY FS_Interval
  <2>5. Cardinality(0..(k - 1)) \in Nat
    BY <2>4, FS_CardinalityType
  <2>6. Cardinality(T) <= Cardinality(0..(k - 1))
    BY <2>3, <2>4, FS_Injection
  <2> QED
    BY <1>1, <2>4, <2>5, <2>6
<1>5. ASSUME T # S PROVE Cardinality(T) >= k
  <2> DEFINE Bad == {Ahead[n] : n \in S \ T}
  <2>1. Bad \in SUBSET SUBSET S /\ Bad # {}
    BY <1>2, <1>5
  <2>2. PICK A \in Bad : \A U \in Bad : ~(U \subseteq A /\ U # A)
    <3> HIDE DEF Bad
    <3> SUFFICES ASSUME \A A \in Bad : \E U \in Bad : U \subseteq A /\ U # A PROVE FALSE
      OBVIOUS
    <3> QED
      BY <2>1, NoSmallestBad
  <2>3. PICK n \in S \ T : A = Ahead[n]
    OBVIOUS
  <2>4. Ahead[n] \subseteq T
    <3> SUFFICES ASSUME NEW m \in Ahead[n], m \notin T PROVE FALSE
      OBVIOUS
    <3>1. m \in S /\ Ahead[m] \in Bad
      BY <1>2
    <3> QED
      BY <3>1, <2>2, <2>3, <1>3
  <2>5. Cardinality(Ahead[n]) >= k
    BY <1>2
  <2>6. Cardinality(Ahead[n]) <= Cardinality(T)
    BY <1>1, <2>4, FS_Subset
  <2> QED
    BY <1>1, <1>2, <2>5, <2>6
<1> QED
  BY <1>1, <1>4, <1>5

----------------------------------------------------------------------------
(* What is planned from what is verified, listed and known of the nodes.    *)

LEMMA RanksDiffer ==
    /\ \A n \in Nodes : Rank(n) \in Nat
    /\ \A m, n \in Nodes : Rank(m) = Rank(n) => m = n
<1> SUFFICES ASSUME NEW n \in Nodes
             PROVE  Rank(n) \in Nat /\ NameOrder[Rank(n)] = n
  OBVIOUS
<1>1. \E i \in DOMAIN NameOrder : NameOrder[i] = n
  BY PlanAssumption DEF ToSet
<1>2. Rank(n) \in DOMAIN NameOrder /\ NameOrder[Rank(n)] = n
  BY <1>1 DEF Rank
<1> QED
  BY <1>2, PlanAssumption

LEMMA GainsAreNumbers ==
    ASSUME NEW t, NEW v, NEW n
    PROVE  RepairGain(t, v, n) \in Nat
BY DEF RepairGain, Worth, Weight

\* The targets are candidates that are not verified, as many as are lacking.
LEMMA TargetsFillTheGap ==
    ASSUME NEW t, NEW V \in SUBSET Nodes, NEW L \in SUBSET Nodes,
           NEW T, T = RepairTargets(t, V, L)
    PROVE  /\ Cardinality(V \union T) >= Policy.holders \/ L \subseteq V \union T
           /\ Cardinality(V) < Policy.holders => Cardinality(V \union T) <= Policy.holders
           /\ T = {} /\ Deficits(t, V) # {} => L \subseteq V
<1> DEFINE open == L \ V
           gain == [n \in open |-> RepairGain(t, V, n)]
           before(m, n) == gain[m] > gain[n] \/ (gain[m] = gain[n] /\ Rank(m) < Rank(n))
           need == IF Cardinality(V) < Policy.holders
                   THEN Policy.holders - Cardinality(V)
                   ELSE IF Deficits(t, V) # {} THEN 2 ELSE 0
           Ahead == [n \in open |-> {m \in open : before(m, n)}]
<1>1. T = {n \in open : Cardinality({m \in open : before(m, n)}) < need}
  BY DEF RepairTargets
<1>2. /\ IsFiniteSet(V) /\ Cardinality(V) \in Nat /\ IsFiniteSet(open)
      /\ Policy.holders \in Nat
  BY PlanAssumption, FS_Subset, FS_CardinalityType
<1>3. need \in Nat
  BY <1>2
<1>4. T = {n \in open : Cardinality(Ahead[n]) < need}
  BY <1>1
<1>5. Ordered(open, Ahead)
  <2>1. \A n \in open : gain[n] \in Nat /\ Rank(n) \in Nat
    BY GainsAreNumbers, RanksDiffer
  <2>2. \A m, n \in open : Rank(m) = Rank(n) => m = n
    BY RanksDiffer
  <2> HIDE DEF gain
  <2>3. \A m, n \in open : m \in Ahead[n] <=> before(m, n)
    OBVIOUS
  <2>4. Ahead \in [open -> SUBSET open]
    OBVIOUS
  <2> HIDE DEF Ahead, open
  <2>5. \A n \in open : ~before(n, n)
    BY <2>1
  <2>6. \A l, m, n \in open : before(l, m) /\ before(m, n) => before(l, n)
    BY <2>1
  <2>7. \A m, n \in open : m = n \/ before(m, n) \/ before(n, m)
    BY <2>1, <2>2
  <2> HIDE DEF before
  <2>8. \A m, n \in open : m \in Ahead[n] => Ahead[m] \subseteq Ahead[n]
    BY <2>3, <2>4, <2>6
  <2> QED
    BY <2>3, <2>4, <2>5, <2>7, <2>8 DEF Ordered
<1> HIDE DEF Ahead, before, gain
<1>6. /\ IsFiniteSet(T) /\ Cardinality(T) \in Nat
      /\ Cardinality(T) <= need /\ (T = open \/ Cardinality(T) >= need)
  <2> HIDE DEF open, need
  <2> QED
    BY <1>2, <1>3, <1>4, <1>5, TheBestFew
<1>7. /\ IsFiniteSet(V \union T)
      /\ Cardinality(V \union T) = Cardinality(V) + Cardinality(T)
  <2>1. V \intersect T = {} /\ Cardinality({}) = 0
    BY <1>4, FS_EmptySet
  <2>2. Cardinality(V \union T) = Cardinality(V) + Cardinality(T) - Cardinality(V \intersect T)
    BY <1>2, <1>6, FS_Union
  <2>3. IsFiniteSet(V \union T)
    BY <1>2, <1>6, FS_Union
  <2> HIDE DEF open, need
  <2> QED
    BY <2>1, <2>2, <2>3, <1>2, <1>6
<1>8. ASSUME T = {}, Deficits(t, V) # {} PROVE L \subseteq V
  <2>1. Cardinality(T) = 0 /\ need > 0
    BY <1>2, <1>8, FS_EmptySet
  <2> QED
    BY <1>3, <1>6, <1>8, <2>1
<1> QED
  BY <1>2, <1>6, <1>7, <1>8

\* Nodes of different sites share no failure domain.
NestedSites ==
    \A m, n \in Nodes :
        Sited[m].site # Sited[n].site => \A d \in Domains : Sited[m][d] # Sited[n][d]

\* A registry that tells of the nodes it knows where they stand.
Charted(t) == DOMAIN t \subseteq Nodes /\ \A n \in DOMAIN t : t[n] = Sited[n]

Seconds(t, p, k) == \E h \in 1..(k - 1) : p[h] \in DOMAIN t /\ t[p[h]].site = t[p[k]].site

Spread(t, p) ==
    /\ IsInjective(p)
    /\ \A j, k \in DOMAIN p : /\ p[j] \in DOMAIN t /\ p[k] \in DOMAIN t
                              /\ j < k /\ Seconds(t, p, j)
                              => Seconds(t, p, k)

\* Every set of naturals that is not empty has a least element.
LEMMA LeastExists ==
    ASSUME NEW T \in SUBSET Nat, T # {}
    PROVE  \E x \in T : \A y \in T : x <= y
<1> DEFINE R == OpToRel(<, Nat)
<1>1. IsWellFoundedOn(R, Nat)
  BY NatLessThanWellFounded
<1>2. \E x \in T : \A y \in T : ~ (<<y, x>> \in R)
  <2> HIDE DEF R
  <2> QED
    BY <1>1, WFMin
<1>3. \A x, y \in T : <<y, x>> \notin R => x <= y
  BY DEF OpToRel
<1> QED
  BY <1>2, <1>3

\* The placements of 0 to n shards, as Placements defines them.
PlacedUpTo(n, t, L, place) ==
    place = [k \in 0..n |-> IF k = 0 THEN {<<>>} ELSE Extended(t, L, place[k - 1])]

LEMMA PlacingIsDefined ==
    ASSUME NEW n \in Nat, NEW t, NEW L
    PROVE  \E place : PlacedUpTo(n, t, L, place)
<1> DEFINE Missing == {k \in Nat : ~\E place : PlacedUpTo(k, t, L, place)}
<1> SUFFICES ASSUME Missing # {} PROVE FALSE
  OBVIOUS
<1>1. PICK k \in Missing : \A i \in Missing : k <= i
  <2> HIDE DEF Missing
  <2>1. Missing \subseteq Nat
    BY DEF Missing
  <2> QED
    BY <2>1, LeastExists
<1>2. CASE k = 0
  <2>1. PlacedUpTo(0, t, L, [i \in 0..0 |-> {<<>>}])
    BY DEF PlacedUpTo
  <2> QED
    BY <1>2, <2>1
<1>3. CASE k # 0
  <2>1. k - 1 \in Nat /\ k - 1 \notin Missing
    BY <1>1, <1>3
  <2>2. PICK f : PlacedUpTo(k - 1, t, L, f)
    BY <2>1
  <2> DEFINE g == [i \in 0..k |-> IF i = k THEN Extended(t, L, f[k - 1]) ELSE f[i]]
  <2>3. \A i \in 0..(k - 1) : f[i] = IF i = 0 THEN {<<>>} ELSE Extended(t, L, f[i - 1])
    BY <2>2 DEF PlacedUpTo
  <2>4. \A i \in 0..k : g[i] = IF i = 0 THEN {<<>>} ELSE Extended(t, L, g[i - 1])
    <3> SUFFICES ASSUME NEW i \in 0..k
                 PROVE  g[i] = IF i = 0 THEN {<<>>} ELSE Extended(t, L, g[i - 1])
      OBVIOUS
    <3>1. CASE i = k
      <4>1. g[i] = Extended(t, L, f[i - 1])
        BY <3>1
      <4>2. i # 0 /\ g[i - 1] = f[i - 1]
        BY <1>3, <2>1, <3>1
      <4> QED
        BY <4>1, <4>2
    <3>2. CASE i # k
      <4>1. i \in 0..(k - 1) /\ g[i] = f[i]
        BY <2>1, <3>2
      <4>2. i # 0 => g[i - 1] = f[i - 1]
        BY <2>1, <3>2
      <4> QED
        BY <4>1, <4>2, <2>3
    <3> QED
      BY <3>1, <3>2
  <2>5. PlacedUpTo(k, t, L, g)
    <3>1. g = [i \in 0..k |-> g[i]]
      OBVIOUS
    <3> HIDE DEF g
    <3> QED
      BY <2>4, <3>1 DEF PlacedUpTo
  <2> QED
    BY <2>5
<1> QED
  BY <1>2, <1>3

\* Every shard is on a candidate that was not chosen before it and is as good
\* as any other of these.
Chosen(p, k) == {p[i] : i \in 1..(k - 1)}
Greedy(t, L, p) ==
    /\ p \in Seq(L)
    /\ \A k \in DOMAIN p : p[k] \in BestCandidates(t, Chosen(p, k), L \ Chosen(p, k))

LEMMA ExtendedIsGreedy ==
    ASSUME NEW t, NEW L, NEW S, \A p \in S : Greedy(t, L, p), NEW q \in Extended(t, L, S)
    PROVE  Greedy(t, L, q)
<1>1. PICK p \in S : \/ q = p
                     \/ \E n \in BestCandidates(t, ToSet(p), L \ ToSet(p)) : q = Append(p, n)
  BY DEF Extended
<1>2. CASE q = p
  BY <1>2
<1>3. CASE q # p
  <2>1. PICK n \in BestCandidates(t, ToSet(p), L \ ToSet(p)) : q = Append(p, n)
    BY <1>1, <1>3
  <2>2. n \in L /\ p \in Seq(L)
    BY <2>1 DEF BestCandidates, Greedy
  <2>3. /\ q \in Seq(L) /\ DOMAIN q = 1..(Len(p) + 1) /\ DOMAIN p = 1..Len(p)
        /\ Len(p) \in Nat
        /\ \A i \in 1..Len(p) : q[i] = p[i]
        /\ q[Len(p) + 1] = n
    BY <2>1, <2>2
  <2>4. \A k \in 1..(Len(p) + 1) : Chosen(q, k) = Chosen(p, k)
    BY <2>3 DEF Chosen
  <2>5. Chosen(q, Len(p) + 1) = ToSet(p)
    <3>1. Chosen(p, Len(p) + 1) = {p[i] : i \in 1..Len(p)}
      BY <2>3 DEF Chosen
    <3> QED
      BY <3>1, <2>3, <2>4 DEF ToSet
  <2>6. \A k \in 1..Len(p) : p[k] \in BestCandidates(t, Chosen(p, k), L \ Chosen(p, k))
    BY <2>3 DEF Greedy
  <2>7. ASSUME NEW k \in DOMAIN q
        PROVE  q[k] \in BestCandidates(t, Chosen(q, k), L \ Chosen(q, k))
    <3>1. CASE k = Len(p) + 1
      BY <3>1, <2>1, <2>3, <2>5
    <3>2. CASE k # Len(p) + 1
      <4>1. k \in 1..Len(p)
        BY <3>2, <2>3
      <4> QED
        BY <4>1, <2>3, <2>4, <2>6
    <3> QED
      BY <3>1, <3>2
  <2> QED
    BY <2>3, <2>7 DEF Greedy
<1> QED
  BY <1>2, <1>3

LEMMA PlacementsAreGreedy ==
    ASSUME NEW t, NEW L, NEW p \in Placements(t, L)
    PROVE  Greedy(t, L, p)
<1> DEFINE N == Policy.shards
           place == CHOOSE f : PlacedUpTo(N, t, L, f)
<1>0. N \in Nat
  BY PlanAssumption
<1>1. Placements(t, L) = place[N]
  BY DEF Placements, PlacedUpTo
<1>2. PlacedUpTo(N, t, L, place)
  BY <1>0, PlacingIsDefined
<1> HIDE DEF place, N
<1>3. \A k \in 0..N : place[k] = IF k = 0 THEN {<<>>} ELSE Extended(t, L, place[k - 1])
  BY <1>2 DEF PlacedUpTo
<1> DEFINE Bad == {k \in 0..N : \E q \in place[k] : ~Greedy(t, L, q)}
<1>4. ASSUME Bad # {} PROVE FALSE
  <2>1. PICK k \in Bad : \A i \in Bad : k <= i
    <3>1. Bad \in SUBSET Nat
      BY <1>0
    <3> HIDE DEF Bad
    <3> QED
      BY <3>1, <1>4, LeastExists
  <2>2. CASE k = 0
    <3>1. Greedy(t, L, <<>>)
      BY DEF Greedy
    <3>2. place[k] = {<<>>}
      BY <1>3, <2>2
    <3> QED
      BY <3>1, <3>2
  <2>3. CASE k # 0
    <3>1. k - 1 \in 0..N /\ k - 1 \notin Bad
      BY <1>0, <2>1, <2>3
    <3>2. place[k] = Extended(t, L, place[k - 1])
      BY <1>3, <2>3
    <3>3. \A q \in place[k - 1] : Greedy(t, L, q)
      BY <3>1
    <3> QED
      BY <3>2, <3>3, ExtendedIsGreedy
  <2> QED
    BY <2>2, <2>3
<1> QED
  BY <1>0, <1>1, <1>4

LEMMA PlacementsSpread ==
    ASSUME NestedSites, NEW t, Charted(t), NEW L \in SUBSET Nodes, NEW p \in Placements(t, L)
    PROVE  p \in Seq(Nodes) /\ Spread(t, p)
<1> DEFINE chosen(k) == {p[i] : i \in 1..(k - 1)}
<1>1. Greedy(t, L, p)
  BY PlacementsAreGreedy
<1>2. p \in Seq(L) /\ Len(p) \in Nat /\ DOMAIN p = 1..Len(p)
  BY <1>1 DEF Greedy
<1>3. p \in Seq(Nodes)
  BY <1>2
<1>4. ASSUME NEW k \in DOMAIN p
      PROVE  /\ p[k] \in L \ chosen(k)
             /\ \A m \in L \ chosen(k) :
                    PlacementGain(t, chosen(k), p[k]) >= PlacementGain(t, chosen(k), m)
  <2>1. p[k] \in BestCandidates(t, chosen(k), L \ chosen(k))
    BY <1>1, <1>4 DEF Greedy, Chosen
  <2> QED
    BY <2>1 DEF BestCandidates
<1>5. IsInjective(p)
  <2> SUFFICES ASSUME NEW a \in DOMAIN p, NEW b \in DOMAIN p, p[a] = p[b], a < b PROVE FALSE
    BY <1>2 DEF IsInjective
  <2>1. a \in 1..(b - 1)
    BY <1>2
  <2> QED
    BY <2>1, <1>4
<1>6. ASSUME NEW j \in DOMAIN p, NEW k \in DOMAIN p, p[j] \in DOMAIN t, p[k] \in DOMAIN t,
             j < k, Seconds(t, p, j), ~Seconds(t, p, k)
      PROVE  FALSE
  <2>1. p[k] \in L \ chosen(j)
    <3>1. \A i \in 1..(j - 1) : i \in DOMAIN p /\ i # k
      BY <1>2, <1>6
    <3> QED
      BY <3>1, <1>4, <1>5 DEF IsInjective
  <2>2. PlacementGain(t, chosen(j), p[k]) = 13
    <3>1. \A m \in chosen(j) \intersect DOMAIN t : t[m].site # t[p[k]].site
      BY <1>2, <1>6 DEF Seconds
    <3>2. \A m \in chosen(j) \intersect DOMAIN t : \A d \in Domains : t[m][d] # t[p[k]][d]
      BY <3>1, <1>6 DEF NestedSites, Charted
    <3>3. {d \in Domains : \A m \in chosen(j) \intersect DOMAIN t : t[m][d] # t[p[k]][d]} = Domains
      BY <3>2
    <3> QED
      BY <3>3, <1>6 DEF PlacementGain, Worth, Weight, Domains
  <2>3. PlacementGain(t, chosen(j), p[j]) <= 9
    <3> DEFINE new == {d \in Domains : \A m \in chosen(j) \intersect DOMAIN t :
                                          t[m][d] # t[p[j]][d]}
    <3>1. "site" \notin new
      BY <1>6 DEF Seconds
    <3>2. PlacementGain(t, chosen(j), p[j]) = 1 + Worth(new)
      BY <1>6 DEF PlacementGain
    <3> HIDE DEF new
    <3> QED
      BY <3>1, <3>2 DEF Worth, Weight
  <2>4. PlacementGain(t, chosen(j), p[j]) >= PlacementGain(t, chosen(j), p[k])
    BY <1>4, <2>1
  <2>5. PlacementGain(t, chosen(j), p[j]) \in Nat
    BY DEF PlacementGain, Worth, Weight
  <2> QED
    BY <2>2, <2>3, <2>4, <2>5
<1> QED
  BY <1>3, <1>5, <1>6 DEF Spread

----------------------------------------------------------------------------
(* The plans of a run.                                                      *)

Listings ==
    /\ verified \in [Peers -> SUBSET Pieces]
    /\ active \subseteq Nodes
    /\ repair.listed \subseteq Nodes
    /\ Charted(topo)

PlanInv == Listings /\ placement \in Seq(Nodes) /\ Spread(topo, placement)

LEMMA InitPlan == Init => PlanInv
<1> SUFFICES ASSUME Init PROVE PlanInv
  OBVIOUS
<1>1. PICK ps \in Publishers : topo = LoadedTopology(ps)
  BY DEF Init
<1>2. ps \subseteq Nodes /\ Self \in Nodes
  BY ChallengeAssumption
<1>3. Charted(topo)
  BY <1>1, <1>2 DEF LoadedTopology, Charted
<1>4. placement = <<>> /\ repair.listed = {} /\ active = Nodes
  BY DEF Init, NoRepair
<1>5. verified \in [Peers -> SUBSET Pieces]
  BY DEF Init
<1>6. Spread(topo, placement)
  BY <1>4 DEF Spread, IsInjective
<1> QED
  BY <1>3, <1>4, <1>5, <1>6 DEF PlanInv, Listings

\* What the steps do to the registry, the directory, the listing and the plan.
LEMMA PlanFrame ==
    ASSUME [Next]_vars
    PROVE  /\ UNCHANGED topo
           /\ \/ UNCHANGED active
              \/ \E n \in Nodes : active' = active \union {n}
              \/ active' = active \ repair.stale
           /\ \/ repair' = repair \/ repair' = NoRepair
              \/ repair' = [repair EXCEPT !.at = "plan", !.stale = {}]
              \/ ListCandidates
           /\ UNCHANGED placement \/ placement' \in Placements(topo, repair.listed)
BY DEF Next, vars, possession, directory, Challenge, Transfer, Finish, Expire, Returns,
       Answer, Receive, Acquire, Judge, Beat, Age, ListCandidates, StrikeStale,
       RunRepair, PlaceShards, Spoil

LEMMA NextPlan ==
    ASSUME NestedSites, PlanInv, IInv', [Next]_vars
    PROVE  PlanInv'
<1>1. verified' \in [Peers -> SUBSET Pieces]
  BY DEF IInv, Types
<1>2. UNCHANGED topo
  BY PlanFrame
<1>3. active' \subseteq Nodes
  BY PlanFrame DEF PlanInv, Listings
<1>4. repair'.listed \subseteq Nodes
  <2>1. CASE ListCandidates
    <3>1. repair'.listed \subseteq active
      BY <2>1 DEF ListCandidates
    <3> QED
      BY <3>1 DEF PlanInv, Listings
  <2>2. CASE ~ListCandidates
    <3>1. \/ repair' = repair \/ repair' = NoRepair
          \/ repair' = [repair EXCEPT !.at = "plan", !.stale = {}]
      BY <2>2, PlanFrame
    <3>2. CASE repair' = [repair EXCEPT !.at = "plan", !.stale = {}]
      <4>1. repair'.listed = repair.listed
        BY <3>2
      <4> QED
        BY <4>1 DEF PlanInv, Listings
    <3> QED
      BY <3>1, <3>2 DEF PlanInv, Listings, NoRepair
  <2> QED
    BY <2>1, <2>2
<1>5. placement' \in Seq(Nodes) /\ Spread(topo, placement')
  BY PlanFrame, PlacementsSpread DEF PlanInv, Listings
<1>6. Charted(topo') /\ Spread(topo', placement')
  BY <1>2, <1>5 DEF PlanInv, Listings
<1> QED
  BY <1>1, <1>3, <1>4, <1>5, <1>6 DEF PlanInv, Listings, Charted, Spread, Seconds

(* Repairs and placements are planned to serve the policy, for any nodes,    *)
(* topology and policy: those asked are as many as are lacking, and where     *)
(* failure domains are nested every site gets a shard before one gets two    *)
(* (repair.py 155-183, 189-246).                                             *)
THEOREM PlansAreSound ==
    ASSUME NestedSites
    PROVE  Spec => []PlansServeThePolicy
<1>1. PlanInv => PlansServeThePolicy
  <2> SUFFICES ASSUME PlanInv PROVE PlansServeThePolicy
    OBVIOUS
  <2>1. VerifiedHolders \in SUBSET Nodes /\ repair.listed \in SUBSET Nodes
    BY DEF PlanInv, Listings, VerifiedHolders, Peers
  <2>2. RepairFillsTheGap
    BY <2>1, TargetsFillTheGap DEF RepairFillsTheGap, Targets
  <2>3. PlacementSpreads
    BY DEF PlanInv, Spread, Seconds, PlacementSpreads, Repeats
  <2> QED
    BY <2>2, <2>3 DEF PlansServeThePolicy
<1>2. PlanInv /\ IInv' /\ [Next]_vars => PlanInv'
  BY NextPlan
<1> QED
  BY <1>1, <1>2, InitPlan, AlwaysIInv, PTL DEF Spec

----------------------------------------------------------------------------
(* The history of an asset: what the threads that append to it hold.        *)

JobFields == {"todo", "op", "at", "copy", "epoch"}

\* A list of events whose numbers are their places.
Numbered(s) ==
    /\ \E A : s \in Seq(A)
    /\ \A i \in 1..Len(s) : s[i].sequence = i

\* A thread between its reading of the list and its writing has a numbered list, the
\* stored one unless two have overlapped; one at a time is there until then.
Appending(c) ==
    /\ DOMAIN job[c] = JobFields /\ job[c].at \in {"read", "write"}
    /\ job[c].at = "write" =>
          /\ Numbered(job[c].copy)
          /\ overlap \/ (job[c].copy = history /\ \A d \in Callers : job[d].at = "write" => d = c)

HistoryInv ==
    /\ DOMAIN job = Callers
    /\ Numbered(history)
    /\ \A c \in Callers : Appending(c)

\* The sort finds a numbered list in its order.
LEMMA GetIsHistory ==
  ASSUME Numbered(history)
  PROVE  Get = history
<1>0. PICK A : history \in Seq(A)
  BY DEF Numbered
<1>1. Len(history) \in Nat /\ DOMAIN history = 1..Len(history)
  BY <1>0
<1>2. ASSUME NEW i \in DOMAIN history PROVE Position(history, i) = i
  <2>1. {j \in DOMAIN history : \/ history[j].sequence < history[i].sequence
                                \/ history[j].sequence = history[i].sequence /\ j <= i} = 1..i
    BY <1>1, <1>2 DEF Numbered
  <2>2. Cardinality(1..i) = i
    <3>1. 1 \in Int /\ i \in Int /\ ~(1 > i) /\ i - 1 + 1 = i
      BY <1>1, <1>2
    <3> QED BY <3>1, FS_Interval
  <2> QED BY <2>1, <2>2 DEF Position
<1> DEFINE From(k) == CHOOSE i \in DOMAIN history : Position(history, i) = k
<1>3. ASSUME NEW k \in DOMAIN history PROVE From(k) = k
  BY <1>2, <1>3
<1>4. Get = [k \in DOMAIN history |-> history[From(k)]]
  BY DEF Get
<1> HIDE DEF From
<1>5. Get = [k \in DOMAIN history |-> history[k]]
  BY <1>3, <1>4
<1> QED BY <1>0, <1>5

\* The event is numbered by its place in the list it is appended to.
LEMMA AppendedIsNumbered ==
  ASSUME NEW c \in Callers, Numbered(job[c].copy)
  PROVE  /\ Numbered(Appended(c))
         /\ IsPrefix(job[c].copy, Appended(c))
<1> DEFINE s == job[c].copy
           e == Event(c)
<1>0. PICK A : s \in Seq(A)
  BY DEF Numbered
<1>1. Len(s) \in Nat /\ (s = <<>> <=> Len(s) = 0)
  BY <1>0
<1>2. e.sequence = Len(s) + 1
  BY <1>1 DEF Event, Last, Numbered
<1>3. /\ Append(s, e) \in Seq(A \union {e}) /\ Len(Append(s, e)) = Len(s) + 1
      /\ \A i \in 1..Len(s) : Append(s, e)[i] = s[i]
      /\ Append(s, e)[Len(s) + 1] = e
  <2> HIDE DEF s, e
  <2>1. s \in Seq(A \union {e})
    BY <1>0
  <2> QED BY <2>1
<1>4. Appended(c) = Append(s, e)
  BY DEF Appended
<1>5. \A i \in 1..Len(s) : s[i].sequence = i
  BY DEF Numbered
<1> HIDE DEF s, e
<1>6. Numbered(Append(s, e))
  BY <1>1, <1>2, <1>3, <1>5 DEF Numbered
<1>7. SubSeq(s, 1, Len(s)) = SubSeq(Append(s, e), 1, Len(s))
  BY <1>0, <1>1, <1>3
<1> QED BY <1>1, <1>3, <1>4, <1>6, <1>7 DEF IsPrefix, s

\* Every step but the two of an append leaves the threads that append alone, or ends
\* what one of them does.
Rests(c) == /\ DOMAIN job'[c] = JobFields /\ job'[c].at = "read"
            /\ DOMAIN job' = Callers /\ \A d \in Callers \ {c} : job'[d] = job[d]

LEMMA RestFacts ==
  ASSUME NEW c \in Callers, DOMAIN job[c] = JobFields
  PROVE  DOMAIN Rest(c) = JobFields /\ Rest(c).at = "read"
  BY DEF Rest, Idle, JobFields

LEMMA Settles ==
  ASSUME HistoryInv, NEW c \in Callers, Rests(c), UNCHANGED <<history, overlap>>
  PROVE  HistoryInv'
<1>1. ASSUME NEW d \in Callers PROVE Appending(d)'
  BY DEF HistoryInv, Appending, Rests
<1> QED BY <1>1 DEF HistoryInv, Rests, Numbered

LEMMA BeginStep ==
  ASSUME HistoryInv, NEW c \in Callers, NEW op, NEW todo, Begin(c, op, todo)
  PROVE  HistoryInv'
<1> DEFINE new == [Idle EXCEPT !.op = op, !.todo = todo, !.epoch = Epoch(NodeOf[c])]
<1>1. job' = [job EXCEPT ![c] = new]
  BY DEF Begin
<1>2. DOMAIN new = JobFields /\ new.at = "read"
  BY DEF Idle, JobFields
<1> HIDE DEF new
<1>3. Rests(c)
  BY <1>1, <1>2 DEF Rests, HistoryInv
<1> QED BY <1>3, Settles DEF Begin

LEMMA OperationSteps ==
  ASSUME HistoryInv, NEW c \in Callers,
         \/ RegisterManifest(c) \/ Ensure(c) \/ RecordPieceVerified(c)
         \/ AnchorAsset(c) \/ HandleReorg(c) \/ IngestComplete(c)
         \/ \E announce, anchored \in BOOLEAN : Publish(c, announce, anchored)
  PROVE  HistoryInv'
  BY BeginStep DEF RegisterManifest, Ensure, RecordPieceVerified, AnchorAsset, HandleReorg, IngestComplete, Publish

LEMMA OtherSteps ==
  ASSUME HistoryInv, NEW c \in Callers, Mark(c) \/ Anchor(c) \/ Snapshot(c) \/ Fails(c)
  PROVE  HistoryInv'
<1>0. DOMAIN job = Callers /\ DOMAIN job[c] = JobFields
  BY DEF HistoryInv, Appending
<1>1. PICK new : /\ job' = [job EXCEPT ![c] = new]
                 /\ DOMAIN new = JobFields /\ new.at = "read"
  <2>1. CASE Mark(c) \/ Snapshot(c)
    BY <1>0, <2>1, RestFacts DEF Mark, Snapshot
  <2>2. CASE Anchor(c)
    <3>1. PICK e : job' = [job EXCEPT ![c] = [Rest(c) EXCEPT !.epoch = IF NodeOf[c] \in Enabled THEN e ELSE NoEpoch]]
      BY <2>2 DEF Anchor
    <3>2. \A x : /\ DOMAIN [Rest(c) EXCEPT !.epoch = x] = JobFields
                 /\ [Rest(c) EXCEPT !.epoch = x].at = "read"
      BY <1>0, RestFacts DEF JobFields
    <3> QED BY <3>1, <3>2
  <2>3. CASE Fails(c)
    <3> DEFINE goesOn == [Idle EXCEPT !.op = "publish", !.todo = <<"snapshot">>]
    <3>1. job' = [job EXCEPT ![c] = goesOn] \/ job' = [job EXCEPT ![c] = Idle]
      BY <2>3 DEF Fails
    <3>2. /\ DOMAIN goesOn = JobFields /\ goesOn.at = "read"
          /\ DOMAIN Idle = JobFields /\ Idle.at = "read"
      BY DEF Idle, JobFields
    <3> HIDE DEF goesOn
    <3> QED BY <3>1, <3>2
  <2> QED BY <2>1, <2>2, <2>3
<1>2. Rests(c)
  BY <1>0, <1>1 DEF Rests
<1>3. UNCHANGED <<history, overlap>>
  BY DEF Mark, Anchor, Snapshot, Fails
<1> QED BY <1>2, <1>3, Settles

\* Before the event the list is only read.
LEMMA PriorStep ==
  ASSUME HistoryInv, NEW c \in Callers, Prior(c)
  PROVE  HistoryInv'
<1> DEFINE todo == <<IF HasAnchored(Get) THEN "REANCHORED" ELSE "ANCHORED">> \o Tail(job[c].todo)
           new == [job[c] EXCEPT !.todo = todo]
<1>1. job' = [job EXCEPT ![c] = new] /\ UNCHANGED <<history, overlap>>
  BY DEF Prior
<1>2. DOMAIN new = JobFields /\ new.at = job[c].at /\ new.copy = job[c].copy
  BY DEF HistoryInv, Appending, JobFields
<1> HIDE DEF new
<1>3. DOMAIN job' = Callers /\ job'[c] = new /\ \A d \in Callers \ {c} : job'[d] = job[d]
  BY <1>1 DEF HistoryInv
<1>4. ASSUME NEW d \in Callers PROVE Appending(d)'
  BY <1>1, <1>2, <1>3 DEF HistoryInv, Appending
<1> QED BY <1>1, <1>3, <1>4 DEF HistoryInv

LEMMA ReadStep ==
  ASSUME HistoryInv, NEW c \in Callers, ReadHistory(c)
  PROVE  HistoryInv'
<1> DEFINE new == [job[c] EXCEPT !.copy = history, !.at = "write"]
<1>1. Get = history
  BY GetIsHistory DEF HistoryInv
<1>2. job' = [job EXCEPT ![c] = new] /\ history' = history
  BY <1>1 DEF ReadHistory
<1>3. DOMAIN new = JobFields /\ new.at = "write" /\ new.copy = history
  BY DEF HistoryInv, Appending, JobFields
<1> HIDE DEF new
<1>4. DOMAIN job' = Callers /\ job'[c] = new /\ \A d \in Callers \ {c} : job'[d] = job[d]
  BY <1>2 DEF HistoryInv
<1>5. overlap' \/ \A d \in Callers : job[d].at # "write"
  BY DEF ReadHistory
<1>6. overlap => overlap'
  BY DEF ReadHistory
<1>7. ASSUME NEW d \in Callers PROVE Appending(d)'
  <2>1. CASE d = c
    BY <1>2, <1>3, <1>4, <1>5, <2>1 DEF HistoryInv, Appending
  <2>2. CASE d # c
    BY <1>2, <1>4, <1>5, <2>2 DEF HistoryInv, Appending
  <2> QED BY <2>1, <2>2
<1> QED BY <1>2, <1>4, <1>7 DEF HistoryInv

LEMMA WriteStep ==
  ASSUME HistoryInv, NEW c \in Callers, Write(c)
  PROVE  HistoryInv' /\ (overlap \/ IsPrefix(history, history'))
<1>0. /\ DOMAIN job = Callers /\ DOMAIN job[c] = JobFields
      /\ Numbered(job[c].copy)
      /\ overlap \/ (job[c].copy = history /\ \A d \in Callers : job[d].at = "write" => d = c)
  BY DEF HistoryInv, Appending, Write
<1>1. /\ history' = Appended(c) /\ overlap' = overlap
      /\ DOMAIN job' = Callers /\ job'[c] = Rest(c) /\ \A d \in Callers \ {c} : job'[d] = job[d]
  BY <1>0 DEF Write
<1>2. Numbered(history)' /\ (overlap \/ IsPrefix(history, history'))
  BY <1>0, <1>1, AppendedIsNumbered DEF Numbered
<1>3. DOMAIN Rest(c) = JobFields /\ Rest(c).at = "read"
  BY <1>0, RestFacts
<1>4. ASSUME NEW d \in Callers PROVE Appending(d)'
  BY <1>0, <1>1, <1>3 DEF HistoryInv, Appending
<1> QED BY <1>1, <1>2, <1>4 DEF HistoryInv

LEMMA RestartStep ==
  ASSUME HistoryInv, NEW n, Restart(n)
  PROVE  HistoryInv'
<1>1. /\ DOMAIN job' = Callers /\ UNCHANGED <<history, overlap>>
      /\ \A c \in Callers : job'[c] = Idle \/ job'[c] = job[c]
  BY DEF Restart
<1>2. Idle.at = "read" /\ DOMAIN Idle = JobFields
  BY DEF Idle, JobFields
<1>3. ASSUME NEW d \in Callers PROVE Appending(d)'
  BY <1>1, <1>2 DEF HistoryInv, Appending
<1> QED BY <1>1, <1>3 DEF HistoryInv

LEMMA FabricNextStep ==
  ASSUME HistoryInv, [FabricNext]_fabricVars
  PROVE  HistoryInv' /\ (overlap \/ IsPrefix(history, history'))
<1>1. HistoryInv'
  <2>1. CASE UNCHANGED <<history, job, overlap>>
    BY <2>1 DEF HistoryInv, Appending
  <2>2. ASSUME AnchorMoves \/ Expires \/ \E n \in Members : Completes(n)
        PROVE  UNCHANGED <<history, job, overlap>>
    BY <2>2 DEF AnchorMoves, Expires, Completes
  <2> QED BY <2>1, <2>2, OperationSteps, OtherSteps, PriorStep, ReadStep, WriteStep, RestartStep
             DEF FabricNext, fabricVars
<1>2. history' = history \/ \E c \in Callers : Write(c)
  BY DEF FabricNext, fabricVars, RegisterManifest, Ensure, RecordPieceVerified, AnchorAsset, HandleReorg,
         IngestComplete, Publish, Begin, ReadHistory, Mark, Anchor, Prior, Snapshot, Fails,
         AnchorMoves, Expires, Completes, Restart
<1>3. IsPrefix(history, history)
  BY DEF HistoryInv, Numbered, IsPrefix
<1> QED BY <1>1, <1>2, <1>3, WriteStep

\* The threads between reading and writing the history, and the list itself.
THEOREM HistoryInvariant == FabricSpec => []HistoryInv
<1>1. FabricInit => HistoryInv
  <2> SUFFICES ASSUME FabricInit PROVE HistoryInv
    OBVIOUS
  <2>1. Numbered(history)
    <3>1. history \in Seq({}) /\ Len(history) = 0
      BY DEF FabricInit
    <3> QED BY <3>1 DEF Numbered
  <2>2. Idle.at = "read" /\ DOMAIN Idle = JobFields
    BY DEF Idle, JobFields
  <2> QED BY <2>1, <2>2 DEF HistoryInv, Appending, FabricInit
<1>2. HistoryInv /\ [FabricNext]_fabricVars => HistoryInv'
  BY FabricNextStep
<1> QED BY <1>1, <1>2, PTL DEF FabricSpec

\* The stored history is numbered by position, however appends overlap (history.py).
THEOREM HistoriesAreNumbered == FabricSpec => []SequenceIsPosition
<1>1. HistoryInv => SequenceIsPosition
  <2> SUFFICES ASSUME HistoryInv PROVE SequenceIsPosition
    OBVIOUS
  <2>1. DOMAIN history = 1..Len(history)
    BY DEF HistoryInv, Numbered
  <2> QED BY <2>1 DEF HistoryInv, Numbered, SequenceIsPosition
<1> QED BY <1>1, HistoryInvariant, PTL

\* Only an overlap of two appends takes events out of the history (history.py).
THEOREM HistoriesOnlyGrow == FabricSpec => LossNeedsOverlap
<1>1. HistoryInv /\ [FabricNext]_fabricVars => [overlap \/ IsPrefix(history, history')]_fabricVars
  BY FabricNextStep
<1> QED BY <1>1, HistoryInvariant, PTL DEF FabricSpec, LossNeedsOverlap

=============================================================================
