---------------------------- MODULE DispatchProofs ----------------------------
(***************************************************************************)
(* Proofs about RemoteDispatch, for every registry and every request: a    *)
(* success ends the dispatch and is what the result says, and where ids    *)
(* are not repeated the calls are made in the order of preference, each    *)
(* worker being called once at most.                                       *)
(***************************************************************************)
EXTENDS RemoteDispatch, TLAPS, SequenceTheorems, FiniteSetTheorems,
        WellFoundedInduction

-----------------------------------------------------------------------------
(***************************************************************************)
(* The registry.                                                           *)
(***************************************************************************)
(* The order of the numbers is well-founded.                               *)
LEMMA NumbersWellFounded ==
  \E Less : /\ IsWellFoundedOn(Less, Nat)
            /\ \A m, n \in Nat : m < n => <<m, n>> \in Less
<1>1. \A m, n \in Nat : m < n => <<m, n>> \in OpToRel(<, Nat)
  BY DEF OpToRel
<1>2. QED
  BY <1>1, NatLessThanWellFounded

(* A bounded set of numbers with a member has a greatest one.              *)
LEMMA GreatestNumber ==
  ASSUME NEW n \in Nat, NEW S \in SUBSET (1 .. n), S # {}
  PROVE  \E m \in S : \A k \in S : k <= m
<1> DEFINE T == {n - k : k \in S}
<1>1. PICK Less : /\ IsWellFoundedOn(Less, Nat)
                  /\ \A m, k \in Nat : m < k => <<m, k>> \in Less
  BY NumbersWellFounded
<1>2. T \subseteq Nat /\ T # {}
  <2>1. \A k \in S : n - k \in Nat
    OBVIOUS
  <2>2. QED
    BY <2>1, Zenon
<1> HIDE DEF T
<1>3. PICK t \in T : \A u \in T : ~ (<<u, t>> \in Less)
  <2>1. IsWellFoundedOn(Less, Nat)
    BY <1>1
  <2>2. QED
    BY <1>2, <2>1, WFMin
<1>4. t \in Nat /\ \A u \in T : u \in Nat /\ ~ (u < t)
  BY <1>1, <1>2, <1>3
<1>5. PICK m \in S : t = n - m
  BY DEF T
<1>6. \A k \in S : n - k \in T
  BY DEF T
<1>7. QED
  BY <1>4, <1>5, <1>6

(* The registry and the request of a dispatch.                             *)
LEMMA DispatchTyped ==
  ASSUME dispatch \in Dispatches
  PROVE  /\ dispatch.registry \in Seq(Worker)
         /\ Len(dispatch.registry) \in Nat
         /\ Place = 1 .. Len(dispatch.registry)
         /\ \A i \in Place : At(i) \in Worker
         /\ dispatch.execute \in BOOLEAN
         /\ dispatch.maxAttempts \in Nat /\ dispatch.maxAttempts >= 1
<1>1. dispatch \in Dispatch
  BY DispatchesAssumption
<1>2. dispatch.registry \in Seq(Worker)
  BY <1>1 DEF Dispatch
<1>3. QED
  BY <1>1, <1>2, LenProperties DEF Dispatch, PositiveNat, Place, At

(* The lookup by id finds a worker with that id, the same one if no other  *)
(* has it.                                                                 *)
LEMMA LookupById ==
  ASSUME dispatch \in Dispatches, NEW i \in Place
  PROVE  /\ ById(At(i).id) \in Place
         /\ UniqueIds => ById(At(i).id) = i
<1> DEFINE S == {j \in Place : At(j).id = At(i).id}
           n == Len(dispatch.registry)
<1>1. n \in Nat /\ S \in SUBSET (1 .. n) /\ S # {}
  BY DispatchTyped
<1> HIDE DEF n
<1>2. PICK m \in S : \A k \in S : k <= m
  BY <1>1, GreatestNumber
<1>3. \E j \in Place :
        At(j).id = At(i).id /\ \A k \in Place : At(k).id = At(i).id => k <= j
  BY <1>2
<1>4. ById(At(i).id) \in Place /\ At(ById(At(i).id)).id = At(i).id
  BY <1>3 DEF ById
<1>5. QED
  BY <1>4 DEF UniqueIds

\* What is reported tells a call that succeeded, one that may have had its
\* effect, and one that was not made.
Tells(o) ==
  \/ o.status = "succeeded" /\ o.category = "none" /\ o.performed
  \/ o.status = "failed" /\ o.category \in Ambiguous /\ o.performed
  \/ /\ o.status # "succeeded" /\ o.category \notin Ambiguous \cup {"none"}
     /\ ~ o.performed

Unmade == {"missing_endpoint_url", "missing_ssh_contract",
           "unsupported_starter_transport", "execution_not_requested",
           "no_worker_selected"}

(* The forms of a report.                                                  *)
LEMMA ReportForms ==
  ASSUME NEW i \in Nat, NEW o,
         \/ o = Ended(i, "succeeded", "none")
         \/ \E c \in Ambiguous : o = Ended(i, "failed", c)
         \/ \E s \in {"failed", "skipped"}, c \in Unmade :
              o = NotPerformed(i, s, c)
  PROVE  o \in Outcome /\ o.place = i /\ Tells(o)
<1> USE DEF Ended, NotPerformed, Outcome, Statuses, Categories, Ambiguous,
            Unmade, Tells
<1>1. CASE o = Ended(i, "succeeded", "none")
  BY <1>1
<1>2. ASSUME NEW c \in Ambiguous, o = Ended(i, "failed", c)
      PROVE  o \in Outcome /\ o.place = i /\ Tells(o)
  BY <1>2
<1>3. ASSUME NEW s \in {"failed", "skipped"}, NEW c \in Unmade,
             o = NotPerformed(i, s, c)
      PROVE  o \in Outcome /\ o.place = i /\ Tells(o)
  BY <1>3
<1>4. QED
  BY <1>1, <1>2, <1>3

(* What a call of a worker may report.                                     *)
LEMMA OutcomeTyped ==
  ASSUME dispatch \in Dispatches, NEW i \in Place, NEW o \in Outcomes(i)
  PROVE  o \in Outcome /\ o.place = i /\ Tells(o)
<1> DEFINE Report == \/ o = Ended(i, "succeeded", "none")
                     \/ \E c \in Ambiguous : o = Ended(i, "failed", c)
                     \/ \E s \in {"failed", "skipped"}, c \in Unmade :
                          o = NotPerformed(i, s, c)
<1>1. i \in Nat /\ At(i) \in Worker
  BY DispatchTyped
<1>2. At(i).transport \in Transports /\ At(i).addressed \in BOOLEAN
  BY <1>1 DEF Worker
<1>3. CASE At(i).transport = "http" /\ At(i).addressed
  <2>1. Outcomes(i) = {Ended(i, "succeeded", "none"),
                       Ended(i, "failed", "timeout"),
                       Ended(i, "failed", "http_error"),
                       Ended(i, "failed", "connection_error")}
    BY <1>3 DEF Outcomes
  <2>2. Report
    BY <2>1 DEF Ambiguous
  <2>3. QED
    BY <1>1, <2>2, ReportForms
<1>4. CASE At(i).transport = "http" /\ ~ At(i).addressed
  <2>1. Outcomes(i) = {NotPerformed(i, "failed", "missing_endpoint_url")}
    BY <1>4 DEF Outcomes
  <2>2. Report
    BY <2>1 DEF Unmade
  <2>3. QED
    BY <1>1, <2>2, ReportForms
<1>5. CASE At(i).transport = "ssh" /\ At(i).addressed
  <2>1. Outcomes(i) = {Ended(i, "succeeded", "none"),
                       Ended(i, "failed", "timeout"),
                       Ended(i, "failed", "remote_command_failed")}
    BY <1>5 DEF Outcomes
  <2>2. Report
    BY <2>1 DEF Ambiguous
  <2>3. QED
    BY <1>1, <2>2, ReportForms
<1>6. CASE At(i).transport = "ssh" /\ ~ At(i).addressed
  <2>1. Outcomes(i) = {NotPerformed(i, "failed", "missing_ssh_contract")}
    BY <1>6 DEF Outcomes
  <2>2. Report
    BY <2>1 DEF Unmade
  <2>3. QED
    BY <1>1, <2>2, ReportForms
<1>7. CASE At(i).transport = "file_contract"
  <2>1. Outcomes(i) =
          {NotPerformed(i, "skipped", "unsupported_starter_transport")}
    BY <1>7 DEF Outcomes
  <2>2. Report
    BY <2>1 DEF Unmade
  <2>3. QED
    BY <1>1, <2>2, ReportForms
<1>8. QED
  BY <1>2, <1>3, <1>4, <1>5, <1>6, <1>7 DEF Transports

(* And of the primary call, which is skipped without a worker to call or   *)
(* without a request for it.                                               *)
LEMMA PrimaryTyped ==
  ASSUME TypeOK, NEW o \in PrimaryOutcomes
  PROVE  /\ o \in Outcome /\ Tells(o)
         /\ selected # {} => o.place \in selected
         /\ ~ dispatch.execute \/ selected = {} => o.status # "succeeded"
<1>1. /\ dispatch \in Dispatches /\ selected \subseteq Place
      /\ Place \subseteq Nat /\ dispatch.execute \in BOOLEAN
  BY DispatchTyped DEF TypeOK
<1>2. CASE selected = {}
  <2>1. o = NotPerformed(0, "skipped", "no_worker_selected")
    BY <1>2 DEF PrimaryOutcomes
  <2>2. o \in Outcome /\ Tells(o)
    BY <2>1, ReportForms DEF Unmade
  <2>3. QED
    BY <1>2, <2>1, <2>2 DEF NotPerformed
<1>3. CASE selected # {} /\ dispatch.execute
  <2>1. PICK i \in selected : o \in Outcomes(i)
    BY <1>3 DEF PrimaryOutcomes
  <2>2. QED
    BY <1>1, <1>3, <2>1, OutcomeTyped
<1>4. CASE selected # {} /\ ~ dispatch.execute
  <2>1. PICK i \in selected :
          o = NotPerformed(i, "skipped", "execution_not_requested")
    BY <1>4 DEF PrimaryOutcomes
  <2>2. o \in Outcome /\ Tells(o)
    BY <1>1, <2>1, ReportForms DEF Unmade
  <2>3. QED
    BY <1>1, <1>4, <2>1, <2>2 DEF NotPerformed
<1>5. QED
  BY <1>1, <1>2, <1>3, <1>4

-----------------------------------------------------------------------------
(***************************************************************************)
(* Types.                                                                  *)
(***************************************************************************)
\* The primary outcome there is, before and after the fallbacks.
PrimaryKnown ==
  /\ pc \in {"select", "primary"} => primary = {} /\ attempts = <<>>
  /\ pc \in {"fallback", "record", "written"} => primary # {}
  /\ \A o, p \in primary : o = p

(* WriteResult writes a summary.                                           *)
LEMMA WriteTyped ==
  ASSUME TypeOK, PrimaryKnown, WriteResult
  PROVE  result' \in SUBSET Summary
<1>1. /\ primary # {} /\ primary \subseteq Outcome
      /\ attempts \in Seq(Outcome)
  BY DEF TypeOK, PrimaryKnown, WriteResult
<1>2. FinalStatus \in Statuses
  <2>1. (CHOOSE o \in primary : TRUE) \in Outcome
    BY <1>1
  <2>2. attempts # <<>> => attempts[Len(attempts)] \in Outcome
    BY <1>1, LenProperties, EmptySeq
  <2>3. QED
    BY <2>1, <2>2 DEF FinalStatus, Outcome
<1>3. ASSUME NEW S PROVE Events(S) \in Nat
  <2>1. Len(attempts) \in Nat /\ IsFiniteSet(0 .. Len(attempts))
    BY <1>1, LenProperties, FS_Interval
  <2>2. {i \in DOMAIN Reported : /\ i > 0 \/ dispatch.execute
                                 /\ Reported[i].status \in S}
          \in SUBSET (0 .. Len(attempts))
    BY DEF Reported
  <2>3. QED
    BY <2>1, <2>2, FS_Subset, FS_CardinalityType DEF Events
<1>4. QED
  BY <1>2, <1>3 DEF WriteResult, Summary

(* Every step keeps the types.                                             *)
LEMMA TypeStep == TypeOK /\ PrimaryKnown /\ [Next]_vars => TypeOK'
<1> SUFFICES ASSUME TypeOK, PrimaryKnown, [Next]_vars PROVE TypeOK'
  OBVIOUS
<1>1. CASE SelectWorker
  <2>1. selected' \subseteq Place /\ toTry' \subseteq Place
    BY <1>1 DEF SelectWorker, FirstOf
  <2>2. QED
    BY <1>1, <2>1 DEF SelectWorker, TypeOK, Place
<1>2. ASSUME NEW o \in PrimaryOutcomes, NEW n \in {0, 1},
             ExecutePrimary(o, n)
      PROVE  TypeOK'
  BY <1>2, PrimaryTyped DEF ExecutePrimary, TypeOK, Place
<1>3. ASSUME NEW i \in toTry, NEW o \in Outcomes(ById(At(i).id)),
             NEW n \in {0, 1}, TryFallback(i, o, n)
      PROVE  TypeOK'
  <2>1. o \in Outcome
    BY LookupById, OutcomeTyped DEF TypeOK
  <2>2. attempts' \in Seq(Outcome)
    BY <1>3, <2>1, AppendProperties DEF TryFallback, TypeOK
  <2>3. QED
    BY <1>3, <2>2 DEF TryFallback, TypeOK, Place
<1>4. CASE EndFallback
  BY <1>4 DEF EndFallback, TypeOK, Place
<1>5. ASSUME NEW n \in {0, 1}, CallRaises(n) PROVE TypeOK'
  BY <1>5 DEF CallRaises, TypeOK, Place
<1>6. CASE WriteResult
  BY <1>6, WriteTyped DEF WriteResult, TypeOK, Place
<1>7. CASE UNCHANGED vars
  BY <1>7 DEF vars, TypeOK, Place
<1>8. QED
  BY <1>1, <1>2, <1>3, <1>4, <1>5, <1>6, <1>7 DEF Next

(* Every step keeps the primary outcome.                                   *)
LEMMA PrimaryStep == PrimaryKnown /\ [Next]_vars => PrimaryKnown'
<1> SUFFICES ASSUME PrimaryKnown, [Next]_vars PROVE PrimaryKnown'
  OBVIOUS
<1> USE DEF PrimaryKnown
<1>1. CASE SelectWorker
  BY <1>1 DEF SelectWorker
<1>2. ASSUME NEW o \in PrimaryOutcomes, NEW n \in {0, 1},
             ExecutePrimary(o, n)
      PROVE  PrimaryKnown'
  BY <1>2 DEF ExecutePrimary
<1>3. ASSUME NEW i \in toTry, NEW o \in Outcomes(ById(At(i).id)),
             NEW n \in {0, 1}, TryFallback(i, o, n)
      PROVE  PrimaryKnown'
  BY <1>3 DEF TryFallback
<1>4. CASE EndFallback
  BY <1>4 DEF EndFallback
<1>5. ASSUME NEW n \in {0, 1}, CallRaises(n) PROVE PrimaryKnown'
  BY <1>5 DEF CallRaises
<1>6. CASE WriteResult
  BY <1>6 DEF WriteResult
<1>7. CASE UNCHANGED vars
  BY <1>7 DEF vars
<1>8. QED
  BY <1>1, <1>2, <1>3, <1>4, <1>5, <1>6, <1>7 DEF Next

(* Every variable of a dispatch keeps its type: the attempts and the       *)
(* primary outcome are execution results, and what is written is a summary *)
(* with a final status and counted events.                                 *)
THEOREM DispatchTypeOK == Spec => [](TypeOK /\ PrimaryKnown)
<1>1. Init => TypeOK /\ PrimaryKnown
  BY EmptySeq DEF Init, TypeOK, PrimaryKnown
<1>2. QED
  BY <1>1, TypeStep, PrimaryStep, PTL DEF Spec


-----------------------------------------------------------------------------
(***************************************************************************)
(* A success ends the dispatch.                                            *)
(***************************************************************************)
\* What the course of a dispatch says of the outcomes it has.
CourseInv ==
  /\ \A o \in primary :
       /\ selected # {} => o.place \in selected
       /\ ~ dispatch.execute \/ selected = {} => o.status # "succeeded"
       /\ o.status = "succeeded" => pc \in {"record", "written"}
  /\ pc = "fallback" \/ attempts # <<>> =>
       /\ dispatch.execute /\ primary # {}
       /\ \A o \in primary : o.status # "succeeded"
  /\ Len(attempts) <= FallbackLimit
  /\ \A k \in DOMAIN attempts : attempts[k].status = "succeeded" =>
       k = Len(attempts) /\ pc \in {"record", "written"}
  /\ pc # "written" => result = {}
  /\ \A r \in result : r.finalStatus = FinalStatus

DispatchInv == TypeOK /\ PrimaryKnown /\ CourseInv

(* The attempts, one longer.                                               *)
LEMMA AttemptAppended ==
  ASSUME TypeOK, NEW i \in toTry, NEW o \in Outcomes(ById(At(i).id)),
         NEW n, TryFallback(i, o, n)
  PROVE  LET m == Len(attempts)
         IN  /\ m \in Nat /\ m < FallbackLimit
             /\ DOMAIN attempts = 1 .. m
             /\ Len(attempts') = m + 1 /\ DOMAIN attempts' = 1 .. m + 1
             /\ \A k \in 1 .. m : attempts'[k] = attempts[k]
             /\ attempts'[m + 1] = o
             /\ attempts' # <<>>
             /\ o \in Outcome /\ o.place = ById(At(i).id)
<1>1. o \in Outcome /\ o.place = ById(At(i).id)
  BY LookupById, OutcomeTyped DEF TypeOK
<1>2. /\ attempts \in Seq(Outcome) /\ attempts' = Append(attempts, o)
      /\ Len(attempts) < FallbackLimit
  BY DEF TypeOK, TryFallback
<1>3. /\ attempts' \in Seq(Outcome) /\ attempts' # <<>>
      /\ Len(attempts') = Len(attempts) + 1
      /\ \A k \in 1 .. Len(attempts) : attempts'[k] = attempts[k]
      /\ attempts'[Len(attempts) + 1] = o
  BY <1>1, <1>2, AppendProperties
<1>4. /\ Len(attempts) \in Nat /\ DOMAIN attempts = 1 .. Len(attempts)
      /\ DOMAIN attempts' = 1 .. Len(attempts')
  BY <1>2, <1>3, LenProperties
<1>5. QED
  BY <1>1, <1>2, <1>3, <1>4

(* Every step keeps to the course.                                         *)
LEMMA CourseStep == DispatchInv /\ [Next]_vars => CourseInv'
<1> SUFFICES ASSUME DispatchInv, [Next]_vars PROVE CourseInv'
  OBVIOUS
<1> USE DEF DispatchInv
<1>1. CASE SelectWorker
  BY <1>1 DEF SelectWorker, PrimaryKnown, CourseInv, FallbackLimit
<1>2. ASSUME NEW o \in PrimaryOutcomes, NEW n \in {0, 1},
             ExecutePrimary(o, n)
      PROVE  CourseInv'
  <2>1. /\ selected # {} => o.place \in selected
        /\ ~ dispatch.execute \/ selected = {} => o.status # "succeeded"
    BY PrimaryTyped
  <2>2. /\ primary' = {o} /\ attempts = <<>> /\ result = {}
        /\ UNCHANGED <<dispatch, selected, attempts, result>>
        /\ pc' \in {"fallback", "record"}
        /\ pc' = "fallback" => ShouldTryFallback(o)
        /\ pc' # "fallback" => pc' = "record"
    BY <1>2 DEF ExecutePrimary, PrimaryKnown, CourseInv
  <2>3. ShouldTryFallback(o) =>
          dispatch.execute /\ o.status # "succeeded"
    BY DEF ShouldTryFallback
  <2>4. DOMAIN attempts = {} /\ Len(attempts) <= FallbackLimit
    BY <2>2, EmptySeq DEF CourseInv
  <2>5. QED
    BY <2>1, <2>2, <2>3, <2>4 DEF CourseInv, FallbackLimit
<1>3. ASSUME NEW i \in toTry, NEW o \in Outcomes(ById(At(i).id)),
             NEW n \in {0, 1}, TryFallback(i, o, n)
      PROVE  CourseInv'
  <2> DEFINE m == Len(attempts)
  <2>1. /\ m \in Nat /\ m < FallbackLimit
        /\ DOMAIN attempts = 1 .. m
        /\ Len(attempts') = m + 1 /\ DOMAIN attempts' = 1 .. m + 1
        /\ \A k \in 1 .. m : attempts'[k] = attempts[k]
        /\ attempts'[m + 1] = o
    BY <1>3, AttemptAppended
  <2>2. /\ pc = "fallback"
        /\ UNCHANGED <<dispatch, selected, primary, result>>
        /\ pc' = IF o.status = "succeeded" THEN "record" ELSE "fallback"
    BY <1>3 DEF TryFallback
  <2>3. FallbackLimit \in Int /\ FallbackLimit' = FallbackLimit
    BY <2>2, DispatchTyped DEF FallbackLimit, TypeOK
  <2>4. \A k \in 1 .. m : attempts[k].status # "succeeded"
    BY <2>1, <2>2 DEF CourseInv
  <2> HIDE DEF m
  <2>5. \A k \in DOMAIN attempts' : attempts'[k].status = "succeeded" =>
          k = m + 1 /\ o.status = "succeeded"
    <3>1. \A k \in DOMAIN attempts' : k \in 1 .. m \/ k = m + 1
      BY <2>1
    <3>2. QED
      BY <2>1, <2>4, <3>1
  <2>6. /\ dispatch.execute /\ primary # {} /\ result = {}
        /\ \A p \in primary : p.status # "succeeded"
    BY <2>2 DEF CourseInv
  <2>7. Len(attempts') <= FallbackLimit'
    BY <2>1, <2>3
  <2>8. QED
    BY <2>1, <2>2, <2>5, <2>6, <2>7 DEF CourseInv
<1>4. CASE EndFallback
  BY <1>4 DEF EndFallback, CourseInv, FallbackLimit
<1>5. ASSUME NEW n \in {0, 1}, CallRaises(n) PROVE CourseInv'
  <2>1. pc \in {"primary", "fallback"}
    BY <1>5 DEF CallRaises, Called
  <2>2. QED
    BY <1>5, <2>1 DEF CallRaises, CourseInv, FallbackLimit
<1>6. CASE WriteResult
  <2>1. \A r \in result' : r.finalStatus = FinalStatus
    BY <1>6 DEF WriteResult
  <2>2. FinalStatus' = FinalStatus
    BY <1>6 DEF WriteResult, FinalStatus
  <2>3. QED
    BY <1>6, <2>1, <2>2 DEF WriteResult, CourseInv, FallbackLimit
<1>7. CASE UNCHANGED vars
  BY <1>7 DEF vars, CourseInv, FallbackLimit, FinalStatus
<1>8. QED
  BY <1>1, <1>2, <1>3, <1>4, <1>5, <1>6, <1>7 DEF Next

(* The course holds from the start.                                        *)
LEMMA DispatchInvariant == Spec => []DispatchInv
<1>1. Init => DispatchInv
  <2> SUFFICES ASSUME Init PROVE DispatchInv
    OBVIOUS
  <2>1. TypeOK /\ PrimaryKnown
    BY EmptySeq DEF Init, TypeOK, PrimaryKnown
  <2>2. Len(attempts) <= FallbackLimit /\ DOMAIN attempts = {}
    BY EmptySeq, DispatchTyped DEF Init, FallbackLimit
  <2>3. QED
    BY <2>1, <2>2 DEF Init, DispatchInv, CourseInv
<1>2. DispatchInv /\ [Next]_vars => DispatchInv'
  BY TypeStep, PrimaryStep, CourseStep DEF DispatchInv
<1>3. QED
  BY <1>1, <1>2, PTL DEF Spec

-----------------------------------------------------------------------------
\* The primary call, where it was one.
Primaries ==
  IF dispatch.execute /\ selected # {} THEN primary ELSE {}

(* The calls are the primary one and the attempts after it.                *)
LEMMA CallsAre ==
  ASSUME DispatchInv
  PROVE  LET m == Len(attempts)
             c == IF Primaries # {} THEN 1 ELSE 0
         IN  /\ m \in Nat /\ DOMAIN attempts = 1 .. m
             /\ Len(Calls) = c + m /\ DOMAIN Calls = 1 .. c + m
             /\ c = 1 => Calls[1] \in primary
             /\ \A k \in 1 .. m : Calls[c + k] = attempts[k]
<1> DEFINE m == Len(attempts)
<1>1. attempts \in Seq(Outcome) /\ primary \subseteq Outcome
      /\ m \in Nat /\ DOMAIN attempts = 1 .. m
  BY LenProperties DEF DispatchInv, TypeOK
<1> HIDE DEF m
<1>2. CASE Primaries # {}
  <2> DEFINE o == CHOOSE o \in primary : TRUE
  <2>1. o \in primary /\ o \in Outcome /\ Calls = <<o>> \o attempts
    BY <1>1, <1>2 DEF Primaries, Calls
  <2> HIDE DEF o
  <2>2. <<o>> \in Seq(Outcome) /\ Len(<<o>>) = 1 /\ <<o>>[1] = o
    BY <2>1
  <2>3. /\ Calls \in Seq(Outcome) /\ Len(Calls) = 1 + m
        /\ \A k \in 1 .. 1 + m :
             Calls[k] = IF k <= 1 THEN <<o>>[k] ELSE attempts[k - 1]
    BY <1>1, <2>1, <2>2, ConcatProperties DEF m
  <2>4. DOMAIN Calls = 1 .. 1 + m
    BY <2>3, LenProperties
  <2>5. Calls[1] = o
    BY <1>1, <2>2, <2>3
  <2>6. \A k \in 1 .. m : Calls[1 + k] = attempts[k]
    BY <1>1, <2>3
  <2>7. QED
    BY <1>1, <1>2, <2>1, <2>3, <2>4, <2>5, <2>6 DEF m
<1>3. CASE Primaries = {}
  <2>1. Calls = <<>> \o attempts
    BY <1>3 DEF Primaries, Calls
  <2>2. Calls = attempts
    BY <1>1, <2>1, ConcatEmptySeq
  <2>3. QED
    BY <1>1, <1>3, <2>2 DEF m
<1>4. QED
  BY <1>2, <1>3

(* The last outcome is the one the summary takes the final status from.    *)
LEMMA FinalIsLast ==
  ASSUME DispatchInv, primary # {}
  PROVE  /\ attempts # <<>> =>
              FinalStatus = attempts[Len(attempts)].status
         /\ attempts = <<>> => \A o \in primary : FinalStatus = o.status
BY DEF FinalStatus, DispatchInv, PrimaryKnown

(* No worker is called after a success, and the result says "succeeded" if *)
(* and only if a call succeeded.                                           *)
THEOREM DispatchSuccessEnds == Spec => []SuccessEndsDispatch
<1>1. DispatchInv => SuccessEndsDispatch
  <2> SUFFICES ASSUME DispatchInv PROVE SuccessEndsDispatch
    OBVIOUS
  <2> DEFINE m == Len(attempts)
             c == IF Primaries # {} THEN 1 ELSE 0
             successes == {k \in DOMAIN Calls : Calls[k].status = "succeeded"}
  <2>1. /\ m \in Nat /\ DOMAIN attempts = 1 .. m
        /\ Len(Calls) = c + m /\ DOMAIN Calls = 1 .. c + m
        /\ c = 1 => Calls[1] \in primary
        /\ \A k \in 1 .. m : Calls[c + k] = attempts[k]
    BY CallsAre
  <2>2. c \in {0, 1} /\ (c = 1 <=> Primaries # {})
    OBVIOUS
  <2>3. attempts = <<>> <=> m = 0
    BY EmptySeq DEF DispatchInv, TypeOK
  <2> HIDE DEF m, c
  <2>4. \A k \in DOMAIN Calls :
          (k = 1 /\ c = 1) \/ \E j \in 1 .. m : k = c + j
    <3>1. \A k \in DOMAIN Calls : (k = 1 /\ c = 1) \/ k - c \in 1 .. m
      BY <2>1, <2>2
    <3>2. \A k \in DOMAIN Calls : k = c + (k - c)
      BY <2>1, <2>2
    <3>3. QED
      BY <3>1, <3>2
  <2>5. \A k \in successes :
          k = c + m /\ pc \in {"record", "written"}
    <3>1. ASSUME c = 1, Calls[1].status = "succeeded"
          PROVE  m = 0 /\ pc \in {"record", "written"}
      BY <2>1, <2>3, <3>1 DEF DispatchInv, CourseInv
    <3>2. ASSUME NEW j \in 1 .. m, attempts[j].status = "succeeded"
          PROVE  j = m /\ pc \in {"record", "written"}
      BY <2>1, <3>2 DEF DispatchInv, CourseInv, m
    <3>3. ASSUME NEW k \in DOMAIN Calls, Calls[k].status = "succeeded"
          PROVE  k = c + m /\ pc \in {"record", "written"}
      <4>1. CASE k = 1 /\ c = 1
        BY <2>1, <3>1, <3>3, <4>1
      <4>2. ASSUME NEW j \in 1 .. m, k = c + j
            PROVE  k = c + m /\ pc \in {"record", "written"}
        BY <2>1, <3>2, <3>3, <4>2
      <4>3. QED
        BY <2>4, <4>1, <4>2
    <3>4. QED
      BY <3>3
  <2>6. ASSUME NEW r \in result
        PROVE  r.finalStatus = "succeeded" <=> successes # {}
    <3>1. r.finalStatus = FinalStatus /\ primary # {}
      BY DEF DispatchInv, CourseInv, PrimaryKnown
    <3>2. CASE m > 0
      <4>1. FinalStatus = Calls[c + m].status /\ c + m \in DOMAIN Calls
        BY <2>1, <2>2, <2>3, <3>1, <3>2, FinalIsLast DEF m
      <4>2. QED
        BY <2>5, <3>1, <4>1
    <3>3. CASE m = 0 /\ c = 1
      <4>1. FinalStatus = Calls[1].status /\ DOMAIN Calls = {1}
        BY <2>1, <2>3, <3>1, <3>3, FinalIsLast
      <4>2. QED
        BY <3>1, <4>1
    <3>4. CASE m = 0 /\ c = 0
      <4>1. FinalStatus # "succeeded" /\ DOMAIN Calls = {}
        BY <2>1, <2>2, <2>3, <3>1, <3>4, FinalIsLast
           DEF DispatchInv, CourseInv, Primaries
      <4>2. QED
        BY <3>1, <4>1
    <3>5. QED
      BY <2>1, <2>2, <3>2, <3>3, <3>4
  <2>7. QED
    BY <2>1, <2>5, <2>6 DEF SuccessEndsDispatch
<1>2. QED
  BY DispatchInvariant, <1>1, PTL


-----------------------------------------------------------------------------
(***************************************************************************)
(* The order of the calls.                                                 *)
(***************************************************************************)
Candidates == {i \in Place : Eligible(At(i))}

\* Each candidate is selected, yet to be tried or tried, and in this order
\* of preference.
OrderInv ==
  UniqueIds /\ pc # "select" =>
    /\ selected \subseteq FirstOf(Candidates)
    /\ toTry \subseteq Candidates /\ toTry \cap selected = {}
    /\ \A i \in Candidates \ (selected \cup toTry) :
         \E k \in DOMAIN attempts : attempts[k].place = i
    /\ \A k \in DOMAIN attempts :
         /\ attempts[k].place \in Candidates \ (selected \cup toTry)
         /\ \A i \in toTry : RankedBefore(attempts[k].place, i)
         /\ \A j \in DOMAIN attempts :
              j # k => attempts[j].place # attempts[k].place

(* A worker that is tried leaves the others behind it.                     *)
LEMMA TryOrder ==
  ASSUME DispatchInv, OrderInv, NEW i \in toTry,
         NEW o \in Outcomes(ById(At(i).id)), NEW n, TryFallback(i, o, n)
  PROVE  OrderInv'
<1> DEFINE m == Len(attempts)
<1>1. /\ m \in Nat /\ DOMAIN attempts = 1 .. m
      /\ DOMAIN attempts' = 1 .. m + 1
      /\ \A k \in 1 .. m : attempts'[k] = attempts[k]
      /\ attempts'[m + 1] = o
      /\ o.place = ById(At(i).id)
  BY AttemptAppended DEF DispatchInv
<1> HIDE DEF m
<1>2. /\ pc = "fallback" /\ i \in FirstOf(toTry) /\ toTry' = toTry \ {i}
      /\ dispatch' = dispatch /\ selected' = selected
  BY DEF TryFallback
<1>3. /\ \A s, t : RankedBefore(s, t)' <=> RankedBefore(s, t)
      /\ Candidates' = Candidates /\ (UniqueIds' <=> UniqueIds)
      /\ FirstOf(Candidates)' = FirstOf(Candidates)
  BY <1>2 DEF RankedBefore, Candidates, UniqueIds, FirstOf, At, Place
<1> SUFFICES ASSUME UniqueIds
             PROVE  /\ selected \subseteq FirstOf(Candidates)
                    /\ toTry' \subseteq Candidates
                    /\ toTry' \cap selected = {}
                    /\ \A h \in Candidates \ (selected \cup toTry') :
                         \E k \in 1 .. m + 1 : attempts'[k].place = h
                    /\ \A k \in 1 .. m + 1 :
                         /\ attempts'[k].place
                              \in Candidates \ (selected \cup toTry')
                         /\ \A h \in toTry' :
                              RankedBefore(attempts'[k].place, h)
                         /\ \A j \in 1 .. m + 1 :
                              j # k => attempts'[j].place
                                         # attempts'[k].place
  BY <1>1, <1>2, <1>3 DEF OrderInv
<1>4. /\ selected \subseteq FirstOf(Candidates)
      /\ toTry \subseteq Candidates /\ toTry \cap selected = {}
      /\ \A h \in Candidates \ (selected \cup toTry) :
           \E k \in 1 .. m : attempts[k].place = h
      /\ \A k \in 1 .. m :
           /\ attempts[k].place \in Candidates \ (selected \cup toTry)
           /\ \A h \in toTry : RankedBefore(attempts[k].place, h)
           /\ \A j \in 1 .. m : j # k => attempts[j].place # attempts[k].place
  BY <1>1, <1>2 DEF OrderInv
<1>5. o.place = i /\ \A h \in toTry \ {i} : RankedBefore(i, h)
  BY <1>1, <1>2, LookupById DEF DispatchInv, TypeOK, FirstOf
<1>6. /\ \A k \in 1 .. m + 1 : k \in 1 .. m \/ k = m + 1
      /\ \A k \in 1 .. m : k \in 1 .. m + 1
      /\ m + 1 \in 1 .. m + 1
  BY <1>1
<1>7. ASSUME NEW h \in Candidates \ (selected \cup toTry')
      PROVE  \E k \in 1 .. m + 1 : attempts'[k].place = h
  <2>1. CASE h = i
    BY <1>1, <1>5, <1>6, <2>1
  <2>2. CASE h # i
    <3>1. PICK k \in 1 .. m : attempts[k].place = h
      BY <1>2, <1>4, <1>7, <2>2
    <3>2. QED
      BY <1>1, <1>6, <3>1
  <2>3. QED
    BY <2>1, <2>2
<1>8. ASSUME NEW k \in 1 .. m + 1
      PROVE  /\ attempts'[k].place \in Candidates \ (selected \cup toTry')
             /\ \A h \in toTry' : RankedBefore(attempts'[k].place, h)
             /\ \A j \in 1 .. m + 1 :
                  j # k => attempts'[j].place # attempts'[k].place
  <2>1. CASE k \in 1 .. m
    BY <1>1, <1>2, <1>4, <1>5, <1>6, <2>1
  <2>2. CASE k = m + 1
    BY <1>1, <1>2, <1>4, <1>5, <1>6, <2>2
  <2>3. QED
    BY <1>6, <2>1, <2>2
<1>9. QED
  BY <1>2, <1>4, <1>7, <1>8

(* The selection puts the candidates in order, and nothing else but a      *)
(* fallback changes it.                                                    *)
LEMMA OrderStep == DispatchInv /\ OrderInv /\ [Next]_vars => OrderInv'
<1> SUFFICES ASSUME DispatchInv, OrderInv, [Next]_vars PROVE OrderInv'
  OBVIOUS
<1>1. CASE SelectWorker
  <2>1. /\ selected' = FirstOf(Candidates) /\ dispatch' = dispatch
        /\ toTry' = {i \in Candidates :
                       \A s \in selected' : At(i).id # At(s).id}
        /\ attempts = <<>> /\ attempts' = attempts
    BY <1>1 DEF SelectWorker, Candidates, DispatchInv, PrimaryKnown
  <2>2. /\ Candidates' = Candidates /\ (UniqueIds' <=> UniqueIds)
        /\ FirstOf(Candidates)' = FirstOf(Candidates)
    BY <2>1 DEF Candidates, UniqueIds, FirstOf, RankedBefore, At, Place
  <2>3. DOMAIN attempts' = {}
    BY <2>1, EmptySeq
  <2>4. ASSUME UniqueIds, NEW i \in Candidates
        PROVE  i \in toTry' <=> i \notin selected'
    BY <2>1, <2>4 DEF UniqueIds, Candidates, FirstOf
  <2>5. QED
    BY <2>1, <2>2, <2>3, <2>4 DEF OrderInv
<1>2. ASSUME UNCHANGED <<dispatch, selected, toTry, attempts>>,
             pc # "select" \/ pc' = pc
      PROVE  OrderInv'
  BY <1>2 DEF OrderInv, Candidates, UniqueIds, FirstOf, RankedBefore, At,
              Place
<1>3. ASSUME NEW o \in PrimaryOutcomes, NEW n \in {0, 1},
             ExecutePrimary(o, n)
      PROVE  OrderInv'
  BY <1>2, <1>3 DEF ExecutePrimary
<1>4. ASSUME NEW i \in toTry, NEW o \in Outcomes(ById(At(i).id)),
             NEW n \in {0, 1}, TryFallback(i, o, n)
      PROVE  OrderInv'
  BY <1>4, TryOrder
<1>5. CASE EndFallback \/ WriteResult
  BY <1>2, <1>5 DEF EndFallback, WriteResult
<1>6. ASSUME NEW n \in {0, 1}, CallRaises(n) PROVE OrderInv'
  <2>1. pc \in {"primary", "fallback"}
    BY <1>6 DEF CallRaises, Called
  <2>2. QED
    BY <1>2, <1>6, <2>1 DEF CallRaises
<1>7. CASE UNCHANGED vars
  BY <1>2, <1>7 DEF vars
<1>8. QED
  BY <1>1, <1>3, <1>4, <1>5, <1>6, <1>7 DEF Next

(* What ranks before another is healthier, or as healthy with no smaller   *)
(* capacity; nothing ranks before itself or both ways.                     *)
LEMMA RankMeans ==
  ASSUME TypeOK, NEW i \in Candidates, NEW j \in Candidates,
         RankedBefore(i, j)
  PROVE  /\ \/ At(j).health = "constrained" /\ At(i).health = "healthy"
            \/ /\ At(j).health = At(i).health
               /\ At(j).capacity <= At(i).capacity
         /\ ~ RankedBefore(j, i)
<1>1. /\ i \in Nat /\ j \in Nat /\ At(i) \in Worker /\ At(j) \in Worker
      /\ Eligible(At(i)) /\ Eligible(At(j))
  BY DispatchTyped DEF Candidates, TypeOK
<1>2. /\ At(i).health \in {"healthy", "constrained"}
      /\ At(j).health \in {"healthy", "constrained"}
      /\ At(i).capacity \in Nat /\ At(j).capacity \in Nat
      /\ At(i).id \in Nat /\ At(j).id \in Nat
  BY <1>1 DEF Worker, Eligible
<1>3. QED
  BY <1>1, <1>2 DEF RankedBefore, HealthRank

(* One worker is selected at most.                                         *)
LEMMA FirstIsUnique ==
  ASSUME TypeOK, NEW i \in FirstOf(Candidates), NEW j \in FirstOf(Candidates)
  PROVE  i = j
<1>1. i \in Candidates /\ j \in Candidates
  BY DEF FirstOf
<1>2. i # j => RankedBefore(i, j) /\ RankedBefore(j, i)
  BY DEF FirstOf
<1>3. QED
  BY <1>1, <1>2, RankMeans

(* Over a whole dispatch from a registry without repeated ids no worker is *)
(* called that is not eligible, none is called twice, max_attempts bounds  *)
(* the calls, and a worker is passed over only for one that is healthier   *)
(* or has no smaller capacity.                                             *)
THEOREM DispatchCallsByPreference == Spec => []CallsByPreference
<1>1. DispatchInv /\ OrderInv => CallsByPreference
  <2> SUFFICES ASSUME DispatchInv, OrderInv, UniqueIds
               PROVE  CallsByPreference
    BY DEF CallsByPreference
  <2> DEFINE m == Len(attempts)
             c == IF Primaries # {} THEN 1 ELSE 0
  <2>1. /\ m \in Nat /\ DOMAIN attempts = 1 .. m
        /\ Len(Calls) = c + m /\ DOMAIN Calls = 1 .. c + m
        /\ c = 1 => Calls[1] \in primary
        /\ \A k \in 1 .. m : Calls[c + k] = attempts[k]
    BY CallsAre
  <2>2. c \in {0, 1} /\ (c = 1 <=> Primaries # {})
    OBVIOUS
  <2>3. /\ m <= dispatch.maxAttempts - 1
        /\ dispatch.maxAttempts \in Nat
    BY DispatchTyped DEF DispatchInv, CourseInv, FallbackLimit, TypeOK
  <2> HIDE DEF m, c
  <2>4. \A k \in DOMAIN Calls :
          (k = 1 /\ c = 1) \/ \E j \in 1 .. m : k = c + j
    <3>1. \A k \in DOMAIN Calls : (k = 1 /\ c = 1) \/ k - c \in 1 .. m
      BY <2>1, <2>2
    <3>2. \A k \in DOMAIN Calls : k = c + (k - c)
      BY <2>1, <2>2
    <3>3. QED
      BY <3>1, <3>2
  <2>5. c = 1 => /\ pc # "select" /\ Calls[1].place \in selected
                 /\ Calls[1].place \in FirstOf(Candidates)
    BY <2>1, <2>2
       DEF DispatchInv, CourseInv, PrimaryKnown, Primaries, OrderInv
  <2>6. m # 0 => pc # "select" /\ dispatch.execute /\ primary # {}
    BY <2>1, EmptySeq
       DEF DispatchInv, CourseInv, PrimaryKnown, m
  <2>7. ASSUME NEW k \in DOMAIN Calls
        PROVE  /\ Calls[k].place \in Candidates
               /\ \A j \in DOMAIN Calls :
                    j # k => Calls[j].place # Calls[k].place
               /\ \A i \in Candidates :
                    (\A j \in DOMAIN Calls : Calls[j].place # i)
                      => RankedBefore(Calls[k].place, i)
    <3>1. \A j \in 1 .. m :
            /\ c + j \in DOMAIN Calls
            /\ Calls[c + j].place = attempts[j].place
            /\ Calls[c + j].place \in Candidates \ (selected \cup toTry)
            /\ \A i \in toTry : RankedBefore(Calls[c + j].place, i)
            /\ \A h \in 1 .. m :
                 h # j => Calls[c + h].place # Calls[c + j].place
      <4>1. ASSUME NEW j \in 1 .. m
            PROVE  /\ attempts[j].place \in Candidates \ (selected \cup toTry)
                   /\ \A i \in toTry : RankedBefore(attempts[j].place, i)
                   /\ \A h \in 1 .. m :
                        h # j => attempts[h].place # attempts[j].place
        BY <2>1, <2>6 DEF OrderInv
      <4>2. \A j \in 1 .. m :
              c + j \in DOMAIN Calls /\ Calls[c + j] = attempts[j]
        BY <2>1, <2>2
      <4>3. QED
        BY <4>1, <4>2
    <3>2. FirstOf(Candidates) \subseteq Candidates
      BY DEF FirstOf
    <3>3. Calls[k].place \in Candidates
      BY <2>4, <2>5, <3>1, <3>2
    <3>4. ASSUME NEW j \in DOMAIN Calls, j # k
          PROVE  Calls[j].place # Calls[k].place
      BY <2>2, <2>4, <2>5, <3>1, <3>4
    <3>5. ASSUME NEW i \in Candidates,
                 \A j \in DOMAIN Calls : Calls[j].place # i
          PROVE  RankedBefore(Calls[k].place, i)
      <4>1. pc # "select"
        BY <2>1, <2>4, <2>5, <2>6
      <4>2. i \notin selected
        <5>1. CASE c = 1
          <6>1. Calls[1].place \in selected /\ 1 \in DOMAIN Calls
            BY <2>1, <2>5, <5>1
          <6>2. ASSUME i \in selected PROVE FALSE
            BY <4>1, <6>1, <6>2, <3>5, FirstIsUnique
               DEF OrderInv, DispatchInv
          <6>3. QED
            BY <6>2
        <5>2. CASE c = 0
          <6>1. dispatch.execute /\ primary # {}
            BY <2>2, <2>4, <2>6, <5>2
          <6>2. QED
            BY <2>2, <5>2, <6>1 DEF Primaries
        <5>3. QED
          BY <2>2, <5>1, <5>2
      <4>3. \A j \in DOMAIN attempts : attempts[j].place # i
        BY <2>1, <3>1, <3>5
      <4>4. i \in toTry
        BY <4>1, <4>2, <4>3 DEF OrderInv
      <4>5. CASE k = 1 /\ c = 1
        BY <2>5, <4>2, <4>5 DEF FirstOf
      <4>6. ASSUME NEW j \in 1 .. m, k = c + j
            PROVE  RankedBefore(Calls[k].place, i)
        BY <3>1, <4>4, <4>6
      <4>7. QED
        BY <2>4, <4>5, <4>6
    <3>6. QED
      BY <3>3, <3>4, <3>5
  <2>8. ASSUME NEW i \in Place, At(i).online, At(i).matches,
               At(i).health # "unhealthy"
        PROVE  i \in Candidates
    <3>1. At(i).health \in {"healthy", "constrained", "unhealthy"}
      BY DispatchTyped DEF DispatchInv, TypeOK, Worker
    <3>2. QED
      BY <2>8, <3>1 DEF Candidates, Eligible
  <2>9. \A i \in Candidates :
          /\ At(i).online /\ At(i).matches /\ At(i).health # "unhealthy"
    BY DEF Candidates, Eligible
  <2>10. Len(Calls) <= dispatch.maxAttempts
    BY <2>1, <2>2, <2>3
  <2>11. QED
    BY <2>7, <2>8, <2>9, <2>10, RankMeans
       DEF CallsByPreference, DispatchInv
<1>2. Init => OrderInv
  BY DEF Init, OrderInv
<1>3. QED
  BY DispatchInvariant, OrderStep, <1>1, <1>2, PTL DEF Spec


-----------------------------------------------------------------------------
(***************************************************************************)
(* What the workers have done, and what is told of it.                     *)
(***************************************************************************)
(* A call that is told to have succeeded has had its effect, and one that  *)
(* was not made, or failed in a way that is not ambiguous, has not.        *)
LEMMA EffectOfCall ==
  ASSUME NEW o, Tells(o), NEW n \in CarriedOut(o)
  PROVE  /\ n \in {0, 1}
         /\ o.status = "succeeded" => n = 1
         /\ ~ o.performed => n = 0
         /\ o.status # "succeeded" /\ o.category \notin Ambiguous => n = 0
<1>1. CASE o.status = "succeeded" /\ o.category = "none" /\ o.performed
  <2>1. CarriedOut(o) = {1}
    BY <1>1 DEF CarriedOut
  <2>2. QED
    BY <1>1, <2>1
<1>2. CASE o.status = "failed" /\ o.category \in Ambiguous /\ o.performed
  <2>1. CarriedOut(o) = {0, 1}
    BY <1>2 DEF CarriedOut, Ambiguous
  <2>2. QED
    BY <1>2, <2>1
<1>3. CASE /\ o.status # "succeeded"
           /\ o.category \notin Ambiguous \cup {"none"} /\ ~ o.performed
  <2>1. CarriedOut(o) = {0}
    BY <1>3 DEF CarriedOut, Ambiguous
  <2>2. QED
    BY <1>3, <2>1
<1>4. QED
  BY <1>1, <1>2, <1>3 DEF Tells

PrimaryPerformed   == \E o \in primary : o.performed
FallbackPerformed  == \E i \in DOMAIN attempts : attempts[i].performed
SomeSuccess ==
  \/ \E o \in primary : o.status = "succeeded"
  \/ \E i \in DOMAIN attempts : attempts[i].status = "succeeded"

\* One fallback at most, and after no error that leaves the effect open.
Cautious ==
  dispatch.fallbackOn \cap Ambiguous = {} /\ dispatch.maxAttempts <= 2

\* What the calls have told against what the workers have done, and the
\* result against what the calls have told.
EffectInv ==
  /\ pc # "raised" /\ carriedOut > 0 => PrimaryPerformed \/ FallbackPerformed
  /\ SomeSuccess => carriedOut > 0
  /\ Cautious =>
       /\ carriedOut <= 1
       /\ (\/ pc \in {"select", "primary"}
           \/ pc = "fallback" /\ attempts = <<>>) => carriedOut = 0
  /\ \A r \in result :
       /\ r.performed <=> PrimaryPerformed
       /\ r.fallbackPerformed <=> FallbackPerformed
       /\ r.recovered <=> /\ attempts # <<>>
                          /\ attempts[Len(attempts)].status = "succeeded"
       /\ r.completedEvents = Events({"succeeded"})
       /\ r.failedEvents = Events({"failed", "skipped"})

(* The primary call.                                                       *)
LEMMA PrimaryEffect ==
  ASSUME DispatchInv, EffectInv, NEW o \in PrimaryOutcomes, NEW n \in {0, 1},
         ExecutePrimary(o, n)
  PROVE  EffectInv'
<1>1. /\ pc = "primary" /\ attempts = <<>> /\ primary = {} /\ result = {}
      /\ primary' = {o} /\ n \in CarriedOut(o)
      /\ carriedOut' = carriedOut + n
      /\ UNCHANGED <<dispatch, attempts, result>>
      /\ pc' = IF ShouldTryFallback(o) THEN "fallback" ELSE "record"
      /\ carriedOut \in Nat
  BY DEF ExecutePrimary, DispatchInv, PrimaryKnown, CourseInv, TypeOK
<1>2. /\ DOMAIN attempts = {}
      /\ (PrimaryPerformed \/ FallbackPerformed) = FALSE
  BY <1>1, EmptySeq DEF PrimaryPerformed, FallbackPerformed
<1>3. carriedOut = 0
  BY <1>1, <1>2 DEF EffectInv
<1>4. /\ n \in {0, 1}
      /\ o.status = "succeeded" => n = 1
      /\ ~ o.performed => n = 0
      /\ o.status # "succeeded" /\ o.category \notin Ambiguous => n = 0
  BY <1>1, PrimaryTyped, EffectOfCall DEF DispatchInv
<1>5. /\ PrimaryPerformed' <=> o.performed
      /\ SomeSuccess' <=> o.status = "succeeded"
  BY <1>1, <1>2 DEF PrimaryPerformed, SomeSuccess
<1>6. Cautious /\ pc' = "fallback" => n = 0
  BY <1>1, <1>4 DEF Cautious, ShouldTryFallback
<1>7. Cautious' <=> Cautious
  BY <1>1 DEF Cautious
<1>8. QED
  BY <1>1, <1>3, <1>4, <1>5, <1>6, <1>7 DEF EffectInv

(* A fallback.                                                             *)
LEMMA FallbackEffect ==
  ASSUME DispatchInv, EffectInv, NEW i \in toTry,
         NEW o \in Outcomes(ById(At(i).id)), NEW n \in {0, 1},
         TryFallback(i, o, n)
  PROVE  EffectInv'
<1> DEFINE m == Len(attempts)
<1>1. /\ m \in Nat /\ m < FallbackLimit
      /\ DOMAIN attempts = 1 .. m /\ DOMAIN attempts' = 1 .. m + 1
      /\ \A k \in 1 .. m : attempts'[k] = attempts[k]
      /\ attempts'[m + 1] = o /\ attempts' # <<>>
  BY AttemptAppended DEF DispatchInv
<1>2. attempts = <<>> <=> m = 0
  BY EmptySeq DEF DispatchInv, TypeOK
<1> HIDE DEF m
<1>3. /\ pc = "fallback" /\ result = {} /\ n \in CarriedOut(o)
      /\ carriedOut' = carriedOut + n /\ carriedOut \in Nat
      /\ UNCHANGED <<dispatch, primary, result>>
      /\ pc' # "raised" /\ pc' \notin {"select", "primary"}
  BY DEF TryFallback, DispatchInv, CourseInv, TypeOK
<1>4. Tells(o)
  BY LookupById, OutcomeTyped DEF DispatchInv, TypeOK
<1>5. /\ o.status = "succeeded" => n = 1
      /\ ~ o.performed => n = 0
  BY <1>3, <1>4, EffectOfCall
<1>6. /\ \A k \in 1 .. m + 1 : k \in 1 .. m \/ k = m + 1
      /\ \A k \in 1 .. m : k \in 1 .. m + 1
      /\ m + 1 \in 1 .. m + 1
  BY <1>1
<1>7. /\ PrimaryPerformed' <=> PrimaryPerformed
      /\ FallbackPerformed' <=> FallbackPerformed \/ o.performed
      /\ SomeSuccess' <=> SomeSuccess \/ o.status = "succeeded"
  BY <1>1, <1>3, <1>6
     DEF PrimaryPerformed, FallbackPerformed, SomeSuccess
<1>8. Cautious => carriedOut = 0
  BY <1>1, <1>2, <1>3, DispatchTyped
     DEF EffectInv, Cautious, FallbackLimit, DispatchInv, TypeOK
<1>9. Cautious' <=> Cautious
  BY <1>3 DEF Cautious
<1>10. QED
  BY <1>1, <1>3, <1>5, <1>7, <1>8, <1>9 DEF EffectInv

(* A call that raises is told by nothing.                                  *)
LEMMA RaiseEffect ==
  ASSUME DispatchInv, EffectInv, NEW n \in {0, 1}, CallRaises(n)
  PROVE  EffectInv'
<1>1. /\ Called # {} /\ pc' = "raised" /\ carriedOut' = carriedOut + n
      /\ UNCHANGED <<dispatch, primary, attempts, result>>
      /\ carriedOut \in Nat
  BY DEF CallRaises, DispatchInv, TypeOK
<1>2. \/ pc = "primary"
      \/ pc = "fallback" /\ Len(attempts) < FallbackLimit
  BY <1>1 DEF Called
<1>3. result = {} /\ attempts \in Seq(Outcome) /\ Len(attempts) \in Nat
  BY <1>2, LenProperties DEF DispatchInv, CourseInv, TypeOK
<1>4. Cautious => carriedOut = 0
  BY <1>2, <1>3, EmptySeq, DispatchTyped
     DEF EffectInv, Cautious, FallbackLimit, DispatchInv, TypeOK
<1>5. /\ SomeSuccess' <=> SomeSuccess
      /\ Cautious' <=> Cautious
  BY <1>1 DEF SomeSuccess, Cautious
<1>6. QED
  BY <1>1, <1>3, <1>4, <1>5 DEF EffectInv

(* Every step keeps the account of the effects.                            *)
LEMMA EffectStep == DispatchInv /\ EffectInv /\ [Next]_vars => EffectInv'
<1> SUFFICES ASSUME DispatchInv, EffectInv, [Next]_vars PROVE EffectInv'
  OBVIOUS
<1>1. ASSUME UNCHANGED <<dispatch, primary, attempts, carriedOut, result>>,
             \/ pc' = pc
             \/ pc = "select" /\ pc' = "primary"
             \/ pc = "fallback" /\ pc' = "record"
      PROVE  EffectInv'
  <2>1. /\ PrimaryPerformed' = PrimaryPerformed
        /\ FallbackPerformed' = FallbackPerformed
        /\ SomeSuccess' = SomeSuccess /\ Cautious' = Cautious
        /\ \A S : Events(S)' = Events(S)
    BY <1>1 DEF PrimaryPerformed, FallbackPerformed, SomeSuccess, Cautious,
                Events, Reported
  <2>2. QED
    BY <1>1, <2>1 DEF EffectInv
<1>2. CASE SelectWorker
  BY <1>1, <1>2 DEF SelectWorker
<1>3. ASSUME NEW o \in PrimaryOutcomes, NEW n \in {0, 1},
             ExecutePrimary(o, n)
      PROVE  EffectInv'
  BY <1>3, PrimaryEffect
<1>4. ASSUME NEW i \in toTry, NEW o \in Outcomes(ById(At(i).id)),
             NEW n \in {0, 1}, TryFallback(i, o, n)
      PROVE  EffectInv'
  BY <1>4, FallbackEffect
<1>5. CASE EndFallback
  BY <1>1, <1>5 DEF EndFallback
<1>6. ASSUME NEW n \in {0, 1}, CallRaises(n) PROVE EffectInv'
  BY <1>6, RaiseEffect
<1>7. CASE WriteResult
  <2>1. UNCHANGED <<dispatch, primary, attempts, carriedOut>>
        /\ pc = "record" /\ pc' = "written"
    BY <1>7 DEF WriteResult
  <2>2. /\ PrimaryPerformed' = PrimaryPerformed
        /\ FallbackPerformed' = FallbackPerformed
        /\ SomeSuccess' = SomeSuccess /\ Cautious' = Cautious
        /\ \A S : Events(S)' = Events(S)
    BY <2>1 DEF PrimaryPerformed, FallbackPerformed, SomeSuccess, Cautious,
                Events, Reported
  <2>3. \A r \in result' :
          /\ r.performed <=> PrimaryPerformed
          /\ r.fallbackPerformed <=> FallbackPerformed
          /\ r.recovered <=> /\ attempts # <<>>
                             /\ attempts[Len(attempts)].status = "succeeded"
          /\ r.completedEvents = Events({"succeeded"})
          /\ r.failedEvents = Events({"failed", "skipped"})
    BY <1>7 DEF WriteResult, PrimaryPerformed, FallbackPerformed
  <2>4. QED
    BY <2>1, <2>2, <2>3 DEF EffectInv
<1>8. CASE UNCHANGED vars
  BY <1>1, <1>8 DEF vars
<1>9. QED
  BY <1>2, <1>3, <1>4, <1>5, <1>6, <1>7, <1>8 DEF Next

(* The account holds from the start.                                       *)
LEMMA EffectInvariant == Spec => [](DispatchInv /\ EffectInv)
<1>1. Init => EffectInv
  BY EmptySeq
     DEF Init, EffectInv, PrimaryPerformed, FallbackPerformed, SomeSuccess
<1>2. QED
  BY DispatchInvariant, EffectStep, <1>1, PTL DEF Spec

(* Each outcome has one event, where the primary call was requested.       *)
LEMMA EventsAdd ==
  ASSUME DispatchInv, dispatch.execute, primary # {}
  PROVE  Events({"succeeded"}) + Events({"failed", "skipped"})
           = 1 + Len(attempts)
<1> DEFINE m == Len(attempts)
           A == {i \in DOMAIN Reported : /\ i > 0 \/ dispatch.execute
                                         /\ Reported[i].status
                                              \in {"succeeded"}}
           B == {i \in DOMAIN Reported : /\ i > 0 \/ dispatch.execute
                                         /\ Reported[i].status
                                              \in {"failed", "skipped"}}
<1>1. /\ m \in Nat /\ attempts \in Seq(Outcome) /\ primary \subseteq Outcome
      /\ \A i \in 1 .. m : attempts[i] \in Outcome
  BY LenProperties DEF DispatchInv, TypeOK
<1>2. DOMAIN Reported = 0 .. m
  BY DEF Reported
<1>3. \A i \in 0 .. m : Reported[i].status \in Statuses
  <2>1. (CHOOSE o \in primary : TRUE) \in Outcome
    BY <1>1
  <2>2. \A i \in 0 .. m : i = 0 \/ i \in 1 .. m
    BY <1>1
  <2>3. \A i \in 0 .. m : Reported[i] \in Outcome
    BY <1>1, <2>1, <2>2 DEF Reported
  <2>4. QED
    BY <2>3 DEF Outcome
<1>4. A \cup B = 0 .. m /\ A \cap B = {}
  BY <1>2, <1>3 DEF Statuses
<1>5. /\ IsFiniteSet(0 .. m) /\ Cardinality(0 .. m) = m + 1
  BY <1>1, FS_Interval
<1>6. Cardinality(A) = Events({"succeeded"})
      /\ Cardinality(B) = Events({"failed", "skipped"})
  BY DEF Events
<1> HIDE DEF A, B, m
<1>7. A \in SUBSET (0 .. m) /\ B \in SUBSET (0 .. m)
  BY <1>4
<1>8. /\ IsFiniteSet(A) /\ IsFiniteSet(B)
      /\ Cardinality(A) \in Nat /\ Cardinality(B) \in Nat
  BY <1>5, <1>7, FS_Subset, FS_CardinalityType
<1>9. Cardinality(A \cup B) = Cardinality(A) + Cardinality(B)
                               - Cardinality(A \cap B)
  BY <1>8, FS_Union
<1>10. Cardinality({}) = 0
  BY FS_EmptySet
<1>11. Cardinality(A \cup B) = m + 1 /\ Cardinality(A \cap B) = 0
  BY <1>4, <1>5, <1>10
<1>12. Cardinality(A) + Cardinality(B) = m + 1
  BY <1>1, <1>8, <1>9, <1>11
<1>13. Events({"succeeded"}) + Events({"failed", "skipped"}) = m + 1
  BY <1>6, <1>12
<1>14. QED
  BY <1>1, <1>13 DEF m

(* What the result tells of the calls is true of the workers, and each     *)
(* call has its event.                                                     *)
THEOREM DispatchResultIsTruthful == Spec => []ResultIsTruthful
<1>1. DispatchInv /\ EffectInv => ResultIsTruthful
  <2> SUFFICES ASSUME DispatchInv, EffectInv, NEW r \in result
               PROVE  /\ r.finalStatus = "succeeded" => carriedOut > 0
                      /\ ~ r.performed /\ ~ r.fallbackPerformed
                           => carriedOut = 0
                      /\ dispatch.execute /\ selected # {} =>
                           r.completedEvents + r.failedEvents = Len(Calls)
                      /\ r.recovered <=>
                           /\ r.finalStatus = "succeeded"
                           /\ \A o \in primary : o.status # "succeeded"
    BY DEF ResultIsTruthful
  <2>1. /\ pc = "written" /\ primary # {} /\ r.finalStatus = FinalStatus
        /\ carriedOut \in Nat
    BY DEF DispatchInv, CourseInv, PrimaryKnown, TypeOK
  <2>2. attempts # <<>> =>
          /\ Len(attempts) \in DOMAIN attempts
          /\ \A o \in primary : o.status # "succeeded"
    BY LenProperties, EmptySeq DEF DispatchInv, CourseInv, TypeOK
  <2>3. /\ attempts # <<>> => FinalStatus = attempts[Len(attempts)].status
        /\ attempts = <<>> => \A o \in primary : FinalStatus = o.status
    BY <2>1, FinalIsLast
  <2>4. r.finalStatus = "succeeded" => carriedOut > 0
    BY <2>1, <2>2, <2>3 DEF EffectInv, SomeSuccess
  <2>5. ~ r.performed /\ ~ r.fallbackPerformed => carriedOut = 0
    BY <2>1 DEF EffectInv
  <2>6. dispatch.execute /\ selected # {} =>
          r.completedEvents + r.failedEvents = Len(Calls)
    <3> SUFFICES ASSUME dispatch.execute, selected # {}
                 PROVE  r.completedEvents + r.failedEvents = Len(Calls)
      OBVIOUS
    <3>1. Primaries # {}
      BY <2>1 DEF Primaries
    <3>2. Len(Calls) = 1 + Len(attempts)
      BY <3>1, CallsAre
    <3>3. QED
      BY <2>1, <3>2, EventsAdd DEF EffectInv
  <2>7. r.recovered <=> /\ r.finalStatus = "succeeded"
                        /\ \A o \in primary : o.status # "succeeded"
    BY <2>1, <2>2, <2>3 DEF EffectInv
  <2>8. QED
    BY <2>4, <2>5, <2>6, <2>7
<1>2. QED
  BY EffectInvariant, <1>1, PTL

(* With one fallback at most, and none after an error that leaves open     *)
(* whether the worker has carried the task out, it is carried out once at  *)
(* most.                                                                   *)
THEOREM DispatchNotCarriedOutTwice == Spec => []NotCarriedOutTwice
<1>1. EffectInv => NotCarriedOutTwice
  BY DEF EffectInv, Cautious, NotCarriedOutTwice
<1>2. QED
  BY EffectInvariant, <1>1, PTL

=============================================================================
