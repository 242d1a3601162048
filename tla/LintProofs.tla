----------------------------- MODULE LintProofs -----------------------------
(***************************************************************************)
(* What holds of analyse() for every model that loads.                     *)
(***************************************************************************)
EXTENDS Lint, ModelProofs

-----------------------------------------------------------------------------
(* Sequences made of a set. *)

\* SetToSeq lists every element of a finite set once.
LEMMA Listing ==
  ASSUME NEW S, IsFiniteSet(S)
  PROVE  /\ SetToSeq(S) \in Seq(S)
         /\ ToSet(SetToSeq(S)) = S
         /\ \A i, j \in DOMAIN SetToSeq(S) : SetToSeq(S)[i] = SetToSeq(S)[j] => i = j
<1> DEFINE n == Cardinality(S)
<1>1. n \in Nat /\ ExistsBijection(1 .. n, S)
  BY FS_CardinalityType
<1>2. PICK b : b \in Bijection(1 .. n, S)
  BY <1>1 DEF ExistsBijection
<1>3. b \in [1 .. n -> S] /\ IsInjective(b)
  BY <1>2 DEF Bijection, Injection, IsInjective
<1>4. SetToSeq(S) \in [1 .. n -> S] /\ IsInjective(SetToSeq(S))
  BY <1>3 DEF SetToSeq
<1>5. SetToSeq(S) \in Injection(1 .. n, S)
  BY <1>4 DEF Injection, IsInjective
<1>6. SetToSeq(S) \in Surjection(1 .. n, S)
  BY <1>1, <1>5, FS_Injection, FS_Interval
<1>7. ToSet(SetToSeq(S)) = S
  BY <1>4, <1>6 DEF Surjection, ToSet
<1> QED
  BY <1>1, <1>4, <1>7 DEF IsInjective

\* A pop, then a push of q.
LEMMA Pushed ==
  ASSUME NEW T, NEW p \in Seq(T), p # <<>>, NEW q \in Seq(T)
  PROVE  LET r == Front(p) \o q IN
         /\ Last(p) \in T /\ Len(p) \in Nat /\ Len(p) >= 1 /\ Len(q) \in Nat
         /\ r \in Seq(T) /\ Len(r) = Len(p) - 1 + Len(q)
         /\ \A i \in 1 .. Len(p) - 1 : r[i] = p[i]
         /\ \A i \in 1 .. Len(q) : r[Len(p) - 1 + i] = q[i]
<1>1. Len(p) \in Nat /\ Len(p) >= 1 /\ Len(q) \in Nat /\ Last(p) \in T
  BY DEF Last
<1>2. /\ Front(p) \in Seq(T) /\ Len(Front(p)) = Len(p) - 1
      /\ \A i \in 1 .. Len(p) - 1 : Front(p)[i] = p[i]
  <2>1. 1 \in Int /\ Len(p) - 1 \in Int /\ \A i \in 1 .. Len(p) - 1 : p[i] \in T
    BY <1>1
  <2>2. /\ SubSeq(p, 1, Len(p) - 1) \in Seq(T)
        /\ Len(SubSeq(p, 1, Len(p) - 1)) =
             IF 1 <= Len(p) - 1 THEN Len(p) - 1 - 1 + 1 ELSE 0
        /\ \A i \in 1 .. Len(p) - 1 - 1 + 1 : SubSeq(p, 1, Len(p) - 1)[i] = p[1 + i - 1]
    BY <2>1, SubSeqProperties
  <2>3. Len(SubSeq(p, 1, Len(p) - 1)) = Len(p) - 1
    <3> DEFINE n == Len(p)
    <3>1. n \in Nat /\ n >= 1 /\ Len(SubSeq(p, 1, n - 1)) = IF 1 <= n - 1 THEN n - 1 - 1 + 1 ELSE 0
      BY <1>1, <2>2
    <3> HIDE DEF n
    <3>2. CASE n = 1
      BY <3>1, <3>2 DEF n
    <3>3. CASE n > 1
      BY <3>1, <3>3 DEF n
    <3> QED
      BY <3>1, <3>2, <3>3
  <2>4. ASSUME NEW i \in 1 .. Len(p) - 1 PROVE SubSeq(p, 1, Len(p) - 1)[i] = p[i]
    <3>1. i \in 1 .. Len(p) - 1 - 1 + 1 /\ 1 + i - 1 = i
      BY <1>1
    <3> QED
      BY <2>2, <3>1
  <2> QED
    BY <2>2, <2>3, <2>4 DEF Front
<1> DEFINE f == Front(p)
           r == f \o q
<1> HIDE DEF f
<1>3. /\ r \in Seq(T) /\ Len(r) = Len(f) + Len(q)
      /\ \A i \in 1 .. Len(f) + Len(q) : r[i] = IF i <= Len(f) THEN f[i] ELSE q[i - Len(f)]
  <2>1. f \in Seq(T)
    BY <1>2 DEF f
  <2> QED
    BY <2>1, ConcatProperties
<1>4. Len(f) = Len(p) - 1 /\ \A i \in 1 .. Len(p) - 1 : f[i] = p[i]
  BY <1>2 DEF f
<1> HIDE DEF r
<1>5. ASSUME NEW i \in 1 .. Len(p) - 1 PROVE r[i] = p[i]
  <2>1. i \in 1 .. Len(f) + Len(q) /\ i <= Len(f)
    BY <1>1, <1>4
  <2> QED
    BY <1>3, <1>4, <2>1
<1>6. ASSUME NEW i \in 1 .. Len(q) PROVE r[Len(p) - 1 + i] = q[i]
  <2> DEFINE j == Len(p) - 1 + i
  <2>1. j \in 1 .. Len(f) + Len(q) /\ ~(j <= Len(f)) /\ j - Len(f) = i
    BY <1>1, <1>4
  <2> HIDE DEF j
  <2>2. r[j] = q[j - Len(f)]
    BY <1>3, <2>1
  <2> QED
    BY <2>1, <2>2 DEF j
<1> QED
  BY <1>1, <1>3, <1>4, <1>5, <1>6 DEF r, f

\* What a pop and a push do to the set of elements: the last one leaves, unless
\* it is there twice.
LEMMA PushedSet ==
  ASSUME NEW T, NEW p \in Seq(T), p # <<>>, NEW q \in Seq(T),
         \A i, j \in DOMAIN p : p[i] = p[j] => i = j
  PROVE  ToSet(Front(p) \o q) = (ToSet(p) \ {Last(p)}) \cup ToSet(q)
<1> DEFINE r == Front(p) \o q
<1>1. /\ Len(p) \in Nat /\ Len(p) >= 1 /\ Len(q) \in Nat
      /\ r \in Seq(T) /\ Len(r) = Len(p) - 1 + Len(q)
      /\ \A i \in 1 .. Len(p) - 1 : r[i] = p[i]
      /\ \A i \in 1 .. Len(q) : r[Len(p) - 1 + i] = q[i]
  BY Pushed, SMTT(30)
<1> HIDE DEF r
<1>2. /\ DOMAIN p = 1 .. Len(p) /\ DOMAIN q = 1 .. Len(q) /\ DOMAIN r = 1 .. Len(r)
  BY <1>1
<1>3. ASSUME NEW x \in ToSet(r) PROVE x \in (ToSet(p) \ {Last(p)}) \cup ToSet(q)
  <2>1. PICK i \in 1 .. Len(r) : x = r[i]
    BY <1>2 DEF ToSet
  <2>2. CASE i \in 1 .. Len(p) - 1
    <3> DEFINE n == Len(p)
    <3>0. n \in Nat /\ n >= 1 /\ i \in 1 .. n - 1 /\ DOMAIN p = 1 .. n
      BY <1>1, <1>2, <2>2
    <3>1. i \in DOMAIN p /\ Len(p) \in DOMAIN p /\ i # Len(p)
      <4> HIDE DEF n
      <4>1. i \in 1 .. n /\ n \in 1 .. n /\ i # n
        BY <3>0
      <4> QED
        BY <3>0, <4>1 DEF n
    <3>2. x = p[i]
      BY <1>1, <2>1, <2>2
    <3> QED
      BY <3>1, <3>2 DEF ToSet, Last
  <2>3. CASE i \notin 1 .. Len(p) - 1
    <3>1. i - (Len(p) - 1) \in DOMAIN q /\ i = Len(p) - 1 + (i - (Len(p) - 1))
      BY <1>1, <1>2, <2>1, <2>3
    <3>2. x = q[i - (Len(p) - 1)]
      BY <1>1, <1>2, <2>1, <3>1
    <3> QED
      BY <3>1, <3>2 DEF ToSet
  <2> QED
    BY <2>2, <2>3
<1>4. ASSUME NEW x \in ToSet(p), x # Last(p) PROVE x \in ToSet(r)
  <2>1. PICK i \in 1 .. Len(p) : x = p[i]
    BY <1>2, <1>4 DEF ToSet
  <2>2. i \in 1 .. Len(p) - 1 /\ i \in DOMAIN r
    BY <1>1, <1>2, <1>4, <2>1 DEF Last
  <2> QED
    BY <1>1, <2>1, <2>2 DEF ToSet
<1>5. ASSUME NEW x \in ToSet(q) PROVE x \in ToSet(r)
  <2>1. PICK i \in 1 .. Len(q) : x = q[i]
    BY <1>2 DEF ToSet
  <2>2. Len(p) - 1 + i \in DOMAIN r
    BY <1>1, <1>2, <2>1
  <2> QED
    BY <1>1, <2>1, <2>2 DEF ToSet
<1> QED
  BY <1>3, <1>4, <1>5 DEF r

\* The elements stay distinct if those pushed are new.
LEMMA PushedDistinct ==
  ASSUME NEW T, NEW p \in Seq(T), p # <<>>, NEW q \in Seq(T),
         \A i, j \in DOMAIN p : p[i] = p[j] => i = j,
         \A i, j \in DOMAIN q : q[i] = q[j] => i = j,
         ToSet(p) \cap ToSet(q) = {}
  PROVE  \A i, j \in DOMAIN (Front(p) \o q) :
           (Front(p) \o q)[i] = (Front(p) \o q)[j] => i = j
<1> DEFINE r == Front(p) \o q
<1>1. /\ Len(p) \in Nat /\ Len(p) >= 1 /\ Len(q) \in Nat
      /\ r \in Seq(T) /\ Len(r) = Len(p) - 1 + Len(q)
      /\ \A k \in 1 .. Len(p) - 1 : r[k] = p[k]
      /\ \A k \in 1 .. Len(q) : r[Len(p) - 1 + k] = q[k]
  BY Pushed, SMTT(30)
<1> SUFFICES ASSUME NEW i \in DOMAIN r, NEW j \in DOMAIN r, r[i] = r[j]
             PROVE  i = j
  OBVIOUS
<1>2. i \in DOMAIN r /\ j \in DOMAIN r /\ r[i] = r[j]
  OBVIOUS
<1> HIDE DEF r
<1>3. DOMAIN p = 1 .. Len(p) /\ DOMAIN q = 1 .. Len(q) /\ DOMAIN r = 1 .. Len(r)
  BY <1>1
<1>4. ASSUME NEW k \in DOMAIN r
      PROVE  \/ k \in DOMAIN p /\ k < Len(p) /\ r[k] = p[k]
             \/ k >= Len(p) /\ k - (Len(p) - 1) \in DOMAIN q /\ r[k] = q[k - (Len(p) - 1)]
  <2>1. CASE k \in 1 .. Len(p) - 1
    <3>1. k \in DOMAIN p /\ k < Len(p)
      BY <1>1, <1>3, <2>1
    <3>2. r[k] = p[k]
      BY <1>1, <2>1
    <3> QED
      BY <3>1, <3>2
  <2>2. CASE k \notin 1 .. Len(p) - 1
    <3>1. k >= Len(p) /\ k - (Len(p) - 1) \in 1 .. Len(q)
      BY <1>1, <1>3, <2>2
    <3>2. k = Len(p) - 1 + (k - (Len(p) - 1))
      BY <1>1, <1>3
    <3>3. r[k] = q[k - (Len(p) - 1)]
      BY <1>1, <3>1, <3>2
    <3> QED
      BY <1>3, <3>1, <3>3
  <2> QED
    BY <2>1, <2>2
<1>5. \A x \in DOMAIN p, y \in DOMAIN q : p[x] # q[y]
  BY DEF ToSet
<1>6. i \in Int /\ j \in Int
  BY <1>1, <1>2, <1>3
<1>7. CASE i < Len(p) /\ j < Len(p)
  <2>1. i \in DOMAIN p /\ j \in DOMAIN p /\ p[i] = p[j]
    BY <1>1, <1>2, <1>4, <1>6, <1>7
  <2> QED
    BY <2>1
<1>8. CASE i >= Len(p) /\ j >= Len(p)
  <2>1. i - (Len(p) - 1) \in DOMAIN q /\ j - (Len(p) - 1) \in DOMAIN q
    BY <1>1, <1>2, <1>4, <1>6, <1>8
  <2>2. q[i - (Len(p) - 1)] = q[j - (Len(p) - 1)]
    <3>1. r[i] = q[i - (Len(p) - 1)]
      BY <1>1, <1>2, <1>4, <1>6, <1>8
    <3>2. r[j] = q[j - (Len(p) - 1)]
      BY <1>1, <1>2, <1>4, <1>6, <1>8
    <3> QED
      BY <1>2, <3>1, <3>2
  <2>3. i - (Len(p) - 1) = j - (Len(p) - 1)
    BY <2>1, <2>2
  <2> QED
    BY <1>1, <1>6, <2>3
<1>9. CASE i < Len(p) /\ j >= Len(p)
  <2>1. i \in DOMAIN p /\ r[i] = p[i]
    BY <1>1, <1>2, <1>4, <1>6, <1>9
  <2>2. j - (Len(p) - 1) \in DOMAIN q /\ r[j] = q[j - (Len(p) - 1)]
    BY <1>1, <1>2, <1>4, <1>6, <1>9
  <2> QED
    BY <1>2, <1>5, <2>1, <2>2
<1>10. CASE i >= Len(p) /\ j < Len(p)
  <2>1. j \in DOMAIN p /\ r[j] = p[j]
    BY <1>1, <1>2, <1>4, <1>6, <1>10
  <2>2. i - (Len(p) - 1) \in DOMAIN q /\ r[i] = q[i - (Len(p) - 1)]
    BY <1>1, <1>2, <1>4, <1>6, <1>10
  <2> QED
    BY <1>2, <1>5, <2>1, <2>2
<1> QED
  BY <1>1, <1>6, <1>7, <1>8, <1>9, <1>10

-----------------------------------------------------------------------------
(* Type correctness. *)

\* validate() has looked at every target.
LEMMA TargetsAreStates ==
  ASSUME NEW m, Validate(m) = "Ok", NEW s \in DOMAIN m.states
  PROVE  Targets(m, s) \subseteq DOMAIN m.states
<1>1. \A t \in DOMAIN m.states[s].transitions :
        \A i \in DOMAIN m.states[s].transitions[t] :
          m.states[s].transitions[t][i].target \in DOMAIN m.states
  BY DEF Validate, AlternativeValid, HasState
<1>2. ASSUME NEW a \in AlternativesOf(m, s) PROVE a.target \in DOMAIN m.states
  <2>1. PICK t \in DOMAIN m.states[s].transitions : a \in ToSet(Listed(m, s, t))
    BY <1>2 DEF AlternativesOf
  <2> QED
    BY <1>1, <2>1 DEF ToSet, Listed
<1> QED
  BY <1>2 DEF Targets

\* The states a visit pushes, as a sequence.
LEMMA FreshListed ==
  ASSUME Loadable(model), NEW from \in DOMAIN model.states
  PROVE  /\ Fresh(from) \subseteq DOMAIN model.states
         /\ SetToSeq(Fresh(from)) \in Seq(DOMAIN model.states)
         /\ ToSet(SetToSeq(Fresh(from))) = Fresh(from)
         /\ \A i, j \in DOMAIN SetToSeq(Fresh(from)) :
              SetToSeq(Fresh(from))[i] = SetToSeq(Fresh(from))[j] => i = j
<1>1. Fresh(from) \subseteq DOMAIN model.states
  BY TargetsAreStates DEF Fresh, Loadable
<1>2. IsFiniteSet(Fresh(from))
  BY <1>1, FS_Subset DEF Loadable
<1>3. /\ SetToSeq(Fresh(from)) \in Seq(Fresh(from))
      /\ ToSet(SetToSeq(Fresh(from))) = Fresh(from)
      /\ \A i, j \in DOMAIN SetToSeq(Fresh(from)) :
           SetToSeq(Fresh(from))[i] = SetToSeq(Fresh(from))[j] => i = j
  BY <1>2, Listing
<1>4. SetToSeq(Fresh(from)) \in Seq(DOMAIN model.states)
  BY <1>1, <1>3, SeqMonotonic
<1> QED
  BY <1>1, <1>3, <1>4

\* Appending to a sequence adds to its elements.
LEMMA FindingAppended ==
  ASSUME NEW T, NEW s \in Seq(T), NEW e
  PROVE  /\ Append(s, e) \in Seq(T \cup {e})
         /\ Len(Append(s, e)) = Len(s) + 1 /\ Len(s) \in Nat
         /\ ToSet(Append(s, e)) = ToSet(s) \cup {e}
<1>1. s \in Seq(T \cup {e}) /\ Len(s) \in Nat /\ DOMAIN s = 1 .. Len(s)
  BY SeqMonotonic
<1> DEFINE t == Append(s, e)
<1>2. /\ t \in Seq(T \cup {e}) /\ Len(t) = Len(s) + 1 /\ DOMAIN t = 1 .. Len(s) + 1
      /\ \A i \in 1 .. Len(s) : t[i] = s[i]
      /\ t[Len(s) + 1] = e
  BY <1>1
<1> HIDE DEF t
<1>3. ASSUME NEW x \in ToSet(t) PROVE x \in ToSet(s) \cup {e}
  BY <1>1, <1>2, <1>3 DEF ToSet
<1>4. ASSUME NEW x \in ToSet(s) \cup {e} PROVE x \in ToSet(t)
  BY <1>1, <1>2, <1>4 DEF ToSet
<1>5. ToSet(t) = ToSet(s) \cup {e}
  BY <1>3, <1>4
<1> QED
  BY <1>1, <1>2, <1>5 DEF t

Logs ==
  /\ \A log \in {report, found} : log \in Seq(ToSet(found))
  /\ Len(report) <= kMaxFindings

\* record() keeps the report within its capacity and among the findings, and a
\* report that says it had room has them all.
LEMMA RecordKeeps ==
  ASSUME Logs, NEW f, Record(f)
  PROVE  /\ Logs'
         /\ ToSet(found') = ToSet(found) \cup {f}
         /\ (room => report = found) => (room' => report' = found')
<1>1. /\ report \in Seq(ToSet(found)) /\ found \in Seq(ToSet(found))
      /\ Len(report) <= kMaxFindings /\ found' = Append(found, f)
  BY DEF Logs, Record
<1>2. /\ found' \in Seq(ToSet(found'))
      /\ ToSet(found') = ToSet(found) \cup {f}
  <2>1. /\ Append(found, f) \in Seq(ToSet(found) \cup {f})
        /\ ToSet(Append(found, f)) = ToSet(found) \cup {f}
    BY <1>1, FindingAppended
  <2> QED
    BY <1>1, <2>1
<1>3. CASE Len(report) >= kMaxFindings
  <2>1. report' = report /\ room' = FALSE
    BY <1>3 DEF Record
  <2>2. report' \in Seq(ToSet(found'))
    BY <1>1, <1>2, <2>1, SeqMonotonic
  <2> QED
    BY <1>1, <1>2, <2>1, <2>2 DEF Logs
<1>4. CASE ~(Len(report) >= kMaxFindings)
  <2>1. report' = Append(report, f) /\ room' = room
    BY <1>4 DEF Record
  <2>2. report' \in Seq(ToSet(found')) /\ Len(report') <= kMaxFindings
    BY <1>1, <1>2, <1>4, <2>1, FindingAppended, FindingsAssumption
  <2> QED
    BY <1>1, <1>2, <2>1, <2>2 DEF Logs
<1> QED
  BY <1>3, <1>4

\* A stack with one state on it, as BeginSearch makes it.
LEMMA OneElement ==
  ASSUME NEW S, NEW e \in S
  PROVE  <<e>> \in Seq(S)
OBVIOUS

\* The search and the report start empty.
LEMMA InitTypeOK == Init => TypeOK
BY ModelsAssumption, FindingsAssumption DEF Init, TypeOK, ToSet

\* Each step of analyse() keeps the types.
LEMMA NextTypeOK == TypeOK /\ [Next]_vars => TypeOK'
<1> SUFFICES ASSUME TypeOK, [Next]_vars PROVE TypeOK'
  OBVIOUS
<1> USE DEF given, search, outcome
<1>1. Logs
  BY DEF TypeOK, Logs
<1>2. CASE SkipSearch
  BY <1>2 DEF SkipSearch, Enter, TypeOK
<1>3. CASE BeginSearch
  <2>1. initial \in DOMAIN model.states
    BY <1>3 DEF BeginSearch, CanSearch, HasState
  <2>2. Places(model, "begin") = {} /\ todo = {}
    BY <1>3 DEF BeginSearch, TypeOK, Places
  <2>3. <<initial>> \in Seq(DOMAIN model.states) /\ {initial} \subseteq DOMAIN model.states
    BY <2>1, OneElement
  <2>4. /\ model' = model /\ initial' = initial /\ stage' = "search" /\ todo' = {}
        /\ pending' = <<initial>> /\ reached' = {initial} /\ visited' = visited
        /\ report' = report /\ found' = found
    BY <1>3, <2>2 DEF BeginSearch
  <2>5. todo' \subseteq Places(model, "search")'
    BY <2>4
  <2> QED
    BY <2>3, <2>4, <2>5 DEF TypeOK
<1>4. CASE Visit
  <2>1. /\ pending \in Seq(DOMAIN model.states) /\ pending # <<>>
        /\ pending' = Front(pending) \o SetToSeq(Fresh(Last(pending)))
        /\ reached' = reached \cup Fresh(Last(pending))
        /\ visited' = visited \cup {Last(pending)}
        /\ UNCHANGED <<given, stage, todo, outcome>>
    BY <1>4 DEF Visit, TypeOK
  <2>2. Last(pending) \in DOMAIN model.states
    BY <2>1, EmptySeq, Pushed
  <2>3. /\ Fresh(Last(pending)) \subseteq DOMAIN model.states
        /\ SetToSeq(Fresh(Last(pending))) \in Seq(DOMAIN model.states)
    BY <2>2, FreshListed DEF TypeOK
  <2>4. pending' \in Seq(DOMAIN model.states)
    BY <2>1, <2>3, Pushed
  <2> QED
    BY <2>1, <2>2, <2>3, <2>4 DEF TypeOK
<1>5. CASE SearchEnds
  BY <1>5 DEF SearchEnds, Enter, TypeOK
<1>6. ASSUME NEW place \in todo, Check(place) PROVE TypeOK'
  <2>1. UNCHANGED <<given, search, stage>> /\ todo' = todo \ {place}
    BY <1>6 DEF Check
  <2>2. Logs'
    <3>1. CASE FoundAt(model, reached, stage, place) = <<>>
      BY <1>1, <1>6, <3>1 DEF Check, Logs
    <3>2. CASE FoundAt(model, reached, stage, place) # <<>>
      BY <1>1, <1>6, <3>2, RecordKeeps DEF Check
    <3> QED
      BY <3>1, <3>2
  <2> QED
    BY <2>1, <2>2 DEF TypeOK, Logs
<1>7. CASE CheckEnds
  BY <1>7 DEF CheckEnds, Enter, FollowedBy, TypeOK
<1>8. CASE UNCHANGED vars
  BY <1>8 DEF vars, TypeOK, Loadable
<1> QED
  BY <1>2, <1>3, <1>4, <1>5, <1>6, <1>7, <1>8 DEF Next

\* The search stays among the model's states, a check among its places, and the
\* report within its capacity, for every model that loads.
THEOREM AnalysisTypeCorrect == Spec => []TypeOK
BY InitTypeOK, NextTypeOK, PTL DEF Spec

-----------------------------------------------------------------------------
(* The search. *)

\* A search that is over has popped all it flagged; each popped state has had
\* its targets flagged; and nothing is flagged that a set enclosing the initial
\* state could leave out.
SearchInv ==
  /\ SearchVisitsOnce
  /\ stage = "begin" => pending = <<>> /\ reached = {} /\ visited = {}
  /\ stage \notin {"begin", "search"} => pending = <<>>
  /\ stage \in {"search", "unreachable"} => CanSearch
  /\ CanSearch /\ stage # "begin" => initial \in reached
  /\ \A s \in visited : Targets(model, s) \subseteq reached
  /\ \A S \in SUBSET DOMAIN model.states : Encloses(S) => reached \subseteq S

\* The empty stack, and the empty report.
LEMMA EmptyStack == ToSet(<<>>) = {} /\ DOMAIN <<>> = {} /\ Len(<<>>) = 0
BY DEF ToSet

\* Before the search no state has a flag.
LEMMA InitSearch == Init => SearchInv
BY EmptyStack, CapacityAssumption DEF Init, SearchInv, SearchVisitsOnce

\* A stack of distinct states is no longer than the table of states.
LEMMA StackFits ==
  ASSUME Loadable(model), NEW p \in Seq(DOMAIN model.states),
         \A i, j \in DOMAIN p : p[i] = p[j] => i = j
  PROVE  Len(p) <= kMaxStates
<1>1. Len(p) \in Nat /\ p \in [1 .. Len(p) -> DOMAIN model.states]
  OBVIOUS
<1>2. p \in Injection(1 .. Len(p), DOMAIN model.states)
  BY <1>1 DEF Injection, IsInjective
<1>3. Cardinality(1 .. Len(p)) <= Cardinality(DOMAIN model.states)
  BY <1>2, FS_Injection DEF Loadable
<1>4. Cardinality(1 .. Len(p)) = Len(p)
  <2>1. Cardinality(1 .. Len(p)) = IF 1 > Len(p) THEN 0 ELSE Len(p) - 1 + 1
    BY <1>1, FS_Interval
  <2> QED
    BY <1>1, <2>1
<1>5. Cardinality(DOMAIN model.states) \in Nat /\ Cardinality(DOMAIN model.states) <= kMaxStates
  BY FS_CardinalityType DEF Loadable
<1> QED
  BY <1>1, <1>3, <1>4, <1>5, CapacityAssumption

\* Only BeginSearch and Visit move the search; a visit pops one state and
\* pushes those it flags.
LEMMA NextSearch == TypeOK /\ SearchInv /\ [Next]_vars => SearchInv'
<1> SUFFICES ASSUME TypeOK, SearchInv, [Next]_vars PROVE SearchInv'
  OBVIOUS
<1> USE DEF given, search, outcome
<1>1. ASSUME UNCHANGED <<given, search>>,
             stage # "begin" \/ ~CanSearch \/ stage' = "begin",
             stage' = stage \/ (stage' \notin {"begin", "search", "unreachable"} /\ pending = <<>>)
               \/ (stage = "search" /\ stage' = "unreachable" /\ pending = <<>>)
      PROVE  SearchInv'
  BY <1>1 DEF SearchInv, SearchVisitsOnce, Encloses, CanSearch, HasState
<1>2. CASE SkipSearch
  BY <1>1, <1>2 DEF SkipSearch, Enter, SearchInv
<1>3. CASE BeginSearch
  <2>1. /\ pending' = <<initial>> /\ reached' = {initial} /\ visited' = {} /\ stage' = "search"
        /\ model' = model /\ initial' = initial /\ CanSearch /\ CanSearch'
    BY <1>3 DEF BeginSearch, SearchInv, CanSearch, HasState
  <2>2. ToSet(<<initial>>) = {initial} /\ DOMAIN <<initial>> = {1}
    BY DEF ToSet
  <2>3. pending \in Seq(DOMAIN model.states) /\ Len(<<initial>>) <= kMaxStates
    <3>1. <<initial>> \in Seq(DOMAIN model.states)
      BY <2>1, OneElement DEF CanSearch, HasState
    <3> QED
      BY <2>2, <3>1, StackFits DEF TypeOK
  <2>4. SearchVisitsOnce'
    BY <2>1, <2>2, <2>3 DEF SearchVisitsOnce
  <2> QED
    BY <2>1, <2>4 DEF SearchInv, Encloses
<1>4. CASE Visit
  <2> DEFINE from == Last(pending)
             push == SetToSeq(Fresh(from))
  <2>1. /\ pending \in Seq(DOMAIN model.states) /\ pending # <<>>
        /\ pending' = Front(pending) \o push
        /\ reached' = reached \cup Fresh(from)
        /\ visited' = visited \cup {from}
        /\ model' = model /\ initial' = initial /\ stage' = "search" /\ stage = "search"
    BY <1>4 DEF Visit, TypeOK
  <2>2. from \in DOMAIN model.states /\ from \in ToSet(pending)
    <3>1. Len(pending) \in Nat /\ Len(pending) >= 1 /\ DOMAIN pending = 1 .. Len(pending)
      BY <2>1, EmptySeq, Pushed
    <3>2. from \in DOMAIN model.states
      BY <2>1, EmptySeq, Pushed
    <3> QED
      BY <3>1, <3>2 DEF ToSet, Last
  <2>3. /\ Fresh(from) \subseteq DOMAIN model.states
        /\ push \in Seq(DOMAIN model.states)
        /\ ToSet(push) = Fresh(from)
        /\ \A i, j \in DOMAIN push : push[i] = push[j] => i = j
    BY <2>2, FreshListed DEF TypeOK
  <2> HIDE DEF from, push
  <2>4. /\ \A i, j \in DOMAIN pending : pending[i] = pending[j] => i = j
        /\ ToSet(pending) \cap visited = {}
        /\ reached = ToSet(pending) \cup visited
    BY DEF SearchInv, SearchVisitsOnce
  <2>5. ToSet(pending) \cap ToSet(push) = {} /\ visited \cap ToSet(push) = {}
    BY <2>3, <2>4 DEF Fresh
  <2>6. ToSet(pending') = (ToSet(pending) \ {from}) \cup ToSet(push)
    BY <2>1, <2>3, <2>4, PushedSet DEF from
  <2>7. \A i, j \in DOMAIN pending' : pending'[i] = pending'[j] => i = j
    <3>1. \A i, j \in DOMAIN (Front(pending) \o push) :
            (Front(pending) \o push)[i] = (Front(pending) \o push)[j] => i = j
      <4>1. pending \in Seq(DOMAIN model.states) /\ pending # <<>>
        BY <2>1
      <4>2. push \in Seq(DOMAIN model.states)
        BY <2>3
      <4>3. \A i, j \in DOMAIN push : push[i] = push[j] => i = j
        BY <2>3
      <4>4. \A i, j \in DOMAIN pending : pending[i] = pending[j] => i = j
        BY <2>4
      <4>5. ToSet(pending) \cap ToSet(push) = {}
        BY <2>5
      <4> QED
        BY <4>1, <4>2, <4>3, <4>4, <4>5, PushedDistinct
    <3> QED
      BY <2>1, <3>1
  <2>8. pending' \in Seq(DOMAIN model.states)
    BY <2>1, <2>3, Pushed
  <2>9. Len(pending') <= kMaxStates
    BY <2>7, <2>8, StackFits DEF TypeOK
  <2>10. SearchVisitsOnce'
    BY <2>1, <2>2, <2>3, <2>4, <2>5, <2>6, <2>7, <2>9 DEF SearchVisitsOnce
  <2>11. \A s \in visited' : Targets(model, s) \subseteq reached'
    BY <2>1 DEF SearchInv, Fresh
  <2>12. ASSUME NEW S \in SUBSET DOMAIN model.states, Encloses(S) PROVE reached' \subseteq S
    <3>1. reached \subseteq S
      BY <2>12 DEF SearchInv
    <3>2. from \in S
      BY <2>2, <2>4, <3>1
    <3>3. Fresh(from) \subseteq S
      BY <2>12, <3>2 DEF Encloses, Fresh
    <3> QED
      BY <2>1, <3>1, <3>3
  <2>13. \A S : Encloses(S)' = Encloses(S)
    BY <2>1 DEF Encloses
  <2>14. CanSearch' = CanSearch /\ CanSearch /\ initial \in reached'
    BY <2>1 DEF SearchInv, CanSearch, HasState
  <2> QED
    BY <2>1, <2>10, <2>11, <2>12, <2>13, <2>14 DEF SearchInv
<1>5. CASE SearchEnds
  BY <1>1, <1>5 DEF SearchEnds, Enter
<1>6. ASSUME NEW place \in todo, Check(place) PROVE SearchInv'
  BY <1>1, <1>6 DEF Check, SearchInv
<1>7. CASE CheckEnds
  <2>1. stage' \notin {"begin", "search", "unreachable"} /\ pending = <<>> /\ stage # "begin"
    BY <1>7 DEF CheckEnds, Enter, FollowedBy, SearchInv
  <2> QED
    BY <1>1, <1>7, <2>1 DEF CheckEnds
<1>8. CASE UNCHANGED vars
  BY <1>1, <1>8 DEF vars
<1> QED
  BY <1>2, <1>3, <1>4, <1>5, <1>6, <1>7, <1>8 DEF Next

\* The stack never holds a state twice, so it fits its buffer, and no state is
\* popped twice, so the search ends after as many steps as there are states.
THEOREM SearchOnce == Spec => []SearchVisitsOnce
<1>1. Init => TypeOK /\ SearchInv
  BY InitTypeOK, InitSearch
<1>2. TypeOK /\ SearchInv /\ [Next]_vars => (TypeOK /\ SearchInv)'
  BY NextTypeOK, NextSearch
<1>3. SearchInv => SearchVisitsOnce
  BY DEF SearchInv
<1> QED
  BY <1>1, <1>2, <1>3, PTL DEF Spec

-----------------------------------------------------------------------------
(* Guards. *)

\* An alternative holds when each of its conditions does.
LEMMA HoldsEach ==
  ASSUME NEW m, m.conditions \in Seq(Comparison), NEW a \in Alternative,
         a.first + a.count <= Len(m.conditions), NEW args
  PROVE  AlternativeHolds(m, a, args) <=> \A c \in ConditionsOf(m, a) : Holds(c, args)
<1>1. ASSUME NEW i \in 1 .. a.count PROVE a.first + i <= Len(m.conditions)
  <2>1. a.first \in Nat /\ a.count \in Nat /\ Len(m.conditions) \in Nat
    BY DEF Alternative
  <2> QED
    BY <1>1, <2>1
<1> QED
  BY <1>1 DEF AlternativeHolds, ConditionsOf

\* Max and Min of numbers that have a bound.
LEMMA MaxIs ==
  ASSUME NEW S \in SUBSET Int, S # {}, NEW b \in Int, \A x \in S : x <= b
  PROVE  Max(S) \in S /\ \A x \in S : x <= Max(S)
<1>1. \E i \in S : \A j \in S : i >= j
  BY GreatestInteger
<1> QED
  BY <1>1 DEF Max

\* The least of a set of integers, as the folds compute it.
LEMMA MinIs ==
  ASSUME NEW S \in SUBSET Int, S # {}, NEW b \in Int, \A x \in S : b <= x
  PROVE  Min(S) \in S /\ \A x \in S : Min(S) <= x
<1>1. \E i \in S : \A j \in S : i <= j
  BY LeastInteger
<1> QED
  BY <1>1 DEF Min

\* Conditions about one argument that hold together are not found unsatisfiable.
LEMMA SatisfiedIsSatisfiable ==
  ASSUME NEW C \in SUBSET Comparison, NEW args \in Arguments, NEW c0 \in C,
         \A c \in C : Holds(c, args)
  PROVE  ~Unsatisfiable(FactsOf(C, c0.arg))
<1> DEFINE arg          == c0.arg
           value        == Text(args, arg)
           about        == {c \in C : c.arg = arg}
           numbers(ops) == {c.number : c \in {d \in about : d.numeric /\ d.op \in ops}}
           words(op)    == {c.literal : c \in {d \in about : ~d.numeric /\ d.op = op}}
           lows         == {kIntMin} \cup numbers({"==", ">="})
                             \cup {FirstAbove(n) : n \in numbers({">"})}
           highs        == {kIntMax} \cup numbers({"==", "<="})
                             \cup {n - 1 : n \in numbers({"<"})}
           facts        == FactsOf(C, arg)
<1>1. /\ facts.low = Max(lows) /\ facts.high = Min(highs)
      /\ facts.excluded = numbers({"!="})
      /\ facts.numeric <=> \E c \in about : c.numeric
      /\ facts.required = words("==") /\ facts.forbidden = words("!=")
  BY DEF FactsOf
<1>2. kIntMin \in Int /\ kIntMax \in Int /\ kIntMin <= kIntMax
  BY NumbersAssumption
<1>3. value # EmptyValue /\ IsValue(value)
  <2>1. value # EmptyValue
    BY DEF Holds
  <2>2. arg \in DOMAIN args /\ value = args[arg]
    BY <2>1 DEF Text
  <2> QED
    BY <2>1, <2>2, ArgumentsAssumption DEF Parsed
<1>4. ASSUME NEW c \in about
      PROVE  /\ c.numeric => value.numeric /\ Compares(c.op, value.number, c.number)
             /\ ~c.numeric => ((value = Word(c.literal)) <=> (c.op # "!="))
             /\ c.numeric \in BOOLEAN /\ c.number \in kIntMin .. kIntMax
             /\ c.number \in Int /\ kIntMin <= c.number /\ c.number <= kIntMax
  <2>1. c \in C /\ Text(args, c.arg) = value /\ c \in Comparison
    OBVIOUS
  <2>2. Holds(c, args)
    BY <2>1
  <2>3. c.numeric \in BOOLEAN /\ c.number \in kIntMin .. kIntMax
    BY <2>1 DEF Comparison
  <2> HIDE DEF value, about
  <2>4. IF c.numeric THEN value.numeric /\ Compares(c.op, value.number, c.number)
        ELSE (value = Word(c.literal)) <=> (c.op # "!=")
    BY <2>1, <2>2 DEF Holds
  <2> QED
    BY <1>2, <2>3, <2>4
<1> HIDE DEF value, about, facts
<1>5. ASSUME NEW ops, NEW n \in numbers(ops)
      PROVE  /\ n \in Int /\ kIntMin <= n /\ n <= kIntMax
             /\ value.numeric
             /\ \E op \in ops : Compares(op, value.number, n)
  <2>1. PICK c \in about : c.numeric /\ c.op \in ops /\ n = c.number
    BY <1>5
  <2> QED
    BY <1>4, <2>1
<1>6. ASSUME NEW op, NEW w \in words(op)
      PROVE  (value = Word(w)) <=> (op # "!=")
  <2>1. PICK c \in about : ~c.numeric /\ c.op = op /\ w = c.literal
    BY <1>6
  <2> QED
    BY <1>4, <2>1
<1> HIDE DEF numbers, words
<1>7. /\ Max(lows) \in lows /\ \A x \in lows : x <= Max(lows)
      /\ lows \in SUBSET Int
  <2>1. lows \in SUBSET Int /\ lows # {}
    BY <1>2, <1>5 DEF FirstAbove
  <2>2. \A x \in lows : x <= kIntMax + 1
    BY <1>2, <1>5 DEF FirstAbove
  <2>3. kIntMax + 1 \in Int
    BY <1>2
  <2> HIDE DEF lows
  <2> QED
    BY <2>1, <2>2, <2>3, MaxIs
<1>8. /\ Min(highs) \in highs /\ \A x \in highs : Min(highs) <= x
      /\ highs \in SUBSET Int
  <2>1. highs \in SUBSET Int /\ highs # {}
    BY <1>2, <1>5
  <2>2. \A x \in highs : kIntMin - 1 <= x
    BY <1>2, <1>5
  <2>3. kIntMin - 1 \in Int
    BY <1>2
  <2> HIDE DEF highs
  <2> QED
    BY <2>1, <2>2, <2>3, MinIs
<1>9. CASE \E n \in kIntMin .. kIntMax : value = Number(n)
  <2>1. PICK n \in kIntMin .. kIntMax : value = Number(n)
    BY <1>9
  <2>2. /\ n \in Int /\ kIntMin <= n /\ n <= kIntMax
        /\ value.numeric /\ value.number = n
    <3>1. n \in Int /\ kIntMin <= n /\ n <= kIntMax
      BY <1>2
    <3>2. value.numeric /\ value.number = n
      BY <2>1 DEF Number
    <3> QED
      BY <3>1, <3>2
  <2>3. \A w : value # Word(w)
    BY <2>2 DEF Word
  <2>4. \A x \in lows : x <= n
    <3>1. \A x \in numbers({"==", ">="}) : x <= n
      BY <1>5, <2>2 DEF Compares
    <3>2. \A x \in numbers({">"}) : x + 1 <= n
      BY <1>5, <2>2 DEF Compares
    <3> QED
      BY <2>2, <3>1, <3>2 DEF FirstAbove
  <2>5. \A x \in highs : n <= x
    <3>1. \A x \in numbers({"==", "<="}) : n <= x
      BY <1>5, <2>2 DEF Compares
    <3>2. \A x \in numbers({"<"}) : n <= x - 1
      BY <1>5, <2>2 DEF Compares
    <3> QED
      BY <2>2, <3>1, <3>2
  <2>6. Max(lows) <= n /\ n <= Min(highs) /\ Max(lows) \in Int /\ Min(highs) \in Int
    BY <1>7, <1>8, <2>4, <2>5
  <2>7. n \notin numbers({"!="})
    BY <1>5, <2>2 DEF Compares
  <2>8. words("==") = {}
    BY <1>6, <2>3
  <2> HIDE DEF lows, highs
  <2>9. ~(facts.low > facts.high) /\ ~(facts.low .. facts.high \subseteq facts.excluded)
    BY <1>1, <2>2, <2>6, <2>7
  <2> QED
    BY <1>1, <2>8, <2>9 DEF Unsatisfiable, facts
<1>10. CASE value = Word(value.word)
  <2>1. ~value.numeric
    BY <1>10 DEF Word
  <2>2. \A ops : numbers(ops) = {}
    BY <1>5, <2>1
  <2>3. ~facts.numeric
    BY <1>1, <1>4, <2>1
  <2>4. Max(lows) = kIntMin /\ Min(highs) = kIntMax
    BY <1>7, <1>8, <2>2
  <2>5. \A w \in words("==") : value = Word(w) /\ w = value.word
    BY <1>6 DEF Word
  <2>6. \A w \in words("!=") : value # Word(w)
    BY <1>6
  <2> HIDE DEF lows, highs
  <2>7. ~(facts.low > facts.high) /\ ~(facts.low .. facts.high \subseteq facts.excluded)
    BY <1>1, <1>2, <2>2, <2>4
  <2>8. \A w, v \in facts.required : w = v
    BY <1>1, <2>5
  <2>9. facts.required \cap facts.forbidden = {}
    BY <1>1, <2>5, <2>6
  <2> QED
    BY <2>3, <2>7, <2>8, <2>9 DEF Unsatisfiable, facts
<1> QED
  BY <1>3, <1>9, <1>10 DEF IsValue

\* A guard found impossible holds for no arguments.
LEMMA ImpossibleIsSound ==
  ASSUME NEW m, m.conditions \in Seq(Comparison), NEW a \in Alternative,
         a.first + a.count <= Len(m.conditions), GuardImpossible(m, a),
         NEW args \in Arguments
  PROVE  ~AlternativeHolds(m, a, args)
<1>1. SUFFICES ASSUME \A c \in ConditionsOf(m, a) : Holds(c, args)
               PROVE  FALSE
  BY HoldsEach
<1>2. ConditionsOf(m, a) \in SUBSET Comparison
  <2>1. ASSUME NEW i \in 1 .. a.count PROVE a.first + i \in 1 .. Len(m.conditions)
    <3>1. a.first \in Nat /\ a.count \in Nat /\ Len(m.conditions) \in Nat
      BY DEF Alternative
    <3> QED
      BY <2>1, <3>1
  <2>2. \A k \in 1 .. Len(m.conditions) : m.conditions[k] \in Comparison
    BY ElementOfSeq
  <2> QED
    BY <2>1, <2>2 DEF ConditionsOf
<1>3. PICK c \in ConditionsOf(m, a) : Unsatisfiable(FactsOf(ConditionsOf(m, a), c.arg))
  BY DEF GuardImpossible
<1> QED
  BY <1>1, <1>2, <1>3, SatisfiedIsSatisfiable

\* What validate() and the build operations make sure of for an alternative.
LEMMA ListedIsSliced ==
  ASSUME NEW m, Loadable(m), NEW s \in DOMAIN m.states,
         NEW t \in DOMAIN m.states[s].transitions, NEW i \in DOMAIN Listed(m, s, t)
  PROVE  /\ Listed(m, s, t)[i] \in Alternative
         /\ Listed(m, s, t)[i].first + Listed(m, s, t)[i].count <= Len(m.conditions)
         /\ Listed(m, s, t) \in Seq(Alternative)
         /\ m.conditions \in Seq(Comparison)
<1>1. Listed(m, s, t) \in Seq(Alternative)
  BY DEF Loadable, WellTyped, Listed
<1>2. Listed(m, s, t)[i] \in Alternative
  BY <1>1, ElementOfSeq
<1>3. AlternativeValid(m, Listed(m, s, t)[i])
  BY DEF Loadable, Validate, Listed
<1> QED
  BY <1>1, <1>2, <1>3 DEF AlternativeValid, Loadable

\* Whatever is found about an alternative, the machine never takes it.
LEMMA FoundIsNeverTaken ==
  ASSUME Loadable(model), NEW s \in DOMAIN model.states,
         NEW t \in DOMAIN model.states[s].transitions, NEW i \in DOMAIN Listed(model, s, t),
         AboutAlternative(model, s, t, i) # <<>>, NEW args \in Arguments
  PROVE  ~Takes(s, t, i, args)
<1> DEFINE list      == Listed(model, s, t)
           fallbacks == {j \in 1 .. i - 1 : list[j].count = 0}
           shadows   == {j \in 1 .. i - 1 : Implies(model, list[j], list[i])}
           holding   == {j \in DOMAIN list : AlternativeHolds(model, list[j], args)}
<1>1. SUFFICES ASSUME i \in holding, i = FirstOf(holding) PROVE FALSE
  BY DEF Takes
<1>2. list \in Seq(Alternative) /\ i \in 1 .. Len(list) /\ DOMAIN list = 1 .. Len(list)
      /\ Len(list) \in Nat
  <2>1. list \in Seq(Alternative)
    BY ListedIsSliced
  <2> QED
    BY <2>1
<1>3. \A j \in holding : i <= j
  <2>1. holding \in SUBSET Nat /\ holding # {}
    BY <1>1, <1>2
  <2> HIDE DEF holding
  <2>2. \E k \in holding : \A j \in holding : k <= j
    BY <2>1, Least
  <2> QED
    BY <1>1, <2>2 DEF FirstOf
<1>4. ASSUME NEW j \in 1 .. i - 1 PROVE j \in DOMAIN list /\ ~AlternativeHolds(model, list[j], args)
  <2>1. j \in DOMAIN list /\ ~(i <= j)
    BY <1>2, <1>4
  <2>2. j \notin holding
    BY <1>3, <2>1
  <2> QED
    BY <2>1, <2>2
<1>5. \/ fallbacks # {}
      \/ GuardImpossible(model, list[i])
      \/ shadows # {}
  BY DEF AboutAlternative
<1>6. CASE fallbacks # {}
  <2>1. PICK j \in 1 .. i - 1 : list[j].count = 0
    BY <1>6
  <2>2. AlternativeHolds(model, list[j], args)
    BY <2>1 DEF AlternativeHolds
  <2> QED
    BY <1>4, <2>2
<1>7. CASE GuardImpossible(model, list[i])
  <2>1. ~AlternativeHolds(model, list[i], args)
    BY <1>2, <1>7, ListedIsSliced, ImpossibleIsSound
  <2> QED
    BY <1>1, <2>1
<1>8. CASE shadows # {}
  <2>1. PICK j \in 1 .. i - 1 : Implies(model, list[j], list[i])
    BY <1>8
  <2>2. j \in DOMAIN list /\ ~AlternativeHolds(model, list[j], args)
    BY <1>4
  <2>3. \A k \in DOMAIN list :
          AlternativeHolds(model, list[k], args)
            <=> \A c \in ConditionsOf(model, list[k]) : Holds(c, args)
    <3> HIDE DEF list
    <3>1. ASSUME NEW k \in DOMAIN list
          PROVE  /\ list[k] \in Alternative /\ model.conditions \in Seq(Comparison)
                 /\ list[k].first + list[k].count <= Len(model.conditions)
      BY ListedIsSliced DEF list
    <3> QED
      BY <3>1, HoldsEach
  <2>4. \A c \in ConditionsOf(model, list[i]) : Holds(c, args)
    BY <1>1, <2>3
  <2>5. \A c \in ConditionsOf(model, list[j]) : Holds(c, args)
    BY <2>1, <2>4 DEF Implies
  <2> QED
    BY <2>2, <2>3, <2>5
<1> QED
  BY <1>5, <1>6, <1>7, <1>8

-----------------------------------------------------------------------------
(* The report. *)

AlternativeChecks == {"UnreachableAlternative", "ImpossibleGuard", "ShadowedAlternative"}

\* What makes a finding true.
Justified(f) ==
  \/ f.check = "UnreachableState" /\ f.state \in DOMAIN model.states \ reached
  \/ f.check = "DeadEndState" /\ DeadEnd(model, f.state)
  \/ f.check = "UnusedTrigger" /\ ~Used(model, f.trigger)
  \/ /\ f.check \in AlternativeChecks
     /\ f.state \in DOMAIN model.states
     /\ f.trigger \in DOMAIN model.states[f.state].transitions
     /\ f.alternative \in DOMAIN Listed(model, f.state, f.trigger)
     /\ AboutAlternative(model, f.state, f.trigger, f.alternative) # <<>>

Unreached(s) == Finding("UnreachableState", s, kNoTrigger, 0, 0)

\* Until something is dropped the report has every finding; every finding is
\* true; and a state that was not flagged has one, or its turn is to come.
ReportInv ==
  /\ room => report = found
  /\ stage \in {"begin", "search"} => found = <<>>
  /\ \A f \in ToSet(found) : Justified(f)
  /\ CanSearch /\ stage \notin {"begin", "search"} =>
       \A s \in DOMAIN model.states \ reached :
         \/ stage = "unreachable" /\ <<s, 0, 0>> \in todo
         \/ Unreached(s) \in ToSet(found)

\* What a check finds at one of its places is true.
LEMMA FoundIsJustified ==
  ASSUME NEW place \in Places(model, stage), FoundAt(model, reached, stage, place) # <<>>
  PROVE  Justified(FoundAt(model, reached, stage, place)[1])
<1> DEFINE f == FoundAt(model, reached, stage, place)[1]
<1>1. CASE stage = "unreachable"
  <2>1. PICK s \in DOMAIN model.states : place = <<s, 0, 0>>
    BY <1>1 DEF Places
  <2>2. s \notin reached /\ f = Unreached(s)
    BY <1>1, <2>1 DEF FoundAt, Unreached
  <2> QED
    BY <2>2 DEF Justified, Unreached, Finding
<1>2. CASE stage = "deadEnds"
  <2>1. PICK s \in DOMAIN model.states : place = <<s, 0, 0>>
    BY <1>2 DEF Places
  <2>2. DeadEnd(model, s) /\ f = Finding("DeadEndState", s, kNoTrigger, 0, 0)
    BY <1>2, <2>1 DEF FoundAt
  <2> QED
    BY <2>2 DEF Justified, Finding
<1>3. CASE stage = "unused"
  <2>1. PICK t \in DOMAIN model.triggers : place = <<0, t, 0>>
    BY <1>3 DEF Places
  <2>2. ~Used(model, t) /\ f = Finding("UnusedTrigger", kNoState, t, 0, 0)
    BY <1>3, <2>1 DEF FoundAt
  <2> QED
    BY <2>2 DEF Justified, Finding
<1>4. CASE stage = "alternatives"
  <2>a. PICK s \in DOMAIN model.states :
          place \in UNION {{<<s, t, i>> : i \in DOMAIN Listed(model, s, t)} :
                             t \in DOMAIN model.states[s].transitions}
    BY <1>4 DEF Places
  <2>b. PICK t \in DOMAIN model.states[s].transitions :
          place \in {<<s, t, i>> : i \in DOMAIN Listed(model, s, t)}
    BY <2>a
  <2>1. PICK i \in DOMAIN Listed(model, s, t) : place = <<s, t, i>>
    BY <2>b
  <2>2. /\ AboutAlternative(model, s, t, i) # <<>>
        /\ f = AboutAlternative(model, s, t, i)[1]
    BY <1>4, <2>1 DEF FoundAt
  <2>3. /\ f.check \in AlternativeChecks
        /\ f.state = s /\ f.trigger = t /\ f.alternative = i
    BY <2>2 DEF AboutAlternative, Finding, AlternativeChecks
  <2> QED
    BY <2>2, <2>3 DEF Justified
<1> QED
  BY <1>1, <1>2, <1>3, <1>4 DEF Places

\* The report starts empty.
LEMMA InitReport == Init => ReportInv
BY EmptyStack DEF Init, ReportInv

\* A check records what it found at its place, and no state without a flag is
\* passed over.
LEMMA NextReport == TypeOK /\ SearchInv /\ ReportInv /\ [Next]_vars => ReportInv'
<1> SUFFICES ASSUME TypeOK, SearchInv, ReportInv, [Next]_vars PROVE ReportInv'
  OBVIOUS
<1> USE DEF given, search, outcome
<1>1. Logs
  BY DEF TypeOK, Logs
<1>2. ASSUME UNCHANGED <<model, reached>> PROVE \A f : Justified(f)' <=> Justified(f)
  BY <1>2 DEF Justified
<1>3. ASSUME UNCHANGED <<given, outcome>>, found = <<>>,
             stage' \in {"begin", "search"} \/ ~CanSearch
      PROVE  ReportInv'
  <2>1. stage' \in {"begin", "search"} \/ ~CanSearch'
    BY <1>3 DEF CanSearch, HasState
  <2> QED
    BY <1>3, <2>1, EmptyStack DEF ReportInv
<1>4. CASE SkipSearch
  BY <1>3, <1>4 DEF SkipSearch, ReportInv
<1>5. CASE BeginSearch
  BY <1>3, <1>5 DEF BeginSearch, ReportInv
<1>6. CASE Visit
  BY <1>3, <1>6 DEF Visit, ReportInv
<1>7. CASE SearchEnds
  <2>1. /\ stage' = "unreachable" /\ todo' = Places(model, "unreachable") /\ found = <<>>
        /\ UNCHANGED <<given, search, outcome>>
    BY <1>7 DEF SearchEnds, Enter, ReportInv
  <2>2. \A s \in DOMAIN model.states : <<s, 0, 0>> \in todo'
    BY <2>1 DEF Places
  <2> QED
    BY <2>1, <2>2, EmptyStack DEF ReportInv
<1>8. ASSUME NEW place \in todo, Check(place) PROVE ReportInv'
  <2>1. /\ UNCHANGED <<given, search, stage>> /\ todo' = todo \ {place}
        /\ place \in Places(model, stage)
    BY <1>8 DEF Check, TypeOK
  <2>2. stage \notin {"begin", "search"}
    BY <2>1 DEF Places
  <2>3. CanSearch' = CanSearch
    BY <2>1 DEF CanSearch, HasState
  <2>4. CASE FoundAt(model, reached, stage, place) = <<>>
    <3>1. UNCHANGED outcome
      BY <1>8, <2>4 DEF Check
    <3>2. ASSUME NEW s \in DOMAIN model.states \ reached, stage = "unreachable"
          PROVE  place # <<s, 0, 0>>
      BY <2>4, <3>2 DEF FoundAt
    <3> QED
      BY <1>2, <2>1, <2>2, <2>3, <3>1, <3>2 DEF ReportInv
  <2>5. CASE FoundAt(model, reached, stage, place) # <<>>
    <3> DEFINE f == FoundAt(model, reached, stage, place)[1]
    <3>1. Record(f)
      BY <1>8, <2>5 DEF Check
    <3>2. Justified(f)
      BY <2>1, <2>5, FoundIsJustified
    <3>3. ASSUME NEW s \in DOMAIN model.states \ reached, stage = "unreachable",
                 place = <<s, 0, 0>>
          PROVE  f = Unreached(s)
      BY <3>3 DEF FoundAt, Unreached
    <3> HIDE DEF f
    <3>4. /\ ToSet(found') = ToSet(found) \cup {f}
          /\ (room => report = found) => (room' => report' = found')
      BY <1>1, <3>1, RecordKeeps
    <3> QED
      BY <1>2, <2>1, <2>2, <2>3, <3>2, <3>3, <3>4 DEF ReportInv
  <2> QED
    BY <2>4, <2>5
<1>9. CASE CheckEnds
  <2>1. /\ UNCHANGED <<given, search, outcome>> /\ todo = {}
        /\ stage \notin {"begin", "search"} /\ stage' \notin {"begin", "search"}
    BY <1>9 DEF CheckEnds, Enter, FollowedBy
  <2>2. CanSearch' = CanSearch
    BY <2>1 DEF CanSearch, HasState
  <2> QED
    BY <1>2, <2>1, <2>2 DEF ReportInv
<1>10. CASE UNCHANGED vars
  BY <1>10 DEF vars, ReportInv, Justified, CanSearch, HasState
<1> QED
  BY <1>4, <1>5, <1>6, <1>7, <1>8, <1>9, <1>10 DEF Next

\* The inductive invariant.
AnalysisInv == TypeOK /\ SearchInv /\ ReportInv

\* It holds throughout an analysis.
LEMMA AnalysisInvariant == Spec => []AnalysisInv
<1>1. Init => AnalysisInv
  BY InitTypeOK, InitSearch, InitReport DEF AnalysisInv
<1>2. AnalysisInv /\ [Next]_vars => AnalysisInv'
  BY NextTypeOK, NextSearch, NextReport DEF AnalysisInv
<1> QED
  BY <1>1, <1>2, PTL DEF Spec

\* What is reported was found, and what was found is true.
LEMMA ReportedIsJustified ==
  ASSUME AnalysisInv, NEW f \in ToSet(report)
  PROVE  f \in ToSet(found) /\ Justified(f)
<1>1. report \in Seq(ToSet(found))
  BY DEF AnalysisInv, TypeOK
<1>2. f \in ToSet(found)
  BY <1>1 DEF ToSet
<1> QED
  BY <1>2 DEF AnalysisInv, ReportInv

\* The states reported unreachable are exactly those outside the least set that
\* encloses the initial state, for every model that loads.
THEOREM SearchIsExact == Spec => []ReachabilityIsExact
<1>1. AnalysisInv => ReachabilityIsExact
  <2> SUFFICES ASSUME AnalysisInv, stage \notin {"begin", "search", "unreachable"}, CanSearch
               PROVE  /\ Encloses(reached)
                      /\ \A S \in SUBSET DOMAIN model.states : Encloses(S) => reached \subseteq S
                      /\ \A f \in Reported("UnreachableState") : f.state \notin reached
                      /\ room => DOMAIN model.states \ reached
                                   = {f.state : f \in Reported("UnreachableState")}
    BY DEF ReachabilityIsExact
  <2>1. pending = <<>> /\ initial \in reached /\ reached = visited
    BY EmptyStack DEF AnalysisInv, SearchInv, SearchVisitsOnce
  <2>2. Encloses(reached)
    BY <2>1 DEF AnalysisInv, SearchInv, Encloses
  <2>3. \A S \in SUBSET DOMAIN model.states : Encloses(S) => reached \subseteq S
    BY DEF AnalysisInv, SearchInv
  <2>4. ASSUME NEW f \in Reported("UnreachableState")
        PROVE  f.state \in DOMAIN model.states \ reached
    BY ReportedIsJustified DEF Reported, Justified, AlternativeChecks
  <2>5. ASSUME room, NEW s \in DOMAIN model.states \ reached
        PROVE  \E f \in Reported("UnreachableState") : s = f.state
    <3>1. Unreached(s) \in ToSet(report)
      BY <2>5 DEF AnalysisInv, ReportInv
    <3>2. Unreached(s).check = "UnreachableState" /\ Unreached(s).state = s
      BY DEF Unreached, Finding
    <3> QED
      BY <3>1, <3>2 DEF Reported
  <2> QED
    BY <2>2, <2>3, <2>4, <2>5
<1> QED
  BY <1>1, AnalysisInvariant, PTL

\* No finding about an alternative is a false alarm: the machine takes that
\* alternative for no arguments, whatever the numbers and words in its guards.
THEOREM NoFalseAlarm == Spec => []ReportedIsNeverTaken
<1>1. AnalysisInv => ReportedIsNeverTaken
  <2> SUFFICES ASSUME AnalysisInv, NEW f \in ToSet(report), f.check \in AlternativeChecks,
                      NEW args \in Arguments
               PROVE  ~Takes(f.state, f.trigger, f.alternative, args)
    BY DEF ReportedIsNeverTaken, AlternativeChecks
  <2>1. /\ f.state \in DOMAIN model.states
        /\ f.trigger \in DOMAIN model.states[f.state].transitions
        /\ f.alternative \in DOMAIN Listed(model, f.state, f.trigger)
        /\ AboutAlternative(model, f.state, f.trigger, f.alternative) # <<>>
    BY ReportedIsJustified DEF Justified, AlternativeChecks
  <2>2. Loadable(model)
    BY DEF AnalysisInv, TypeOK
  <2> QED
    BY <2>1, <2>2, FoundIsNeverTaken
<1> QED
  BY <1>1, AnalysisInvariant, PTL

\* No finding about a state or a trigger is a false alarm either: the machine
\* stays where it is.
THEOREM NothingLeaves == Spec => []ReportedGoesNowhere
<1>1. ASSUME AnalysisInv, NEW f \in ToSet(report), NEW s \in DOMAIN model.states,
             NEW t \in DOMAIN model.triggers, NEW args \in Arguments,
             \/ f.check = "DeadEndState" /\ f.state = s
             \/ f.check = "UnusedTrigger" /\ f.trigger = t
      PROVE  Evaluate(model, s, t, args).target \in {s, kNoState}
  <2>1. Justified(f)
    BY <1>1, ReportedIsJustified
  <2>2. CASE ~Accepts(model, s, t)
    BY <2>2 DEF Evaluate
  <2>3. CASE Accepts(model, s, t)
    <3>1. t \in DOMAIN model.states[s].transitions /\ Used(model, t)
      BY <2>3 DEF Accepts, Used
    <3>2. DeadEnd(model, s)
      BY <1>1, <2>1, <3>1 DEF Justified, AlternativeChecks
    <3> DEFINE list    == Listed(model, s, t)
               holding == {i \in DOMAIN list : AlternativeHolds(model, list[i], args)}
    <3>3. CASE holding = {}
      BY <2>3, <3>3 DEF Evaluate, Listed
    <3>4. CASE holding # {}
      <4>1. holding \in SUBSET Nat
        <5>1. list \in Seq(Alternative)
          BY <1>1, <3>1 DEF AnalysisInv, TypeOK, Loadable, WellTyped, Listed
        <5> QED
          BY <5>1
      <4>2. FirstOf(holding) \in holding
        <5> HIDE DEF holding
        <5> QED
          BY <3>4, <4>1, Least DEF FirstOf
      <4>3. list[FirstOf(holding)].target \in Targets(model, s)
        <5>1. list[FirstOf(holding)] \in ToSet(list)
          BY <4>2 DEF ToSet
        <5> HIDE DEF holding
        <5>2. list[FirstOf(holding)] \in AlternativesOf(model, s)
          BY <3>1, <5>1 DEF AlternativesOf
        <5> QED
          BY <5>2 DEF Targets
      <4>4. Evaluate(model, s, t, args).target = list[FirstOf(holding)].target
        BY <2>3, <3>4 DEF Evaluate, Listed
      <4> QED
        BY <3>2, <4>3, <4>4 DEF DeadEnd
    <3> QED
      BY <3>3, <3>4
  <2> QED
    BY <2>2, <2>3
<1>2. AnalysisInv => ReportedGoesNowhere
  BY <1>1 DEF ReportedGoesNowhere
<1> QED
  BY <1>2, AnalysisInvariant, PTL

-----------------------------------------------------------------------------
(* The other direction: what is not reported is in order. *)

\* A number in the folded range is an int32, and each bound it was folded from
\* lets it through.
LEMMA FoldsBound ==
  ASSUME NEW C \in SUBSET Comparison, NEW arg,
         NEW n \in FactsOf(C, arg).low .. FactsOf(C, arg).high
  PROVE  /\ n \in kIntMin .. kIntMax
         /\ \A c \in C : c.arg = arg /\ c.numeric /\ c.op # "!=" => Compares(c.op, n, c.number)
<1> DEFINE about        == {c \in C : c.arg = arg}
           numbers(ops) == {c.number : c \in {d \in about : d.numeric /\ d.op \in ops}}
           lows         == {kIntMin} \cup numbers({"==", ">="})
                             \cup {FirstAbove(k) : k \in numbers({">"})}
           highs        == {kIntMax} \cup numbers({"==", "<="})
                             \cup {k - 1 : k \in numbers({"<"})}
<1>1. FactsOf(C, arg).low = Max(lows) /\ FactsOf(C, arg).high = Min(highs)
  BY DEF FactsOf
<1>2. kIntMin \in Int /\ kIntMax \in Int /\ kIntMin <= kIntMax
  BY NumbersAssumption
<1>3. ASSUME NEW ops, NEW k \in numbers(ops)
      PROVE  k \in Int /\ kIntMin <= k /\ k <= kIntMax
  <2>1. PICK c \in about : k = c.number
    BY <1>3
  <2>2. c.number \in kIntMin .. kIntMax
    BY <2>1 DEF Comparison
  <2> QED
    BY <1>2, <2>1, <2>2
<1>4. ASSUME NEW c \in C, c.arg = arg, c.numeric, NEW ops, c.op \in ops
      PROVE  c.number \in numbers(ops)
  BY <1>4
<1> HIDE DEF numbers
<1>5. lows \in SUBSET Int /\ Max(lows) \in lows /\ \A x \in lows : x <= Max(lows)
  <2>1. lows \in SUBSET Int /\ lows # {} /\ kIntMax + 1 \in Int
    BY <1>2, <1>3 DEF FirstAbove
  <2>2. \A x \in lows : x <= kIntMax + 1
    BY <1>2, <1>3 DEF FirstAbove
  <2> HIDE DEF lows
  <2> QED
    BY <2>1, <2>2, MaxIs
<1>6. highs \in SUBSET Int /\ Min(highs) \in highs /\ \A x \in highs : Min(highs) <= x
  <2>1. highs \in SUBSET Int /\ highs # {} /\ kIntMin - 1 \in Int
    BY <1>2, <1>3
  <2>2. \A x \in highs : kIntMin - 1 <= x
    BY <1>2, <1>3
  <2> HIDE DEF highs
  <2> QED
    BY <2>1, <2>2, MinIs
<1>7. n \in Max(lows) .. Min(highs) /\ kIntMin \in lows /\ kIntMax \in highs
  BY <1>1
<1>8. /\ n \in Int
      /\ \A x \in lows : x <= n /\ x \in Int
      /\ \A x \in highs : n <= x /\ x \in Int
  <2> HIDE DEF lows, highs
  <2>1. Max(lows) \in Int /\ Min(highs) \in Int
    BY <1>5, <1>6
  <2>2. n \in Int /\ Max(lows) <= n /\ n <= Min(highs)
    BY <1>7, <2>1
  <2> QED
    BY <1>5, <1>6, <2>1, <2>2
<1>15. n \in kIntMin .. kIntMax
  <2>1. kIntMin <= n /\ n <= kIntMax
    BY <1>7, <1>8
  <2> QED
    BY <1>2, <1>8, <2>1
<1> SUFFICES ASSUME NEW c \in C, c.arg = arg, c.numeric, c.op # "!="
             PROVE  Compares(c.op, n, c.number)
  BY <1>15
<1>9. c.op \in {"==", "<", "<=", ">", ">="} /\ c.number \in Int
  <2>1. c.op \in {"==", "!=", "<", "<=", ">", ">="} /\ c.number \in kIntMin .. kIntMax
    BY DEF Comparison
  <2> QED
    BY <1>2, <2>1
<1>10. CASE c.op = "=="
  BY <1>4, <1>8, <1>9, <1>10 DEF Compares
<1>11. CASE c.op = "<="
  BY <1>4, <1>8, <1>9, <1>11 DEF Compares
<1>12. CASE c.op = ">="
  BY <1>4, <1>8, <1>9, <1>12 DEF Compares
<1>13. CASE c.op = "<"
  <2>1. c.number - 1 \in highs
    BY <1>4, <1>13
  <2> QED
    BY <1>8, <1>9, <1>13, <2>1 DEF Compares
<1>14. CASE c.op = ">"
  <2>1. c.number + 1 \in lows
    BY <1>4, <1>14 DEF FirstAbove
  <2> QED
    BY <1>8, <1>9, <1>14, <2>1 DEF Compares
<1> QED
  BY <1>9, <1>10, <1>11, <1>12, <1>13, <1>14

\* Conditions about one argument that are not found unsatisfiable hold together
\* for some value: the word that is required, or a number that is left.
LEMMA SatisfiableIsSatisfied ==
  ASSUME NEW C \in SUBSET Comparison, NEW arg, ~Unsatisfiable(FactsOf(C, arg))
  PROVE  \E value \in {Number(n) : n \in kIntMin .. kIntMax}
                        \cup {Word(c.literal) : c \in {d \in C : ~d.numeric /\ d.op = "=="}} :
           \A c \in C : c.arg = arg =>
             \A args : arg \in DOMAIN args /\ args[arg] = value => Holds(c, args)
<1> DEFINE about        == {c \in C : c.arg = arg}
           numbers(ops) == {c.number : c \in {d \in about : d.numeric /\ d.op \in ops}}
           words(op)    == {c.literal : c \in {d \in about : ~d.numeric /\ d.op = op}}
           facts        == FactsOf(C, arg)
<1>1. /\ facts.excluded = numbers({"!="})
      /\ facts.numeric <=> \E c \in about : c.numeric
      /\ facts.required = words("==") /\ facts.forbidden = words("!=")
  BY DEF FactsOf
<1>2. /\ ~(facts.low > facts.high)
      /\ \A w, v \in facts.required : w = v
      /\ facts.required = {} \/ ~facts.numeric
      /\ facts.required \cap facts.forbidden = {}
      /\ ~(facts.low .. facts.high \subseteq facts.excluded)
  BY DEF Unsatisfiable
<1>3. ASSUME NEW c \in C
      PROVE  /\ c.numeric \in BOOLEAN
             /\ ~c.numeric => c.op \in {"==", "!="} /\ c.literal # ""
  BY DEF Comparison
<1>4. CASE facts.required # {}
  <2>1. PICK d \in about : ~d.numeric /\ d.op = "=="
    BY <1>1, <1>4
  <2> DEFINE value == Word(d.literal)
  <2>2. d.literal # "" /\ value # EmptyValue
    BY <1>3, <2>1 DEF Word, EmptyValue
  <2>3. ASSUME NEW c \in C, c.arg = arg
        PROVE  ~c.numeric /\ ((value = Word(c.literal)) <=> (c.op # "!="))
    <3>1. ~c.numeric
      BY <1>1, <1>2, <1>4, <2>3
    <3>2. CASE c.op = "=="
      <4>1. c.literal \in words("==") /\ d.literal \in words("==")
        BY <2>1, <2>3, <3>1, <3>2
      <4>2. c.literal = d.literal
        BY <1>1, <1>2, <4>1
      <4> QED
        BY <3>1, <3>2, <4>2
    <3>3. CASE c.op = "!="
      <4>1. c.literal \in words("!=") /\ d.literal \in words("==")
        BY <2>1, <2>3, <3>1, <3>3
      <4>2. c.literal # d.literal
        BY <1>1, <1>2, <4>1
      <4> QED
        BY <3>1, <3>3, <4>2 DEF Word
    <3> QED
      BY <1>3, <3>1, <3>2, <3>3
  <2>4. ASSUME NEW c \in C, c.arg = arg, NEW args, arg \in DOMAIN args, args[arg] = value
        PROVE  Holds(c, args)
    <3>1. Text(args, c.arg) = value
      BY <2>4 DEF Text
    <3> HIDE DEF value
    <3> QED
      BY <2>2, <2>3, <2>4, <3>1 DEF Holds
  <2>5. value \in {Word(c.literal) : c \in {e \in C : ~e.numeric /\ e.op = "=="}}
    BY <2>1
  <2> QED
    BY <2>4, <2>5
<1>5. CASE facts.required = {}
  <2>1. PICK n \in facts.low .. facts.high : n \notin facts.excluded
    BY <1>2
  <2>2. n \in kIntMin .. kIntMax
    BY <2>1, FoldsBound
  <2>3. \A c \in C : c.arg = arg /\ c.numeric /\ c.op # "!=" => Compares(c.op, n, c.number)
    BY <2>1, FoldsBound
  <2> DEFINE value == Number(n)
  <2>4. value.numeric /\ value.number = n /\ value # EmptyValue /\ \A w : value # Word(w)
    BY DEF Number, Word, EmptyValue
  <2>5. ASSUME NEW c \in C, c.arg = arg
        PROVE  IF c.numeric THEN Compares(c.op, n, c.number) ELSE c.op = "!="
    <3>1. CASE c.numeric /\ c.op = "!="
      <4>1. c.number \in numbers({"!="})
        BY <2>5, <3>1
      <4>2. c.number # n
        BY <1>1, <2>1, <4>1
      <4> QED
        BY <3>1, <4>2 DEF Compares
    <3>2. CASE ~c.numeric
      <4>1. c.op # "=="
        BY <1>1, <1>5, <2>5, <3>2
      <4> QED
        BY <1>3, <3>2, <4>1
    <3> QED
      BY <1>3, <2>3, <2>5, <3>1, <3>2
  <2>6. ASSUME NEW c \in C, c.arg = arg, NEW args, arg \in DOMAIN args, args[arg] = value
        PROVE  Holds(c, args)
    <3>1. Text(args, c.arg) = value
      BY <2>6 DEF Text
    <3> HIDE DEF value
    <3> QED
      BY <2>4, <2>5, <2>6, <3>1 DEF Holds
  <2> QED
    BY <2>2, <2>6
<1> QED
  BY <1>4, <1>5

\* The conditions of an alternative are among those of the pool, and finitely many.
LEMMA ConditionsAre ==
  ASSUME NEW m, m.conditions \in Seq(Comparison), NEW a \in Alternative,
         a.first + a.count <= Len(m.conditions)
  PROVE  /\ ConditionsOf(m, a) \in SUBSET Comparison
         /\ IsFiniteSet({c.arg : c \in ConditionsOf(m, a)})
<1>1. a.first \in Nat /\ a.count \in Nat /\ Len(m.conditions) \in Nat
  BY DEF Alternative
<1>2. ASSUME NEW k \in 1 .. a.count PROVE m.conditions[a.first + k] \in Comparison
  <2>1. a.first + k \in 1 .. Len(m.conditions)
    BY <1>1, <1>2
  <2> QED
    BY <2>1
<1>3. IsFiniteSet(1 .. a.count)
  BY <1>1, FS_Interval
<1> DEFINE f == [k \in 1 .. a.count |-> m.conditions[a.first + k].arg]
           T == {f[k] : k \in 1 .. a.count}
<1>4. IsFiniteSet({m.conditions[a.first + k].arg : k \in 1 .. a.count})
  <2>1. f \in Surjection(1 .. a.count, T)
    BY DEF Surjection
  <2> HIDE DEF f
  <2>2. IsFiniteSet(T)
    <3> HIDE DEF T
    <3> QED
      BY <1>3, <2>1, FS_Surjection
  <2>3. T = {m.conditions[a.first + k].arg : k \in 1 .. a.count}
    BY DEF f
  <2> QED
    BY <2>2, <2>3
<1>5. {c.arg : c \in ConditionsOf(m, a)} = {m.conditions[a.first + k].arg : k \in 1 .. a.count}
  BY DEF ConditionsOf
<1> QED
  BY <1>2, <1>4, <1>5 DEF ConditionsOf

\* A guard that is not found impossible, and whose texts an input can have, holds for
\* arguments that Args::parse makes: one value for each name the guard has.
LEMMA PossibleIsMet ==
  ASSUME NEW m, m.conditions \in Seq(Comparison), NEW a \in Alternative,
         a.first + a.count <= Len(m.conditions),
         ~GuardImpossible(m, a), Answerable(m, a)
  PROVE  \E args \in Replies(m, a) : Parsed(args) /\ AlternativeHolds(m, a, args)
<1> DEFINE C      == ConditionsOf(m, a)
           named  == {c.arg : c \in C}
           asked  == {c \in C : ~c.numeric /\ c.op = "=="}
           values == {Number(n) : n \in kIntMin .. kIntMax} \cup {Word(c.literal) : c \in asked}
           Meets(value, arg) == \A c \in C : c.arg = arg =>
             \A args : arg \in DOMAIN args /\ args[arg] = value => Holds(c, args)
           met    == [arg \in named |-> CHOOSE value \in values : Meets(value, arg)]
<1>1. C \in SUBSET Comparison /\ IsFiniteSet(named)
  BY ConditionsAre
<1>2. \A arg \in named : ~Unsatisfiable(FactsOf(C, arg))
  BY DEF GuardImpossible
<1>3. /\ Cardinality(named) <= kMaxArguments
      /\ \A c \in C : c.arg \notin Spaced
      /\ \A c \in asked : c.literal \notin Spaced
  BY DEF Answerable
<1>4. Replies(m, a) = [named -> values]
  BY DEF Replies
<1> HIDE DEF C
<1>5. ASSUME NEW arg \in named PROVE met[arg] \in values /\ Meets(met[arg], arg)
  <2>1. \E value \in values : Meets(value, arg)
    BY <1>1, <1>2, SatisfiableIsSatisfied
  <2> HIDE DEF Meets, values
  <2> QED
    BY <2>1
<1>6. met \in [named -> values] /\ DOMAIN met = named
  BY <1>5
<1>7. ASSUME NEW value \in values PROVE IsValue(value) /\ value.word \notin Spaced
  <2>1. CASE \E n \in kIntMin .. kIntMax : value = Number(n)
    <3>1. PICK n \in kIntMin .. kIntMax : value = Number(n)
      BY <2>1
    <3>2. IsValue(value)
      BY <3>1 DEF IsValue
    <3>3. value.word = NoName
      BY <3>1 DEF Number, NoName
    <3> QED
      BY <3>2, <3>3, SpacesAssumption
  <2>2. CASE \E c \in asked : value = Word(c.literal)
    BY <1>3, <2>2 DEF IsValue, Word
  <2> QED
    BY <2>1, <2>2
<1>8. ASSUME NEW arg \in named PROVE arg # NoName /\ arg \notin LongNames /\ arg \notin Spaced
  <2>1. PICK c \in C : arg = c.arg
    OBVIOUS
  <2>2. c.arg # NoName /\ {c.arg, c.literal} \cap LongNames = {}
    BY <1>1, <2>1 DEF Comparison
  <2> QED
    BY <1>3, <2>1, <2>2
<1>9. Parsed(met)
  <2> HIDE DEF met, named, values
  <2> QED
    BY <1>1, <1>3, <1>5, <1>6, <1>7, <1>8 DEF Parsed
<1>10. \A c \in C : Holds(c, met)
  <2> TAKE c \in C
  <2>1. c.arg \in named
    OBVIOUS
  <2>2. Meets(met[c.arg], c.arg) /\ c.arg \in DOMAIN met
    BY <1>5, <2>1
  <2> HIDE DEF met
  <2> QED
    BY <2>2
<1>11. AlternativeHolds(m, a, met)
  BY <1>10, HoldsEach DEF C
<1> QED
  BY <1>4, <1>6, <1>9, <1>11

\* A guard whose texts no input can have, or that has more names than an Args, holds
\* for no arguments: each of its names must be given, and each word it asks for.
LEMMA UnanswerableIsNotMet ==
  ASSUME NEW m, m.conditions \in Seq(Comparison), NEW a \in Alternative,
         a.first + a.count <= Len(m.conditions),
         NEW args \in Arguments, AlternativeHolds(m, a, args)
  PROVE  Answerable(m, a)
<1> DEFINE C     == ConditionsOf(m, a)
           named == {c.arg : c \in C}
<1>1. Parsed(args) /\ kMaxArguments \in Nat
  BY ArgumentsAssumption
<1>2. \A c \in C : Holds(c, args)
  BY HoldsEach
<1>3. IsFiniteSet(named) /\ C \in SUBSET Comparison
  BY ConditionsAre
<1> HIDE DEF C
<1>4. ASSUME NEW c \in C
      PROVE  /\ c.arg \in DOMAIN args
             /\ ~c.numeric /\ c.op = "==" => args[c.arg] = Word(c.literal)
  <2>1. Holds(c, args)
    BY <1>2
  <2>2. Text(args, c.arg) # EmptyValue
    BY <2>1 DEF Holds
  <2>3. c.arg \in DOMAIN args /\ Text(args, c.arg) = args[c.arg]
    BY <2>2 DEF Text
  <2> QED
    BY <2>1, <2>3 DEF Holds
<1>5. Cardinality(named) <= kMaxArguments
  <2>1. IsFiniteSet(DOMAIN args) /\ Cardinality(DOMAIN args) <= kMaxArguments
    BY <1>1 DEF Parsed
  <2>2. named \subseteq DOMAIN args
    BY <1>4
  <2>3. Cardinality(named) <= Cardinality(DOMAIN args)
    BY <2>1, <2>2, FS_Subset
  <2>4. Cardinality(named) \in Nat /\ Cardinality(DOMAIN args) \in Nat
    BY <1>3, <2>1, FS_CardinalityType
  <2> HIDE DEF named
  <2> QED
    BY <1>1, <2>1, <2>3, <2>4
<1>6. ASSUME NEW c \in C
      PROVE  c.arg \notin Spaced /\ (~c.numeric /\ c.op = "==" => c.literal \notin Spaced)
  <2>1. c.arg \in DOMAIN args /\ c.arg \notin Spaced /\ args[c.arg].word \notin Spaced
    BY <1>1, <1>4 DEF Parsed
  <2>2. Word(c.literal).word = c.literal
    BY DEF Word
  <2> QED
    BY <1>4, <2>1, <2>2
<1> QED
  BY <1>5, <1>6 DEF Answerable, C

\* Whatever was found about an alternative is in the report or was dropped; none
\* is passed over.
Thorough ==
  stage \in {"alternatives", "done"} =>
    \A place \in Places(model, "alternatives") :
      \/ stage = "alternatives" /\ place \in todo
      \/ AboutAlternative(model, place[1], place[2], place[3]) = <<>>
      \/ AboutAlternative(model, place[1], place[2], place[3])[1] \in ToSet(found)

LEMMA NextThorough == TypeOK /\ Thorough /\ [Next]_vars => Thorough'
<1> SUFFICES ASSUME TypeOK, Thorough, [Next]_vars PROVE Thorough'
  OBVIOUS
<1> USE DEF given, search, outcome
<1>1. Logs
  BY DEF TypeOK, Logs
<1>2. CASE SkipSearch \/ BeginSearch \/ Visit \/ SearchEnds
  <2>1. stage' \notin {"alternatives", "done"}
    BY <1>2 DEF SkipSearch, BeginSearch, Visit, SearchEnds, Enter
  <2> QED
    BY <2>1 DEF Thorough
<1>3. ASSUME NEW place \in todo, Check(place) PROVE Thorough'
  <2>1. UNCHANGED <<model, reached, stage>> /\ todo' = todo \ {place}
    BY <1>3 DEF Check
  <2>2. CASE FoundAt(model, reached, stage, place) = <<>>
    <3>1. UNCHANGED found
      BY <1>3, <2>2 DEF Check
    <3>2. stage = "alternatives" =>
            AboutAlternative(model, place[1], place[2], place[3]) = <<>>
      BY <2>2 DEF FoundAt
    <3> QED
      BY <2>1, <3>1, <3>2 DEF Thorough
  <2>3. CASE FoundAt(model, reached, stage, place) # <<>>
    <3> DEFINE f == FoundAt(model, reached, stage, place)[1]
    <3>1. Record(f)
      BY <1>3, <2>3 DEF Check
    <3>2. stage = "alternatives" =>
            AboutAlternative(model, place[1], place[2], place[3])[1] = f
      BY DEF FoundAt
    <3> HIDE DEF f
    <3>3. ToSet(found') = ToSet(found) \cup {f}
      BY <1>1, <3>1, RecordKeeps
    <3> QED
      BY <2>1, <3>2, <3>3 DEF Thorough
  <2> QED
    BY <2>2, <2>3
<1>4. CASE CheckEnds
  <2>1. /\ UNCHANGED <<model, found>> /\ todo = {} /\ stage' = FollowedBy(stage)
        /\ todo' = Places(model, stage')
        /\ stage \in {"unreachable", "deadEnds", "unused", "alternatives"}
    BY <1>4 DEF CheckEnds, Enter
  <2>2. CASE stage = "alternatives"
    BY <2>1, <2>2 DEF Thorough, FollowedBy
  <2>3. CASE stage # "alternatives"
    <3>1. stage' # "done"
      BY <2>1, <2>3 DEF FollowedBy
    <3> QED
      BY <2>1, <3>1 DEF Thorough
  <2> QED
    BY <2>2, <2>3
<1>5. CASE UNCHANGED vars
  BY <1>5 DEF vars, Thorough
<1> QED
  BY <1>2, <1>3, <1>4, <1>5 DEF Next

\* A model that passes with an exit code of 0 and a report that kept everything
\* has no state out of reach, nothing behind a fallback, and no guard that cannot
\* hold, but for names and words that an Args never has: where a guard keeps to the
\* others, the interval test of the analysis is not only sound but exact.
THEOREM PassingVouches == Spec => []CleanVouches
<1>1. ASSUME AnalysisInv, ReachabilityIsExact, Thorough,
             stage = "done", AnalyseStatus = "Ok", ExitCode = 0
      PROVE  /\ CanSearch => reached = DOMAIN model.states
             /\ \A s \in DOMAIN model.states : \A t \in DOMAIN model.states[s].transitions :
                  LET list == Listed(model, s, t) IN
                  \A i \in DOMAIN list :
                    /\ i < Len(list) => list[i].count > 0
                    /\ IF Answerable(model, list[i])
                       THEN \E args \in Replies(model, list[i]) :
                              Parsed(args) /\ AlternativeHolds(model, list[i], args)
                       ELSE \A args \in Arguments : ~AlternativeHolds(model, list[i], args)
  <2>1. room /\ report = found
    BY <1>1 DEF AnalyseStatus, AnalysisInv, ReportInv
  <2>2. \A f \in ToSet(found) : f.check \in {"DeadEndState", "UnusedTrigger"}
    BY <1>1, <2>1 DEF ExitCode, HasErrors, SeverityOf
  <2>3. CanSearch => reached = DOMAIN model.states
    <3>1. Reported("UnreachableState") = {}
      BY <2>1, <2>2 DEF Reported
    <3> QED
      BY <1>1, <2>1, <3>1 DEF ReachabilityIsExact, AnalysisInv, TypeOK
  <2>4. ASSUME NEW s \in DOMAIN model.states, NEW t \in DOMAIN model.states[s].transitions,
               NEW i \in DOMAIN Listed(model, s, t)
        PROVE  AboutAlternative(model, s, t, i) = <<>>
    <3>1. <<s, t, i>> \in Places(model, "alternatives")
      BY DEF Places
    <3>2. \/ AboutAlternative(model, s, t, i) = <<>>
          \/ AboutAlternative(model, s, t, i)[1] \in ToSet(found)
      BY <1>1, <3>1 DEF Thorough
    <3>3. AboutAlternative(model, s, t, i) # <<>> =>
            AboutAlternative(model, s, t, i)[1].check \notin {"DeadEndState", "UnusedTrigger"}
      BY DEF AboutAlternative, Finding
    <3> QED
      BY <2>2, <3>2, <3>3
  <2>5. ASSUME NEW s \in DOMAIN model.states, NEW t \in DOMAIN model.states[s].transitions,
               NEW i \in DOMAIN Listed(model, s, t)
        PROVE  /\ i < Len(Listed(model, s, t)) => Listed(model, s, t)[i].count > 0
               /\ IF Answerable(model, Listed(model, s, t)[i])
                  THEN \E args \in Replies(model, Listed(model, s, t)[i]) :
                         Parsed(args) /\ AlternativeHolds(model, Listed(model, s, t)[i], args)
                  ELSE \A args \in Arguments :
                         ~AlternativeHolds(model, Listed(model, s, t)[i], args)
    <3> DEFINE list == Listed(model, s, t)
    <3>1. Loadable(model)
      BY <1>1 DEF AnalysisInv, TypeOK
    <3>2. /\ list \in Seq(Alternative) /\ list[i] \in Alternative
          /\ list[i].first + list[i].count <= Len(model.conditions)
          /\ model.conditions \in Seq(Comparison)
      BY <3>1, ListedIsSliced
    <3>3. DOMAIN list = 1 .. Len(list) /\ Len(list) \in Nat /\ i \in 1 .. Len(list)
      BY <3>2
    <3>4. list[i].count \in Nat
      BY <3>2 DEF Alternative
    <3>5. ASSUME i < Len(list), list[i].count = 0 PROVE FALSE
      <4>1. i + 1 \in DOMAIN list /\ i \in 1 .. (i + 1) - 1
        BY <3>3, <3>5
      <4>2. AboutAlternative(model, s, t, i + 1) = <<>>
        BY <2>4, <4>1
      <4>3. i \in {j \in 1 .. (i + 1) - 1 : list[j].count = 0}
        BY <3>5, <4>1
      <4> QED
        BY <4>2, <4>3 DEF AboutAlternative
    <3>6. ~GuardImpossible(model, list[i])
      <4>1. CASE list[i].count = 0
        <5>1. ConditionsOf(model, list[i]) = {}
          BY <4>1 DEF ConditionsOf
        <5> QED
          BY <5>1 DEF GuardImpossible
      <4>2. CASE list[i].count # 0
        BY <2>4, <4>2 DEF AboutAlternative
      <4> QED
        BY <4>1, <4>2
    <3>7. IF Answerable(model, list[i])
          THEN \E args \in Replies(model, list[i]) :
                 Parsed(args) /\ AlternativeHolds(model, list[i], args)
          ELSE \A args \in Arguments : ~AlternativeHolds(model, list[i], args)
      BY <3>2, <3>6, PossibleIsMet, UnanswerableIsNotMet
    <3> QED
      BY <3>4, <3>5, <3>7
  <2> QED
    BY <2>3, <2>5
<1>2. Init => Thorough
  BY DEF Init, Thorough
<1>3. AnalysisInv => TypeOK
  BY DEF AnalysisInv
<1>4. AnalysisInv /\ ReachabilityIsExact /\ Thorough => CleanVouches
  BY <1>1 DEF CleanVouches
<1> QED
  BY <1>2, <1>3, <1>4, NextThorough, AnalysisInvariant, SearchIsExact, PTL DEF Spec
=============================================================================
