--------------------------- MODULE QueriesProofs ---------------------------
(***************************************************************************)
(* What is read in several steps, for any documents, any changes of them   *)
(* while a query runs, and any lists and limits.                           *)
(*                                                                         *)
(* HistoryInv is about the database alone: how a document may have come    *)
(* about, that what comes is new, that what is there changes but once, and *)
(* that nothing is used before it has been created.                        *)
(* The rest relates what has been read to the moment at which it was.      *)
(***************************************************************************)
EXTENDS Queries, AvailabilityProofs

-----------------------------------------------------------------------------
(* The database. *)

\* The forms of document i: as stored, as created on some day, as changed.
IsVersion(s, i, d) ==
  \/ i \in DOMAIN s.stored /\ d = s.stored[i]
  \/ i \in DOMAIN s.creates /\ \E n \in DOMAIN Calendar : d = [s.creates[i] EXCEPT !.day = n]
  \/ i \in DOMAIN s.changes /\ d = s.changes[i]
Forms(s) == {s.stored[i] : i \in DOMAIN s.stored} \cup {s.changes[i] : i \in DOMAIN s.changes}
              \cup {[s.creates[i] EXCEPT !.day = n] : i \in DOMAIN s.creates, n \in DOMAIN Calendar}
Bases(s) == UNION {[I -> Forms(s)] : I \in SUBSET Nat}

HistoryType ==
  /\ scene \in Scenarios /\ ask \in scene.asks
  /\ now \in DOMAIN Calendar /\ now >= Began
  /\ past \in Seq(Bases(scene)) /\ Len(past) >= 1
\* The database is finite, and of the forms above.
Sound ==
  \A k \in DOMAIN past :
    /\ IsFiniteSet(DOMAIN past[k])
    /\ \A i \in DOMAIN past[k] : IsVersion(scene, i, past[k][i])
\* Who was not there has been created, and had never been there.
Fresh ==
  \A k, m \in DOMAIN past : k < m =>
    \A i \in DOMAIN past[m] \ DOMAIN past[k] :
      i \in DOMAIN scene.creates /\ \A n \in 1 .. k : i \notin DOMAIN past[n]
\* A promotion that is created had been there when it was used.
UsesLater ==
  \A k \in DOMAIN past : \A u \in DOMAIN past[k] :
    past[k][u].kind = "use" /\ past[k][u].promotion \in DOMAIN scene.creates =>
      \E n \in 1 .. k : past[k][u].promotion \in DOMAIN past[n]
\* Who was there is as he was, or changed.
Kept ==
  \A k, m \in DOMAIN past : k < m =>
    \A i \in DOMAIN past[m] \cap DOMAIN past[k] :
      past[m][i] = past[k][i] \/ (i \in DOMAIN scene.changes /\ past[m][i] = scene.changes[i])
\* All but one document are as they were.
ButFor(x, b, c) ==
  \A i : i # x => (i \in DOMAIN b <=> i \in DOMAIN c) /\ (i \in DOMAIN b => b[i] = c[i])
OneAtATime == \A k \in DOMAIN past : k > 1 => \E x : ButFor(x, past[k - 1], past[k])
HistoryInv == HistoryType /\ Sound /\ Fresh /\ UsesLater /\ Kept /\ OneAtATime

\* What all forms of a document have in common.
LEMMA VersionFacts ==
  ASSUME NEW s \in Scenarios, NEW i, NEW d, IsVersion(s, i, d)
  PROVE  /\ i \in DOMAIN s.stored \cup DOMAIN s.creates /\ i \in Nat
         /\ d.kind = Original(s, i).kind
         /\ d.kind = "booking" =>
              /\ d.from \in Nat /\ d.to \in Nat /\ d.from < d.to /\ d.status \in Statuses
              /\ d.room = Original(s, i).room /\ d.from = Original(s, i).from /\ d.to = Original(s, i).to
         /\ d.kind = "invoice" => d.amount \in Nat /\ i \notin DOMAIN s.changes
         /\ d.kind = "promotion" => d.amount \in Int
         /\ d.kind = "use" => d.promotion = Original(s, i).promotion
<1> DEFINE o == Original(s, i)
<1>1. i \in DOMAIN s.stored \cup DOMAIN s.creates /\ i \in Nat
  BY QueriesAssumption DEF IsVersion
<1>2. o \in Documents(s)
  BY <1>1 DEF Documents, Original
<1>3. IsDocument(o)
  BY <1>2, QueriesAssumption
<1>5. i \in DOMAIN s.changes => IsUpdate(o, s.changes[i]) /\ IsDocument(s.changes[i])
  BY QueriesAssumption DEF Documents
<1>6. \/ i \in DOMAIN s.changes /\ d = s.changes[i]
      \/ d = o
      \/ \E n \in DOMAIN Calendar : d = [o EXCEPT !.day = n]
  BY QueriesAssumption DEF IsVersion, Original
<1> HIDE DEF o
<1>7. CASE d = o \/ \E n \in DOMAIN Calendar : d = [o EXCEPT !.day = n]
  <2>1. \A x \in DOMAIN o : x # "day" => d[x] = o[x]
    BY <1>7
  <2>2. d.kind = o.kind
    BY <1>3, <2>1 DEF IsDocument
  <2>3. o.kind = "booking" =>
          /\ d.room = o.room /\ d.from = o.from /\ d.to = o.to /\ d.status = o.status
          /\ o.from \in Nat /\ o.to \in Nat /\ o.from < o.to /\ o.status \in Statuses
    BY <1>3, <2>1 DEF IsDocument
  <2>4. o.kind = "invoice" => d.amount = o.amount /\ o.amount \in Nat /\ i \notin DOMAIN s.changes
    BY <1>3, <1>5, <2>1 DEF IsDocument, IsUpdate
  <2>5. o.kind = "promotion" => d.amount = o.amount /\ o.amount \in Int
    BY <1>3, <2>1 DEF IsDocument
  <2>6. o.kind = "use" => d.promotion = o.promotion
    BY <1>3, <2>1 DEF IsDocument
  <2>7. QED
    BY <1>1, <2>2, <2>3, <2>4, <2>5, <2>6 DEF o
<1>8. CASE i \in DOMAIN s.changes /\ d = s.changes[i]
  <2>1. IsUpdate(o, d) /\ IsDocument(d)
    BY <1>5, <1>8
  <2>2. d.kind = o.kind /\ d.kind \notin {"use", "invoice"}
    BY <2>1 DEF IsUpdate
  <2>3. d.kind = "booking" =>
          /\ d.room = o.room /\ d.from = o.from /\ d.to = o.to
          /\ d.from \in Nat /\ d.to \in Nat /\ d.from < d.to /\ d.status \in Statuses
    BY <2>1 DEF IsDocument, IsUpdate
  <2>4. d.kind = "promotion" => d.amount \in Int
    BY <2>1 DEF IsDocument
  <2>5. QED
    BY <1>1, <2>2, <2>3, <2>4 DEF o
<1>9. QED
  BY <1>6, <1>7, <1>8

\* What an action may make of the database.
MayFollow(b) ==
  /\ b \in Bases(scene) /\ IsFiniteSet(DOMAIN b)
  /\ \A i \in DOMAIN b : IsVersion(scene, i, b[i])
  /\ \A i \in DOMAIN b \ DOMAIN db :
       /\ i \in DOMAIN scene.creates /\ \A k \in DOMAIN past : i \notin DOMAIN past[k]
       /\ b[i].kind = "use" /\ b[i].promotion \in DOMAIN scene.creates =>
            \E k \in DOMAIN past : b[i].promotion \in DOMAIN past[k]
       /\ b[i].day \in DOMAIN Calendar /\ (b[i].day >= Began \/ i \in scene.underway)
  /\ \A i \in DOMAIN b \cap DOMAIN db :
       b[i] = db[i] \/ (i \in DOMAIN scene.changes /\ b[i] = scene.changes[i])
  /\ \E x : ButFor(x, db, b)
  /\ \A i \in DOMAIN db \ DOMAIN b : db[i].kind \notin {"booking", "invoice"}

\* The latest state of the database is one of the history, finite, and of known forms.
LEMMA Now ==
  ASSUME HistoryInv
  PROVE  /\ Len(past) \in Nat /\ DOMAIN past = 1 .. Len(past) /\ Len(past) \in DOMAIN past
         /\ db = past[Len(past)] /\ db \in Bases(scene)
         /\ DOMAIN db \subseteq Nat /\ IsFiniteSet(DOMAIN db)
         /\ \A i \in DOMAIN db : db[i] \in Forms(scene) /\ IsVersion(scene, i, db[i])
<1>1. /\ past \in Seq(Bases(scene)) /\ Len(past) >= 1
  BY DEF HistoryInv, HistoryType
<1>2. /\ Len(past) \in Nat /\ DOMAIN past = 1 .. Len(past) /\ Len(past) \in DOMAIN past
      /\ past[Len(past)] \in Bases(scene)
  BY <1>1
<1>3. db = past[Len(past)]
  BY DEF db, Last
<1>4. PICK I \in SUBSET Nat : db \in [I -> Forms(scene)]
  BY <1>2, <1>3 DEF Bases
<1>5. DOMAIN db = I /\ \A i \in I : db[i] \in Forms(scene)
  BY <1>4
<1>6. QED
  BY <1>2, <1>3, <1>5 DEF HistoryInv, Sound

\* A new document has never been there; the others stay as they are.
LEMMA CreateMayFollow ==
  ASSUME HistoryInv, NEW i, Create(i)
  PROVE  \E b : MayFollow(b) /\ past' = Append(past, b)
<1>0. PICK day \in Dates(i) :
        past' = Append(past, [j \in DOMAIN db \cup {i} |->
                                IF j = i THEN [scene.creates[i] EXCEPT !.day = day] ELSE db[j]])
  BY DEF Create
<1> DEFINE c == [scene.creates[i] EXCEPT !.day = day]
           b == [j \in DOMAIN db \cup {i} |-> IF j = i THEN c ELSE db[j]]
<1>1. /\ i \in DOMAIN scene.creates /\ past' = Append(past, b)
      /\ \A k \in DOMAIN past : i \notin DOMAIN past[k]
      /\ scene.creates[i].kind = "use" /\ scene.creates[i].promotion \in DOMAIN scene.creates =>
           \E k \in DOMAIN past : scene.creates[i].promotion \in DOMAIN past[k]
  BY <1>0 DEF Create
<1>2. /\ scene \in Scenarios /\ day \in DOMAIN Calendar
      /\ day >= Began \/ i \in scene.underway
  <2>1. scene \in Scenarios /\ now \in Nat /\ Began \in Nat
    BY QueriesAssumption DEF HistoryInv, HistoryType, Began
  <2>2. CASE i \in scene.underway
    BY <1>0, <2>1, <2>2, QueriesAssumption DEF Dates
  <2>3. CASE i \notin scene.underway
    BY <1>0, <2>1, <2>3 DEF Dates
  <2>4. QED
    BY <2>2, <2>3, <2>1
<1>3. IsVersion(scene, i, c)
  BY <1>1, <1>2 DEF IsVersion
<1>4. c \in Forms(scene) /\ i \in Nat
  BY <1>1, <1>2, QueriesAssumption DEF Forms
<1>5. i \notin DOMAIN db
  BY <1>1, Now
<1>13. "day" \in DOMAIN scene.creates[i] /\ IsDocument(scene.creates[i])
  BY <1>1, <1>2, QueriesAssumption DEF Documents, IsDocument
<1>14. c.day = day /\ \A x \in DOMAIN scene.creates[i] : x # "day" => c[x] = scene.creates[i][x]
  BY <1>13
<1> HIDE DEF c
<1>6. DOMAIN b = DOMAIN db \cup {i} /\ b[i] = c /\ \A j \in DOMAIN db : b[j] = db[j]
  BY <1>5
<1>7. b \in [DOMAIN db \cup {i} -> Forms(scene)] /\ DOMAIN db \cup {i} \in SUBSET Nat
  BY <1>4, Now
<1> HIDE DEF b
<1>8. b \in Bases(scene)
  BY <1>7 DEF Bases
<1>9. IsFiniteSet(DOMAIN b)
  BY <1>6, Now, FS_AddElement
<1>10. \A j \in DOMAIN b : IsVersion(scene, j, b[j])
  BY <1>3, <1>6, Now
<1>11. MayFollow(b)
  <2>1. ButFor(i, db, b)
    BY <1>6 DEF ButFor
  <2>2. /\ c.kind = scene.creates[i].kind
        /\ c.kind = "use" => c.promotion = scene.creates[i].promotion
    BY <1>13, <1>14 DEF IsDocument
  <2>3. \A j \in DOMAIN b \ DOMAIN db : j = i
    BY <1>6
  <2>4. /\ c.kind = "use" /\ c.promotion \in DOMAIN scene.creates =>
             \E k \in DOMAIN past : c.promotion \in DOMAIN past[k]
        /\ c.day \in DOMAIN Calendar /\ (c.day >= Began \/ i \in scene.underway)
    BY <1>1, <1>2, <1>14, <2>2
  <2>5. QED
    BY <1>1, <1>6, <1>8, <1>9, <1>10, <2>1, <2>3, <2>4 DEF MayFollow
<1>12. QED
  BY <1>1, <1>11

\* A document is changed to its other form; the others stay as they are.
LEMMA ChangeMayFollow ==
  ASSUME HistoryInv, NEW i, Change(i)
  PROVE  \E b : MayFollow(b) /\ past' = Append(past, b)
<1> DEFINE b == [db EXCEPT ![i] = scene.changes[i]]
<1>1. i \in DOMAIN scene.changes /\ i \in DOMAIN db /\ past' = Append(past, b)
  BY DEF Change
<1>2. PICK I \in SUBSET Nat : db \in [I -> Forms(scene)]
  BY Now DEF Bases
<1>3. scene.changes[i] \in Forms(scene)
  BY <1>1 DEF Forms
<1>4. b \in [I -> Forms(scene)] /\ DOMAIN b = DOMAIN db /\ b[i] = scene.changes[i]
      /\ \A j \in DOMAIN db : j # i => b[j] = db[j]
  BY <1>1, <1>2, <1>3
<1> HIDE DEF b
<1>5. b \in Bases(scene) /\ IsFiniteSet(DOMAIN b)
  BY <1>2, <1>4, Now DEF Bases
<1>6. IsVersion(scene, i, b[i])
  BY <1>1, <1>4 DEF IsVersion
<1>7. \A j \in DOMAIN b : IsVersion(scene, j, b[j])
  BY <1>4, <1>6, Now
<1>8. MayFollow(b)
  <2>1. ButFor(i, db, b)
    BY <1>4 DEF ButFor
  <2>2. QED
    BY <1>1, <1>4, <1>5, <1>7, <2>1 DEF MayFollow
<1>9. QED
  BY <1>1, <1>8

\* Who is left is as he was.
LEMMA DeleteMayFollow ==
  ASSUME HistoryInv, NEW i, Delete(i)
  PROVE  \E b : MayFollow(b) /\ past' = Append(past, b)
<1> DEFINE b == [j \in DOMAIN db \ {i} |-> db[j]]
<1>1. past' = Append(past, b)
  BY DEF Delete
<1>2. DOMAIN b = DOMAIN db \ {i} /\ \A j \in DOMAIN b : b[j] = db[j]
  OBVIOUS
<1>3. b \in [DOMAIN db \ {i} -> Forms(scene)] /\ DOMAIN db \ {i} \in SUBSET Nat
  BY Now
<1> HIDE DEF b
<1>4. b \in Bases(scene)
  BY <1>3 DEF Bases
<1>5. IsFiniteSet(DOMAIN b)
  BY <1>2, Now, FS_RemoveElement
<1>6. MayFollow(b)
  <2>1. ButFor(i, db, b)
    BY <1>2 DEF ButFor
  <2>2. i \in DOMAIN db => db[i].kind \notin {"booking", "invoice"}
    <3>1. i \in DOMAIN db => IsVersion(scene, i, db[i])
      BY Now
    <3>2. scene \in Scenarios /\ i \in scene.removes
      BY DEF Delete, HistoryInv, HistoryType
    <3>3. QED
      BY <3>1, <3>2, VersionFacts, QueriesAssumption
  <2>3. QED
    BY <1>2, <1>4, <1>5, <2>1, <2>2, Now DEF MayFollow
<1>7. QED
  BY <1>1, <1>6

\* A step adds a state to the history, or one answer to those got, at most.
LEMMA StepShape ==
  ASSUME HistoryInv, [Next]_vars
  PROVE  /\ scene' = scene /\ ask' = ask /\ now' \in DOMAIN Calendar /\ now' >= Began
         /\ \/ past' = past
            \/ \E b : MayFollow(b) /\ past' = Append(past, b)
         /\ \/ got' = got
            \/ past' = past /\ \E r \in Due : Answer(r)
<1>0. /\ now \in DOMAIN Calendar /\ now >= Began /\ DOMAIN Calendar \subseteq Nat /\ Began \in Nat
  BY QueriesAssumption DEF HistoryInv, HistoryType, Began
<1>1. ASSUME NEW r \in Due, Answer(r) PROVE UNCHANGED <<scene, ask, past, now>>
  BY <1>1 DEF Answer
<1>2. ASSUME Midnight PROVE UNCHANGED <<scene, ask, past, got>> /\ now' \in DOMAIN Calendar /\ now' >= Began
  <2>1. UNCHANGED <<scene, ask, past, got>> /\ now' = now + 1 /\ now + 1 \in DOMAIN Calendar
    BY <1>2 DEF Midnight
  <2>2. now \in Nat
    BY <1>0
  <2>3. QED
    BY <1>0, <2>1, <2>2
<1>3. ASSUME NEW i, Create(i) PROVE UNCHANGED <<scene, ask, now, got>>
  BY <1>3 DEF Create
<1>4. ASSUME NEW i, Change(i) PROVE UNCHANGED <<scene, ask, now, got>>
  BY <1>4 DEF Change
<1>5. ASSUME NEW i, Delete(i) PROVE UNCHANGED <<scene, ask, now, got>>
  BY <1>5 DEF Delete
<1>6. CASE UNCHANGED vars
  BY <1>0, <1>6 DEF vars
<1>7. CASE \E r \in Due : Answer(r)
  BY <1>0, <1>1, <1>7
<1>8. CASE Midnight
  BY <1>2, <1>8
<1>9. CASE \E i \in DOMAIN scene.creates : Create(i)
  BY <1>0, <1>3, <1>9, CreateMayFollow
<1>10. CASE \E i \in DOMAIN scene.changes : Change(i)
  BY <1>0, <1>4, <1>10, ChangeMayFollow
<1>11. CASE \E i \in scene.removes : Delete(i)
  BY <1>0, <1>5, <1>11, DeleteMayFollow
<1>12. QED
  BY <1>6, <1>7, <1>8, <1>9, <1>10, <1>11 DEF Next

\* Every step keeps the history sound and changes nothing of what has been.
LEMMA HistoryStep ==
  ASSUME HistoryInv, [Next]_vars
  PROVE  /\ HistoryInv'
         /\ \A k \in DOMAIN past : k \in DOMAIN past' /\ past'[k] = past[k]
         /\ \/ past' = past
            \/ Len(past') = Len(past) + 1 /\ MayFollow(past'[Len(past) + 1])
<1>1. /\ scene' = scene /\ ask' = ask /\ now' \in DOMAIN Calendar /\ now' >= Began
      /\ past' = past \/ \E b : MayFollow(b) /\ past' = Append(past, b)
  BY StepShape
<1>2. Began' = Began /\ Bases(scene)' = Bases(scene)
  BY <1>1 DEF Began
<1>3. CASE past' = past
  <2>1. HistoryType'
    BY <1>1, <1>2, <1>3 DEF HistoryInv, HistoryType
  <2>2. Sound' /\ Fresh' /\ UsesLater' /\ Kept' /\ OneAtATime'
    BY <1>1, <1>3 DEF HistoryInv, Sound, Fresh, UsesLater, Kept, OneAtATime
  <2>3. QED
    BY <1>3, <2>1, <2>2 DEF HistoryInv
<1>4. ASSUME NEW b, MayFollow(b), past' = Append(past, b)
      PROVE  /\ HistoryInv'
             /\ \A k \in DOMAIN past : k \in DOMAIN past' /\ past'[k] = past[k]
             /\ Len(past') = Len(past) + 1 /\ MayFollow(past'[Len(past) + 1])
  <2> DEFINE L == Len(past)
  <2>1. past \in Seq(Bases(scene)) /\ b \in Bases(scene) /\ L >= 1 /\ L \in Nat
    BY <1>4, Now DEF MayFollow, HistoryInv, HistoryType
  <2>2. /\ past' \in Seq(Bases(scene)) /\ Len(past') = L + 1
        /\ DOMAIN past = 1 .. L /\ DOMAIN past' = 1 .. L + 1
        /\ past'[L + 1] = b /\ \A k \in 1 .. L : past'[k] = past[k]
    BY <1>4, <2>1
  <2>3. db = past[L]
    BY Now
  <2> HIDE DEF L
  <2>4. HistoryType'
    BY <1>1, <1>2, <2>1, <2>2 DEF HistoryInv, HistoryType
  <2>5. Sound'
    <3> SUFFICES ASSUME NEW k \in 1 .. L + 1
                 PROVE  /\ IsFiniteSet(DOMAIN past'[k])
                        /\ \A i \in DOMAIN past'[k] : IsVersion(scene, i, past'[k][i])
      BY <1>1, <2>2 DEF Sound
    <3>1. CASE k \in 1 .. L
      BY <2>2, <3>1 DEF HistoryInv, Sound
    <3>2. CASE k = L + 1
      BY <1>4, <2>2, <3>2 DEF MayFollow
    <3>3. QED
      BY <2>1, <3>1, <3>2
  <2>6. Fresh'
    <3> SUFFICES ASSUME NEW k \in 1 .. L + 1, NEW m \in 1 .. L + 1, k < m,
                        NEW i \in DOMAIN past'[m] \ DOMAIN past'[k]
                 PROVE  /\ i \in DOMAIN scene.creates
                        /\ \A n \in 1 .. k : i \notin DOMAIN past'[n]
      BY <1>1, <2>2 DEF Fresh
    <3>1. k \in 1 .. L /\ \A n \in 1 .. k : n \in 1 .. L /\ past'[n] = past[n]
      BY <2>1, <2>2
    <3>6. past'[k] = past[k]
      BY <2>2, <3>1
    <3>2. CASE m \in 1 .. L
      BY <2>2, <3>1, <3>2, <3>6 DEF HistoryInv, Fresh
    <3>3. CASE m = L + 1 /\ i \notin DOMAIN past[L]
      BY <1>4, <2>2, <2>3, <3>1, <3>3 DEF MayFollow
    <3>4. CASE m = L + 1 /\ i \in DOMAIN past[L]
      <4>1. k # L
        BY <3>4, <3>6
      <4>2. k < L /\ L \in 1 .. L
        BY <2>1, <3>1, <4>1
      <4>3. QED
        BY <2>2, <3>1, <3>4, <3>6, <4>2 DEF HistoryInv, Fresh
    <3>5. QED
      BY <2>1, <3>2, <3>3, <3>4
  <2>10. UsesLater'
    <3> SUFFICES ASSUME NEW k \in 1 .. L + 1, NEW u \in DOMAIN past'[k],
                        past'[k][u].kind = "use", past'[k][u].promotion \in DOMAIN scene.creates
                 PROVE  \E n \in 1 .. k : past'[k][u].promotion \in DOMAIN past'[n]
      BY <1>1, <2>2 DEF UsesLater
    <3>1. CASE k \in 1 .. L
      <4>1. past'[k] = past[k] /\ \A n \in 1 .. k : n \in 1 .. L /\ past'[n] = past[n]
        BY <2>1, <2>2, <3>1
      <4>2. PICK n \in 1 .. k : past[k][u].promotion \in DOMAIN past[n]
        BY <2>2, <3>1, <4>1 DEF HistoryInv, UsesLater
      <4>3. QED
        BY <4>1, <4>2
    <3>2. CASE k = L + 1
      <4>1. u \in DOMAIN b /\ past'[k] = b /\ L \in 1 .. L
        BY <2>1, <2>2, <3>2
      <4>2. \A n \in 1 .. L : n \in 1 .. k /\ past'[n] = past[n]
        BY <2>1, <2>2, <3>2
      <4>3. \E n \in 1 .. L : b[u].promotion \in DOMAIN past[n]
        <5>1. CASE u \notin DOMAIN db
          BY <1>4, <2>2, <4>1, <5>1 DEF MayFollow
        <5>2. CASE u \in DOMAIN db
          <6>1. IsVersion(scene, u, b[u]) /\ IsVersion(scene, u, db[u]) /\ scene \in Scenarios
            BY <1>4, <4>1, <5>2, Now DEF MayFollow, HistoryInv, HistoryType
          <6>2. db[u].kind = "use" /\ db[u].promotion = b[u].promotion
            BY <4>1, <6>1, VersionFacts
          <6>3. QED
            BY <2>2, <2>3, <4>1, <5>2, <6>2 DEF HistoryInv, UsesLater
        <5>3. QED
          BY <5>1, <5>2
      <4>4. QED
        BY <4>1, <4>2, <4>3
    <3>3. QED
      BY <2>1, <3>1, <3>2
  <2>7. Kept'
    <3> SUFFICES ASSUME NEW k \in 1 .. L + 1, NEW m \in 1 .. L + 1, k < m,
                        NEW i \in DOMAIN past'[m] \cap DOMAIN past'[k]
                 PROVE  past'[m][i] = past'[k][i] \/ (i \in DOMAIN scene.changes /\ past'[m][i] = scene.changes[i])
      BY <1>1, <2>2 DEF Kept
    <3>1. k \in 1 .. L /\ past'[k] = past[k] /\ i \in DOMAIN past[k]
      BY <2>1, <2>2
    <3>2. CASE m \in 1 .. L
      BY <2>2, <3>1, <3>2 DEF HistoryInv, Kept
    <3>3. CASE m = L + 1
      <4>1. i \in DOMAIN b /\ past'[m] = b
        BY <2>2, <3>3
      <4>3. i \in DOMAIN past[L]
        BY <1>4, <2>2, <2>3, <3>1, <4>1 DEF MayFollow
      <4>4. b[i] = past[L][i] \/ (i \in DOMAIN scene.changes /\ b[i] = scene.changes[i])
        BY <1>4, <2>3, <4>1, <4>3 DEF MayFollow
      <4>5. CASE k = L
        BY <3>1, <4>1, <4>4, <4>5
      <4>6. CASE k # L
        <5>1. k < L /\ L \in 1 .. L
          BY <2>1, <3>1, <4>6
        <5>2. past[L][i] = past[k][i] \/ (i \in DOMAIN scene.changes /\ past[L][i] = scene.changes[i])
          BY <2>2, <3>1, <4>3, <5>1 DEF HistoryInv, Kept
        <5>3. QED
          BY <3>1, <4>1, <4>4, <5>2
      <4>7. QED
        BY <4>5, <4>6
    <3>4. QED
      BY <2>1, <3>2, <3>3
  <2>8. OneAtATime'
    <3> SUFFICES ASSUME NEW k \in 1 .. L + 1, k > 1
                 PROVE  \E x : ButFor(x, past'[k - 1], past'[k])
      BY <2>2 DEF OneAtATime
    <3>1. CASE k \in 1 .. L
      <4>1. k - 1 \in 1 .. L
        BY <2>1, <3>1
      <4>2. QED
        BY <2>2, <3>1, <4>1 DEF HistoryInv, OneAtATime
    <3>2. CASE k = L + 1
      <4>1. k - 1 = L /\ L \in 1 .. L
        BY <2>1, <3>2
      <4>2. QED
        BY <1>4, <2>2, <2>3, <3>2, <4>1 DEF MayFollow
    <3>3. QED
      BY <2>1, <3>1, <3>2
  <2>9. QED
    BY <1>4, <2>2, <2>4, <2>5, <2>6, <2>7, <2>8, <2>10 DEF HistoryInv, L
<1>5. QED
  BY <1>1, <1>3, <1>4

\* The database of the beginning is a history of its own.
LEMMA HistoryInit == Init => HistoryInv
<1> SUFFICES ASSUME Init PROVE HistoryInv
  OBVIOUS
<1>1. PICK some \in scene.optional :
        past = << [i \in (DOMAIN scene.stored) \ some |-> scene.stored[i]] >>
  BY DEF Init
<1> DEFINE b == [i \in (DOMAIN scene.stored) \ some |-> scene.stored[i]]
<1>2. scene \in Scenarios /\ ask \in scene.asks /\ now = scene.day
  BY DEF Init
<1>3. /\ scene.day \in DOMAIN Calendar /\ scene.day \in Nat
      /\ IsFiniteSet(DOMAIN scene.stored) /\ DOMAIN scene.stored \subseteq Nat
  BY <1>2, QueriesAssumption
<1>4. DOMAIN b = (DOMAIN scene.stored) \ some /\ \A i \in DOMAIN b : b[i] = scene.stored[i] /\ i \in DOMAIN scene.stored
  OBVIOUS
<1>5. b \in [DOMAIN b -> Forms(scene)] /\ DOMAIN b \in SUBSET Nat
  BY <1>3 DEF Forms
<1>6. IsFiniteSet(DOMAIN b)
  BY <1>3, <1>4, FS_Subset
<1>7. past = <<b>>
  BY <1>1
<1> HIDE DEF b
<1>8. b \in Bases(scene)
  BY <1>5 DEF Bases
<1>9. past \in Seq(Bases(scene)) /\ Len(past) = 1 /\ DOMAIN past = {1} /\ past[1] = b
  BY <1>7, <1>8
<1>10. HistoryType
  BY <1>2, <1>3, <1>9 DEF HistoryType, Began
<1>11. Sound
  BY <1>4, <1>6, <1>9 DEF Sound, IsVersion
<1>12. Fresh /\ Kept /\ OneAtATime
  BY <1>9 DEF Fresh, Kept, OneAtATime
<1>14. UsesLater
  <2> SUFFICES ASSUME NEW i \in DOMAIN b, b[i].kind = "use"
               PROVE  b[i].promotion \notin DOMAIN scene.creates
    BY <1>9 DEF UsesLater
  <2>1. QED
    BY <1>2, <1>4, QueriesAssumption
<1>13. QED
  BY <1>10, <1>11, <1>12, <1>14 DEF HistoryInv

\* While a query runs, documents come one at a time, whatever they are dated and wherever
\* lists show them; none comes twice, a promotion comes before its uses, and a document
\* changes but from its first form to its second: what createBooking, the updates and the
\* removals of other requests may do meanwhile.
THEOREM HistoryIsSound == Spec => []HistoryInv
<1>1. HistoryInv /\ [Next]_vars => HistoryInv'
  BY HistoryStep
<1>2. QED
  BY <1>1, HistoryInit, PTL DEF Spec

-----------------------------------------------------------------------------
(* Sorted lists and windows of them. *)

\* Who comes before whom in a list is an order.
LEMMA BeforeIsOrder ==
  ASSUME NEW i \in Nat, NEW j \in Nat, NEW k \in Nat
  PROVE  /\ ~Before(i, i)
         /\ i # j => Before(i, j) \/ Before(j, i)
         /\ ~(Before(i, j) /\ Before(j, i))
         /\ Before(i, j) /\ Before(j, k) => Before(i, k)
BY DEF Before

\* Ranks in a finite list are below its length, in its order, and each has one holder.
LEMMA RankFacts ==
  ASSUME NEW ids \in SUBSET Nat, IsFiniteSet(ids)
  PROVE  /\ \A i \in Nat : Rank(i, ids) \in Nat
         /\ \A i \in ids : Rank(i, ids) < Cardinality(ids)
         /\ \A i, j \in ids : Before(i, j) => Rank(i, ids) < Rank(j, ids)
         /\ \A i, j \in ids : Rank(i, ids) = Rank(j, ids) => i = j
<1> DEFINE Ahead(i) == {j \in ids : Before(j, i)}
<1>1. \A i : IsFiniteSet(Ahead(i)) /\ Ahead(i) \in SUBSET ids
  BY FS_Subset
<1>2. \A i : Rank(i, ids) = Cardinality(Ahead(i)) /\ Rank(i, ids) \in Nat
  BY <1>1, FS_CardinalityType DEF Rank
<1>3. ASSUME NEW i \in ids PROVE Rank(i, ids) < Cardinality(ids)
  <2>1. i \notin Ahead(i)
    BY BeforeIsOrder
  <2>2. Cardinality(Ahead(i)) <= Cardinality(ids) /\ Cardinality(Ahead(i)) # Cardinality(ids)
    <3>1. Ahead(i) # ids /\ Ahead(i) \in SUBSET ids
      BY <2>1
    <3> HIDE DEF Ahead
    <3>2. QED
      BY <3>1, FS_Subset
  <2>3. QED
    BY <1>2, <2>2, FS_CardinalityType
<1>4. ASSUME NEW i \in ids, NEW j \in ids, Before(i, j) PROVE Rank(i, ids) < Rank(j, ids)
  <2>1. Ahead(i) \in SUBSET Ahead(j)
    BY <1>4, BeforeIsOrder
  <2>2. i \in Ahead(j) /\ i \notin Ahead(i)
    BY <1>4, BeforeIsOrder
  <2> HIDE DEF Ahead
  <2>3. Cardinality(Ahead(i)) <= Cardinality(Ahead(j)) /\ Cardinality(Ahead(i)) # Cardinality(Ahead(j))
    BY <1>1, <2>1, <2>2, FS_Subset
  <2>4. QED
    BY <1>2, <2>3
<1>5. ASSUME NEW i \in ids, NEW j \in ids, Rank(i, ids) = Rank(j, ids) PROVE i = j
  <2>1. SUFFICES ASSUME i # j PROVE FALSE
    OBVIOUS
  <2>2. Before(i, j) \/ Before(j, i)
    BY <2>1, BeforeIsOrder
  <2>3. Rank(i, ids) < Rank(j, ids) \/ Rank(j, ids) < Rank(i, ids)
    BY <1>4, <2>2
  <2>4. QED
    BY <1>2, <1>5, <2>3
<1>6. QED
  BY <1>2, <1>3, <1>4, <1>5

\* Each place of a sorted list is that of the document of its rank.
LEMMA SortedFacts ==
  ASSUME NEW ids \in SUBSET Nat, IsFiniteSet(ids)
  PROVE  /\ Cardinality(ids) \in Nat
         /\ Len(Sorted(ids)) = Cardinality(ids) /\ Sorted(ids) \in Seq(ids)
         /\ \A k \in 1 .. Cardinality(ids) :
              Sorted(ids)[k] \in ids /\ Rank(Sorted(ids)[k], ids) = k - 1
<1> DEFINE n == Cardinality(ids)
           ranks == [i \in ids |-> Rank(i, ids)]
<1>1. n \in Nat
  BY FS_CardinalityType
<1>2. /\ IsFiniteSet(0 .. n - 1) /\ Cardinality(0 .. n - 1) = n
  <2>1. 0 \in Int /\ n - 1 \in Int /\ (0 > n - 1 => n = 0) /\ (n - 1) - 0 + 1 = n
    BY <1>1
  <2> HIDE DEF n
  <2>2. QED
    BY <2>1, FS_Interval
<1>3. ranks \in Injection(ids, 0 .. n - 1)
  <2>1. \A i \in ids : Rank(i, ids) \in 0 .. n - 1
    BY <1>1, RankFacts
  <2>2. \A i, j \in ids : Rank(i, ids) = Rank(j, ids) => i = j
    BY RankFacts
  <2> HIDE DEF n
  <2>3. QED
    BY <2>1, <2>2 DEF Injection, IsInjective
<1>4. ranks \in Surjection(ids, 0 .. n - 1)
  <2> HIDE DEF ranks
  <2>1. QED
    BY <1>2, <1>3, FS_Injection DEF n
<1>5. \A k \in 1 .. n : \E i \in ids : Rank(i, ids) = k - 1
  <2> SUFFICES ASSUME NEW k \in 1 .. n PROVE \E i \in ids : Rank(i, ids) = k - 1
    OBVIOUS
  <2>1. k - 1 \in 0 .. n - 1
    BY <1>1
  <2>2. QED
    BY <1>4, <2>1 DEF Surjection
<1>6. \A k \in 1 .. n : Sorted(ids)[k] \in ids /\ Rank(Sorted(ids)[k], ids) = k - 1
  BY <1>5 DEF Sorted
<1>7. Sorted(ids) \in Seq(ids) /\ Len(Sorted(ids)) = n
  <2>1. Sorted(ids) = [k \in 1 .. n |-> Sorted(ids)[k]]
    BY DEF Sorted
  <2>2. Sorted(ids) \in [1 .. n -> ids]
    BY <1>6, <2>1
  <2> HIDE DEF n
  <2>3. QED
    BY <1>1, <2>2
<1>8. QED
  BY <1>1, <1>6, <1>7

\* A window shows the places from skip + 1 to end, as far as there are any.
IsWindow(w, seq, skip, end) ==
  /\ Len(w) <= end - skip
  /\ \A k \in DOMAIN w :
       k \in Nat \ {0} /\ skip + k <= end /\ skip + k <= Len(seq) /\ w[k] = seq[skip + k]
  /\ \A m \in Nat : skip < m /\ m <= end /\ m <= Len(seq) => \E k \in DOMAIN w : w[k] = seq[m]

\* A slice of a list is such a window.
LEMMA WindowFacts ==
  ASSUME NEW S, NEW seq \in Seq(S), NEW skip \in Nat, NEW end \in Nat, skip <= end
  PROVE  IsWindow(Window(seq, skip, end), seq, skip, end)
<1> DEFINE last == IF end < Len(seq) THEN end ELSE Len(seq)
           w == SubSeq(seq, skip + 1, last)
<1>1. Len(seq) \in Nat /\ last \in Nat /\ last <= end /\ last <= Len(seq) /\ Window(seq, skip, end) = w
  BY DEF Window
<1> HIDE DEF last
<1>2. /\ w \in Seq(S)
      /\ Len(w) = IF skip + 1 <= last THEN last - skip ELSE 0
      /\ \A k \in 1 .. Len(w) : w[k] = seq[skip + k]
  <2>1. CASE skip + 1 <= last
    BY <1>1, <2>1
  <2>2. CASE ~(skip + 1 <= last)
    BY <1>1, <2>2
  <2>3. QED
    BY <2>1, <2>2
<1> HIDE DEF w
<1>3. DOMAIN w = 1 .. Len(w) /\ Len(w) \in Nat
  BY <1>2
<1>4. \A k \in DOMAIN w : k \in Nat \ {0} /\ skip + k <= end /\ skip + k <= Len(seq) /\ w[k] = seq[skip + k]
  BY <1>1, <1>2, <1>3
<1>5. ASSUME NEW m \in Nat, skip < m, m <= end, m <= Len(seq) PROVE \E k \in DOMAIN w : w[k] = seq[m]
  <2>1. m - skip \in DOMAIN w
    BY <1>1, <1>2, <1>3, <1>5 DEF last
  <2>2. w[m - skip] = seq[skip + (m - skip)] /\ skip + (m - skip) = m
    BY <1>4, <2>1
  <2>3. QED
    BY <2>1, <2>2
<1>6. Len(w) <= end - skip
  BY <1>1, <1>2
<1>7. QED
  BY <1>1, <1>4, <1>5, <1>6 DEF IsWindow

-----------------------------------------------------------------------------
(* Which reads come when. *)

ListNames == {"used", "offered", "types", "count", "page", "roomTypes"}

\* Stages are gone through in order, and the reads of a stage are its own.
LEMMA InTurnFacts ==
  ASSUME NEW stages, NEW r \in InTurn(stages)
  PROVE  \E k \in DOMAIN stages :
           /\ r \in stages[k] /\ r \notin Read
           /\ \A j \in 1 .. k - 1 : stages[j] \subseteq Read
BY DEF InTurn

\* What a page is made of, in the kinds of lists there are.
LEMMA StagesOf ==
  ASSUME NEW p
  PROVE  /\ ask.of = "offers" => Stages(p) = << {<<"used", p>>}, {<<"offered", p>>} >>
         /\ ask.of = "servicesOfRoomType" =>
              Stages(p) = << {<<"types", p>>}, {<<"count", p>>, <<"page", p>>} >>
         /\ ask.of \in {"room", "roomsOfType"} =>
              Stages(p) = << {<<"count", p>>, <<"page", p>>}, {<<"roomTypes", p>>} >>
         /\ ask.of \notin {"offers", "servicesOfRoomType", "room", "roomsOfType"} =>
              Stages(p) = << {<<"count", p>>, <<"page", p>>} >>
BY DEF Stages

\* A read that is due of a page is one of the page's own; offers have reads of their own.
LEMMA PageReads ==
  ASSUME NEW p, NEW r \in InTurn(Stages(p))
  PROVE  /\ r \notin Read /\ r[1] \in ListNames /\ r = <<r[1], p>>
         /\ r[1] \in {"used", "offered"} <=> Sliced
         /\ r[1] = "offered" => <<"used", p>> \in Read
<1>1. PICK k \in DOMAIN Stages(p) :
        /\ r \in Stages(p)[k] /\ r \notin Read
        /\ \A j \in 1 .. k - 1 : Stages(p)[j] \subseteq Read
  BY InTurnFacts
<1>2. CASE ask.of = "offers"
  <2>1. Stages(p) = << {<<"used", p>>}, {<<"offered", p>>} >>
    BY <1>2, StagesOf
  <2>2. k = 1 \/ k = 2
    BY <1>1, <2>1
  <2>3. r = <<"used", p>> \/ (r = <<"offered", p>> /\ k = 2)
    BY <1>1, <2>1, <2>2
  <2>4. k = 2 => <<"used", p>> \in Read
    BY <1>1, <2>1
  <2>5. QED
    BY <1>1, <1>2, <2>3, <2>4 DEF ListNames, Sliced
<1>3. CASE ask.of = "servicesOfRoomType"
  <2>1. Stages(p) = << {<<"types", p>>}, {<<"count", p>>, <<"page", p>>} >>
    BY <1>3, StagesOf
  <2>2. r \in {<<"types", p>>, <<"count", p>>, <<"page", p>>}
    BY <1>1, <2>1
  <2>3. QED
    BY <1>1, <1>3, <2>2 DEF ListNames, Sliced
<1>4. CASE ask.of \in {"room", "roomsOfType"}
  <2>1. Stages(p) = << {<<"count", p>>, <<"page", p>>}, {<<"roomTypes", p>>} >>
    BY <1>4, StagesOf
  <2>2. r \in {<<"roomTypes", p>>, <<"count", p>>, <<"page", p>>}
    BY <1>1, <2>1
  <2>3. QED
    BY <1>1, <1>4, <2>2 DEF ListNames, Sliced
<1>5. CASE ask.of \notin {"offers", "servicesOfRoomType", "room", "roomsOfType"}
  <2>1. Stages(p) = << {<<"count", p>>, <<"page", p>>} >>
    BY <1>5, StagesOf
  <2>2. r \in {<<"count", p>>, <<"page", p>>}
    BY <1>1, <2>1
  <2>3. QED
    BY <1>1, <1>5, <2>2 DEF ListNames, Sliced
<1>6. QED
  BY <1>2, <1>3, <1>4, <1>5

\* A complete page has been read.
LEMMA CompleteFacts ==
  ASSUME NEW p, Complete(p)
  PROVE  /\ Sliced => <<"offered", p>> \in Read
         /\ ~Sliced => <<"count", p>> \in Read /\ <<"page", p>> \in Read
<1>1. \A k \in DOMAIN Stages(p) : Stages(p)[k] \subseteq Read
  BY DEF Complete
<1>2. CASE ask.of = "offers"
  BY <1>1, <1>2, StagesOf DEF Sliced
<1>3. CASE ask.of = "servicesOfRoomType"
  BY <1>1, <1>3, StagesOf DEF Sliced
<1>4. CASE ask.of \in {"room", "roomsOfType"}
  BY <1>1, <1>4, StagesOf DEF Sliced
<1>5. CASE ask.of \notin {"offers", "servicesOfRoomType", "room", "roomsOfType"}
  BY <1>1, <1>5, StagesOf DEF Sliced
<1>6. QED
  BY <1>2, <1>3, <1>4, <1>5

\* Nothing is due of a page only when it is complete.
LEMMA NothingDueIsComplete ==
  ASSUME NEW p, InTurn(Stages(p)) = {}
  PROVE  Complete(p)
<1>1. \A k \in DOMAIN Stages(p) :
        (\A j \in 1 .. k - 1 : Stages(p)[j] \subseteq Read) => Stages(p)[k] \subseteq Read
  BY DEF InTurn
<1>2. \A a : 1 \in DOMAIN <<a>> /\ <<a>>[1] = a /\ DOMAIN <<a>> = {1}
  OBVIOUS
<1>3. \A a, b : /\ DOMAIN <<a, b>> = {1, 2} /\ <<a, b>>[1] = a /\ <<a, b>>[2] = b
  OBVIOUS
<1>4. DOMAIN Stages(p) = {1} \/ DOMAIN Stages(p) = {1, 2}
  BY <1>2, <1>3, StagesOf
<1>5. Stages(p)[1] \subseteq Read
  <2>1. 1 \in DOMAIN Stages(p) /\ 1 .. 1 - 1 = {}
    BY <1>4
  <2>2. QED
    BY <1>1, <2>1
<1>6. 2 \in DOMAIN Stages(p) => Stages(p)[2] \subseteq Read
  <2>1. 1 .. 2 - 1 = {1}
    OBVIOUS
  <2>2. QED
    BY <1>1, <1>5, <2>1
<1>7. QED
  BY <1>4, <1>5, <1>6 DEF Complete

\* What is due of a list is due of a page asked for; when nothing is, all these are complete.
LEMMA DueOfList ==
  ASSUME ask.for = "list"
  PROVE  /\ \A r \in Due : ~Failed /\ \E p \in Asked : r \in InTurn(Stages(p))
         /\ Due = {} /\ ~Failed => \A p \in Asked : Complete(p)
<1>1. Due = IF Failed THEN {} ELSE PagesDue
  BY DEF Due
<1>2. QED
  BY <1>1, NothingDueIsComplete DEF PagesDue

\* No other query reads pages.
LEMMA DueOfOthers ==
  ASSUME ask.for \in {"daily", "customers", "yearly", "fiveYears", "byRoomType", "export",
                      "counts", "availability", "staffCount", "statusCount", "exportStaff",
                      "exportServices", "exportBookings", "detail"},
         NEW r \in Due
  PROVE  r[1] # "page"
<1>1. ASSUME NEW names, NEW q \in Together(names) PROVE q[1] \in names
  BY <1>1 DEF Together
<1>2. ASSUME NEW names, NEW q \in Names(names) PROVE \E k \in DOMAIN names : q[1] = names[k]
  BY <1>2, InTurnFacts DEF Names
<1>3. ~Failed
  BY DEF Due
<1>4. CASE ask.for = "daily"
  <2>1. r \in Together({"today", "yesterday"})
    BY <1>3, <1>4 DEF Due
  <2>2. QED
    BY <1>1, <2>1
<1>5. CASE ask.for = "customers"
  <2>1. r \in Together({"todayNew", "yesterdayNew"})
    BY <1>3, <1>5 DEF Due
  <2>2. QED
    BY <1>1, <2>1
<1>6. CASE ask.for = "yearly"
  <2>1. r \in Together({"year", "lastYear", "months", "lastMonths"})
    BY <1>3, <1>6 DEF Due
  <2>2. QED
    BY <1>1, <2>1
<1>7. CASE ask.for = "fiveYears"
  <2>1. r \in Names(<<"booked", "services">>)
    BY <1>3, <1>7 DEF Due
  <2>2. QED
    BY <1>2, <2>1
<1>8. CASE ask.for = "byRoomType"
  <2>1. r \in Names(<<"thisYear">>)
    BY <1>3, <1>8 DEF Due
  <2>2. QED
    BY <1>2, <2>1
<1>9. CASE ask.for = "export"
  <2>1. r \in Names(<<"invoices", "byService", "byType">>)
    BY <1>3, <1>9 DEF Due, ExportExcel
  <2>2. QED
    BY <1>2, <2>1
<1>10. CASE ask.for = "counts"
  <2>1. r \in Together({"roomCounts", "serviceCounts"})
    BY <1>3, <1>10 DEF Due
  <2>2. QED
    BY <1>1, <2>1
<1>11. CASE ask.for = "availability"
  <2>1. r \in Names(<<"rooms", "bookedToday">>)
    BY <1>3, <1>11 DEF Due
  <2>2. QED
    BY <1>2, <2>1
<1>12. CASE ask.for = "staffCount"
  <2>1. r \in Together({"staff", "receptionists", "serviceStaff"})
    BY <1>3, <1>12 DEF Due
  <2>2. QED
    BY <1>1, <2>1
<1>13. CASE ask.for = "statusCount"
  <2>1. r \in Together({"pending", "staying", "left"})
    BY <1>3, <1>13 DEF Due
  <2>2. QED
    BY <1>1, <2>1
<1>14. CASE ask.for = "exportStaff"
  <2>1. r \in Names(<<"serviceStaff", "receptionists">>)
    BY <1>3, <1>14 DEF Due, ExportStaff
  <2>2. QED
    BY <1>2, <2>1
<1>15. CASE ask.for = "exportServices"
  <2>1. r \in Names(<<"services", "serviceTypes">>)
    BY <1>3, <1>15 DEF Due, ExportServices
  <2>2. QED
    BY <1>2, <2>1
<1>16. CASE ask.for = "exportBookings"
  <2>1. r \in ExportBookings
    BY <1>3, <1>16 DEF Due
  <2>2. CASE r = <<"bookings", 0>>
    BY <2>2
  <2>3. CASE r # <<"bookings", 0>>
    <3>1. PICK b : r \in InTurn(<< {<<"customer", b>>}, {<<"roomOf", b>>}, {<<"typeOf", b>>} >>)
      BY <2>1, <2>3 DEF ExportBookings
    <3>2. r \in {<<"customer", b>>, <<"roomOf", b>>, <<"typeOf", b>>}
      BY <3>1, InTurnFacts
    <3>3. QED
      BY <3>2
  <2>4. QED
    BY <2>2, <2>3
<1>17. CASE ask.for = "detail"
  <2>1. r \in Detail
    BY <1>3, <1>17 DEF Due
  <2>2. \/ r \in Names(<<"room", "type", "ratings">>) \/ r \in Names(<<"stays">>)
        \/ \E i : r = <<"rater", i>>
    BY <2>1 DEF Detail
  <2>3. QED
    BY <1>2, <2>2
<1>18. QED
  BY <1>4, <1>5, <1>6, <1>7, <1>8, <1>9, <1>10, <1>11, <1>12, <1>13, <1>14, <1>15, <1>16, <1>17

-----------------------------------------------------------------------------
(* What the reads of a page find. *)

UsedIn(base) == {base[i].promotion : i \in {j \in Of(base, "use") : base[j].user = ask.owner}}
\* Lists of which all reads go by the query alone.
Plain == ask.of \notin {"offers", "servicesOfRoomType"}
Rows(base) == Listed(base, 1)
PageOf(base, p) == PageAt(Sorted(Rows(base)), p)

\* What the reads of a page answer.
LEMMA ListValues ==
  ASSUME NEW p
  PROVE  /\ Value(<<"used", p>>) = UsedIn(db)
         /\ Value(<<"offered", p>>) = Listed(db, p)
         /\ Value(<<"count", p>>) = Cardinality(Listed(db, p))
         /\ Value(<<"page", p>>) = PageAt(Sorted(Listed(db, p)), p)
<1>1. \A n : <<n, p>>[1] = n /\ <<n, p>>[2] = p
  OBVIOUS
<1>2. Value(<<"used", p>>) = UsedIn(db)
  BY <1>1 DEF Value, UsedIn
<1>3. Value(<<"offered", p>>) = Listed(db, p)
  BY <1>1 DEF Value
<1>4. Value(<<"count", p>>) = Cardinality(Listed(db, p))
  BY <1>1 DEF Value
<1>5. Value(<<"page", p>>) = PageAt(Sorted(Listed(db, p)), p)
  BY <1>1 DEF Value
<1>6. QED
  BY <1>2, <1>3, <1>4, <1>5

\* Only what is there is listed.
LEMMA ListedAreThere ==
  ASSUME NEW base, NEW p
  PROVE  Listed(base, p) \subseteq DOMAIN base
<1>1. \A kind : Of(base, kind) \subseteq DOMAIN base
  BY DEF Of
<1>2. /\ BookingsListed(base) \subseteq DOMAIN base
      /\ UsersListed(base) \subseteq DOMAIN base
      /\ \A kind : OfType(base, kind) \subseteq DOMAIN base
      /\ ServicesOfRoomType(base, p) \subseteq DOMAIN base
      /\ FoundRooms(base) \subseteq DOMAIN base
      /\ \A used : Offers(base, used) \subseteq DOMAIN base
  BY <1>1 DEF BookingsListed, UsersListed, OfType, ServicesOfRoomType, FoundRooms, Offers
<1>3. BookingsOfUser(base) \subseteq DOMAIN base
  BY <1>2 DEF BookingsOfUser
<1>4. QED
  BY <1>1, <1>2, <1>3 DEF Listed

\* At every moment a list is a finite set of numbers.
LEMMA ListedIsFinite ==
  ASSUME HistoryInv, NEW k \in DOMAIN past, NEW p
  PROVE  /\ Listed(past[k], p) \in SUBSET Nat
         /\ IsFiniteSet(Listed(past[k], p))
         /\ Cardinality(Listed(past[k], p)) \in Nat
<1>1. IsFiniteSet(DOMAIN past[k]) /\ DOMAIN past[k] \subseteq Nat
  <2>1. \A i \in DOMAIN past[k] : IsVersion(scene, i, past[k][i])
    BY DEF HistoryInv, Sound
  <2>2. scene \in Scenarios /\ IsFiniteSet(DOMAIN past[k])
    BY DEF HistoryInv, HistoryType, Sound
  <2>3. QED
    BY <2>1, <2>2, VersionFacts
<1>2. QED
  BY <1>1, ListedAreThere, FS_Subset, FS_CardinalityType

\* A plain list is the same for every page.
LEMMA PlainRows ==
  ASSUME Plain, NEW base, NEW p
  PROVE  Listed(base, p) = Rows(base)
BY DEF Plain, Rows, Listed

\* A query asks for the same, whatever else happens.
LEMMA QueryStays ==
  ASSUME ask' = ask, NEW base, NEW p
  PROVE  /\ Plain => Rows(base)' = Rows(base)
         /\ UsedIn(base)' = UsedIn(base)
         /\ Plain => PageOf(base, p)' = PageOf(base, p)
<1>1. UsedIn(base)' = UsedIn(base)
  BY DEF UsedIn
<1>2. ASSUME Plain PROVE Rows(base)' = Rows(base)
  <2>1. /\ BookingsListed(base)' = BookingsListed(base)
        /\ UsersListed(base)' = UsersListed(base)
        /\ \A kind : OfType(base, kind)' = OfType(base, kind)
        /\ FoundRooms(base)' = FoundRooms(base)
    BY DEF BookingsListed, UsersListed, OfType, FoundRooms
  <2>2. BookingsOfUser(base)' = BookingsOfUser(base)
    BY <2>1 DEF BookingsOfUser
  <2>3. QED
    BY <1>2, <2>1, <2>2 DEF Plain, Rows, Listed
<1>3. \A i, j : Before(i, j)' = Before(i, j)
  BY DEF Before
<1>4. \A i, ids : Rank(i, ids)' = Rank(i, ids)
  BY <1>3 DEF Rank
<1>5. \A ids : Sorted(ids)' = Sorted(ids)
  BY <1>4 DEF Sorted
<1>6. \A all : PageAt(all, p)' = PageAt(all, p)
  BY DEF PageAt, Sliced
<1>7. ASSUME Plain PROVE PageOf(base, p)' = PageOf(base, p)
  BY <1>2, <1>5, <1>6, <1>7 DEF PageOf
<1>8. QED
  BY <1>1, <1>2, <1>7

\* A page shows the rows whose ranks lie between its ends, each once.
LEMMA PageFacts ==
  ASSUME NEW ids \in SUBSET Nat, IsFiniteSet(ids), NEW p \in Nat \ {0}, ask.limit \in Nat \ {0}
  PROVE  /\ Range(PageAt(Sorted(ids), p)) \subseteq ids
         /\ IsInjective(PageAt(Sorted(ids), p))
         /\ ~Sliced => /\ Len(PageAt(Sorted(ids), p)) <= ask.limit
                       /\ \A i \in ids : i \in Range(PageAt(Sorted(ids), p)) <=>
                            (p - 1) * ask.limit <= Rank(i, ids) /\ Rank(i, ids) < (p - 1) * ask.limit + ask.limit
<1> DEFINE Lim == ask.limit
           Skip == (p - 1) * Lim
           End == IF Sliced THEN 10 * Skip + Lim ELSE Skip + Lim
<1>1. Lim \in Nat \ {0} /\ Skip \in Nat
  <2>1. p - 1 \in Nat /\ Lim \in Nat
    OBVIOUS
  <2>2. \A a, b \in Nat : a * b \in Nat
    OBVIOUS
  <2>3. QED
    BY <2>1, <2>2
<1>2. PageAt(Sorted(ids), p) = Window(Sorted(ids), Skip, End)
  BY DEF PageAt
<1> HIDE DEF Skip, Lim
<1>3. End \in Nat /\ Skip <= End /\ (~Sliced => End - Skip = Lim /\ End = Skip + Lim)
  BY <1>1
<1> HIDE DEF End
<1>4. PICK lim, skip, end, s, w : lim = Lim /\ skip = Skip /\ end = End /\ s = Sorted(ids) /\ w = PageAt(Sorted(ids), p)
  OBVIOUS
<1>5. /\ lim \in Nat \ {0} /\ skip \in Nat /\ end \in Nat /\ skip <= end
      /\ ~Sliced => end - skip = lim /\ end = skip + lim
      /\ w = Window(s, skip, end)
  BY <1>1, <1>2, <1>3, <1>4
<1>6. /\ Cardinality(ids) \in Nat /\ Len(s) = Cardinality(ids) /\ s \in Seq(ids)
      /\ \A k \in 1 .. Cardinality(ids) : s[k] \in ids /\ Rank(s[k], ids) = k - 1
  BY <1>4, SortedFacts
<1>7. /\ Len(w) <= end - skip
      /\ \A k \in DOMAIN w : k \in Nat \ {0} /\ skip + k <= end /\ skip + k <= Len(s) /\ w[k] = s[skip + k]
      /\ \A m \in Nat : skip < m /\ m <= end /\ m <= Len(s) => \E k \in DOMAIN w : w[k] = s[m]
  <2>1. s \in Seq(ids) /\ skip \in Nat /\ end \in Nat /\ skip <= end /\ w = Window(s, skip, end)
    BY <1>5, <1>6
  <2>2. IsWindow(w, s, skip, end)
    BY <2>1, WindowFacts
  <2>3. QED
    BY <2>2 DEF IsWindow
<1>8. \A k \in DOMAIN w : w[k] \in ids /\ Rank(w[k], ids) = skip + k - 1
  <2> SUFFICES ASSUME NEW k \in DOMAIN w PROVE w[k] \in ids /\ Rank(w[k], ids) = skip + k - 1
    OBVIOUS
  <2>1. skip + k \in 1 .. Cardinality(ids) /\ w[k] = s[skip + k]
    BY <1>5, <1>6, <1>7
  <2>2. s[skip + k] \in ids /\ Rank(s[skip + k], ids) = (skip + k) - 1
    BY <1>6, <2>1
  <2>3. k \in Nat /\ skip \in Nat
    BY <1>5, <1>7
  <2>4. QED
    BY <2>1, <2>2, <2>3
<1>9. Range(w) \subseteq ids
  BY <1>8 DEF Range
<1>10. IsInjective(w)
  <2> SUFFICES ASSUME NEW a \in DOMAIN w, NEW b \in DOMAIN w, w[a] = w[b] PROVE a = b
    BY DEF IsInjective
  <2>1. a \in Nat /\ b \in Nat /\ skip + a - 1 = skip + b - 1
    BY <1>7, <1>8
  <2>2. QED
    BY <1>5, <2>1
<1>11. ASSUME ~Sliced, NEW i \in ids
      PROVE  i \in Range(w) <=> skip <= Rank(i, ids) /\ Rank(i, ids) < skip + lim
  <2>1. Rank(i, ids) \in Nat /\ Rank(i, ids) < Cardinality(ids)
    BY RankFacts
  <2>2. ASSUME i \in Range(w) PROVE skip <= Rank(i, ids) /\ Rank(i, ids) < skip + lim
    <3>1. PICK k \in DOMAIN w : w[k] = i
      BY <2>2 DEF Range
    <3>2. k \in Nat \ {0} /\ skip + k <= end /\ Rank(i, ids) = skip + k - 1
      BY <1>7, <1>8, <3>1
    <3>3. QED
      BY <1>5, <1>11, <3>2
  <2>3. ASSUME skip <= Rank(i, ids), Rank(i, ids) < skip + lim PROVE i \in Range(w)
    <3>1. PICK m : m = Rank(i, ids) + 1
      OBVIOUS
    <3>2. m \in Nat /\ skip < m /\ m <= end /\ m <= Len(s) /\ m \in 1 .. Cardinality(ids)
      BY <1>5, <1>6, <1>11, <2>1, <2>3, <3>1
    <3>3. \E k \in DOMAIN w : w[k] = s[m]
      BY <1>7, <3>2
    <3>4. s[m] \in ids /\ Rank(s[m], ids) = m - 1
      BY <1>6, <3>2
    <3>5. Rank(s[m], ids) = Rank(i, ids)
      BY <2>1, <3>1, <3>4
    <3>6. s[m] = i
      BY <3>4, <3>5, RankFacts
    <3>7. QED
      BY <3>3, <3>6 DEF Range
  <2>4. QED
    BY <2>2, <2>3
<1>12. ~Sliced => Len(w) <= lim
  BY <1>5, <1>7
<1>13. QED
  BY <1>4, <1>9, <1>10, <1>11, <1>12 DEF Skip, Lim

-----------------------------------------------------------------------------
(* The pages turned. *)

Begun == {r[2] : r \in Read}
PageNumbers ==
  \A r \in Read : /\ r = <<r[1], r[2]>> /\ r[1] \in ListNames /\ r[2] \in Nat \ {0}
                  /\ r[1] \in {"used", "offered"} <=> Sliced
\* A page is begun when the one before it is complete and names it.
InOrder ==
  /\ Begun # {} => 1 \in Begun
  /\ \A q, p \in Begun : q < p =>
       Complete(q) /\ HasNext(q) /\ NextPage(q) \in Begun /\ NextPage(q) <= p

\* The page named next comes later, even with 1 put behind its number.
LEMMA NextIsLater ==
  ASSUME NEW p \in Nat \ {0}
  PROVE  NextPage(p) \in Nat \ {0} /\ NextPage(p) > p
BY DEF NextPage

\* So a page that is not complete is the last.
LEMMA LastAsked ==
  ASSUME PageNumbers, InOrder, NEW p \in Asked, ~Complete(p)
  PROVE  /\ p \in Nat \ {0} /\ 1 \in Begun \cup {p}
         /\ \A q \in Begun : q <= p
         /\ \A q \in Begun : q < p =>
              Complete(q) /\ HasNext(q) /\ NextPage(q) \in Begun \cup {p} /\ NextPage(q) <= p
<1>1. Begun \subseteq Nat \ {0}
  BY DEF PageNumbers, Begun
<1>2. CASE p = 1
  <2>1. \A q \in Begun : q <= 1
    <3> SUFFICES ASSUME NEW q \in Begun, ~(q <= 1) PROVE FALSE
      OBVIOUS
    <3>1. 1 \in Begun /\ 1 < q
      BY <1>1 DEF InOrder
    <3>2. Complete(1)
      BY <3>1 DEF InOrder
    <3>3. QED
      BY <1>2, <3>2
  <2>2. \A q \in Begun : ~(q < 1)
    BY <1>1
  <2>3. QED
    BY <1>2, <2>1, <2>2
<1>3. CASE p # 1
  <2>1. PICK q0 \in Begun : Complete(q0) /\ HasNext(q0) /\ p = NextPage(q0)
    BY <1>3 DEF Asked, Begun
  <2>2. q0 \in Nat \ {0} /\ p \in Nat \ {0} /\ p > q0
    BY <1>1, <2>1, NextIsLater
  <2>3. ASSUME NEW q \in Begun PROVE q <= p
    <3> SUFFICES ASSUME ~(q <= p) PROVE FALSE
      OBVIOUS
    <3>1. q \in Nat /\ q0 < q /\ p < q
      BY <1>1, <2>2
    <3>2. p \in Begun
      BY <2>1, <3>1 DEF InOrder
    <3>3. Complete(p)
      BY <3>1, <3>2 DEF InOrder
    <3>4. QED
      BY <3>3
  <2>4. ASSUME NEW q \in Begun, q < p
        PROVE  Complete(q) /\ HasNext(q) /\ NextPage(q) \in Begun \cup {p} /\ NextPage(q) <= p
    <3>1. CASE q = q0
      BY <2>1, <2>2, <3>1
    <3>2. CASE q < q0
      <4>1. Complete(q) /\ HasNext(q) /\ NextPage(q) \in Begun /\ NextPage(q) <= q0
        BY <3>2 DEF InOrder
      <4>2. NextPage(q) \in Nat
        BY <1>1, <4>1
      <4>3. QED
        BY <2>2, <4>1, <4>2
    <3>3. CASE q0 < q
      <4>1. p \in Begun /\ p <= q
        BY <2>1, <3>3 DEF InOrder
      <4>2. QED
        BY <1>1, <2>2, <2>4, <4>1
    <3>4. QED
      BY <1>1, <2>2, <3>1, <3>2, <3>3
  <2>5. 1 \in Begun
    BY <2>1 DEF InOrder
  <2>6. QED
    BY <2>2, <2>3, <2>4, <2>5
<1>4. QED
  BY <1>2, <1>3

\* Pages are read in order.
LEMMA PagesStep ==
  ASSUME PageNumbers, InOrder, ask.for = "list", ask' = ask,
         \/ got' = got
         \/ \E r \in Due : Answer(r)
  PROVE  PageNumbers' /\ InOrder'
<1>1. CASE got' = got
  <2>1. Read' = Read
    BY <1>1 DEF Read
  <2>2. \A p : /\ Stages(p)' = Stages(p) /\ Count(p)' = Count(p) /\ NextPage(p)' = NextPage(p)
    BY <1>1 DEF Stages, Count, NextPage, Sliced
  <2>3. \A p : Complete(p)' = Complete(p)
    BY <2>1, <2>2 DEF Complete
  <2>4. \A p : HasNext(p)' = HasNext(p)
    BY <2>2 DEF HasNext, Pages
  <2>5. Sliced' = Sliced
    BY DEF Sliced
  <2>6. QED
    BY <2>1, <2>2, <2>3, <2>4, <2>5 DEF PageNumbers, InOrder, Begun
<1>2. ASSUME NEW r \in Due, Answer(r) PROVE PageNumbers' /\ InOrder'
  <2>1. PICK p \in Asked : r \in InTurn(Stages(p))
    BY DueOfList
  <2>2. /\ r \notin Read /\ r[1] \in ListNames /\ r = <<r[1], p>>
        /\ r[1] \in {"used", "offered"} <=> Sliced
    BY <2>1, PageReads
  <2>3. ~Complete(p)
    BY <2>1, InTurnFacts DEF Complete
  <2>4. /\ p \in Nat \ {0} /\ 1 \in Begun \cup {p}
        /\ \A q \in Begun : q <= p
        /\ \A q \in Begun : q < p =>
              Complete(q) /\ HasNext(q) /\ NextPage(q) \in Begun \cup {p} /\ NextPage(q) <= p
    BY <2>3, LastAsked
  <2>5. got' = [q \in Read \cup {r} |-> IF q = r THEN Value(r) ELSE got[q]]
    BY <1>2 DEF Answer
  <2>6. Read' = Read \cup {r} /\ \A q \in Read : got'[q] = got[q]
    BY <2>2, <2>5 DEF Read
  <2>7. r[2] = p
    BY <2>2
  <2>8. Begun' = Begun \cup {p}
    BY <2>6, <2>7 DEF Begun
  <2>9. \A q : Stages(q)' = Stages(q) /\ NextPage(q)' = NextPage(q) /\ Sliced' = Sliced
    BY DEF Stages, NextPage, Sliced
  <2>10. \A q : Complete(q) => Complete(q)'
    BY <2>6, <2>9 DEF Complete
  <2>11. ASSUME NEW q, Complete(q) PROVE HasNext(q)' = HasNext(q)
    <3>1. Count(q)' = Count(q)
      <4>1. CASE Sliced
        <5>1. <<"offered", q>> \in Read
          BY <2>11, <4>1, CompleteFacts
        <5>2. QED
          BY <2>6, <2>9, <4>1, <5>1 DEF Count
      <4>2. CASE ~Sliced
        <5>1. <<"count", q>> \in Read
          BY <2>11, <4>2, CompleteFacts
        <5>2. QED
          BY <2>6, <2>9, <4>2, <5>1 DEF Count
      <4>3. QED
        BY <4>1, <4>2
    <3>2. QED
      BY <3>1 DEF HasNext, Pages
  <2>12. PageNumbers'
    <3>1. r = <<r[1], r[2]>> /\ r[1] \in ListNames /\ r[2] \in Nat \ {0}
      BY <2>2, <2>4, <2>7
    <3>2. r[1] \in {"used", "offered"} <=> Sliced'
      BY <2>2, <2>9
    <3>3. QED
      BY <2>6, <2>9, <3>1, <3>2 DEF PageNumbers
  <2>13. Begun \subseteq Nat \ {0}
    BY DEF PageNumbers, Begun
  <2>14. ASSUME NEW a \in Begun', NEW b \in Begun', a < b
         PROVE  Complete(a)' /\ HasNext(a)' /\ NextPage(a)' \in Begun' /\ NextPage(a)' <= b
    <3>1. a # p
      BY <2>4, <2>8, <2>13, <2>14
    <3>2. a \in Begun
      BY <2>8, <2>14, <3>1
    <3>3. /\ Complete(a) /\ HasNext(a) /\ NextPage(a) \in Begun' /\ NextPage(a) <= b
      <4>1. CASE b = p
        BY <2>4, <2>8, <2>14, <3>2, <4>1
      <4>2. CASE b # p
        BY <2>8, <2>14, <3>2, <4>2 DEF InOrder
      <4>3. QED
        BY <4>1, <4>2
    <3>4. QED
      BY <2>9, <2>10, <2>11, <3>3
  <2>15. 1 \in Begun'
    BY <2>4, <2>8
  <2>16. InOrder'
    BY <2>14, <2>15 DEF InOrder
  <2>17. QED
    BY <2>12, <2>16
<1>3. QED
  BY <1>1, <1>2

-----------------------------------------------------------------------------
(* What has been read, and when it was so. *)

\* Promotion i was in stock when the user had not used it, or later, its stock having gone up.
WasOffered(i) ==
  \E j, k \in DOMAIN past :
    j <= k /\ Unused(past[j], i) /\ InStock(past[k], i) /\ (j = k \/ Raised(i))
OffersSeen ==
  /\ \A p : <<"used", p>> \in Read => \E k \in DOMAIN past : got[<<"used", p>>] = UsedIn(past[k])
  /\ \A p : <<"offered", p>> \in Read =>
       /\ IsFiniteSet(got[<<"offered", p>>]) /\ got[<<"offered", p>>] \subseteq Nat
       /\ \A i \in got[<<"offered", p>>] : WasOffered(i)

\* The count and the rows of a page are of two moments, those of later pages of
\* later ones.
CountOf(k, p) == got[<<"count", p>>] = Cardinality(Rows(past[k]))
PageAsOf(k, p) == got[<<"page", p>>] = PageOf(past[k], p)
PagesSeen ==
  /\ \A p : <<"count", p>> \in Read => \E k \in DOMAIN past : CountOf(k, p)
  /\ \A p : <<"page", p>> \in Read => \E k \in DOMAIN past : PageAsOf(k, p)
  /\ \A q, p : <<"page", q>> \in Read /\ <<"page", p>> \in Read /\ q < p =>
       \E k, m \in DOMAIN past : k <= m /\ PageAsOf(k, q) /\ PageAsOf(m, p)

PagesAreShort == \A r \in Read : r[1] = "page" => IsInjective(got[r]) /\ Len(got[r]) <= ask.limit
ListInv ==
  /\ PageNumbers /\ InOrder
  /\ Sliced => OffersSeen
  /\ Plain => PagesSeen
ReadsInv ==
  /\ HistoryInv
  /\ ask.for = "list" => ListInv
  /\ PagesAreShort

\* What is in stock and was unused a moment ago was offered rightly: if it is
\* older than that moment it was in stock then, or has been raised since; if it
\* is not, nobody had used it when it came.
LEMMA StockAndUse ==
  ASSUME HistoryInv, NEW k \in DOMAIN past, NEW i \in Offers(db, UsedIn(past[k]))
  PROVE  WasOffered(i)
<1>1. /\ i \in DOMAIN db /\ db[i].kind = "promotion" /\ db[i].amount > 0
      /\ i \notin UsedIn(past[k])
  BY DEF Offers, Of
<1> DEFINE L == Len(past)
<1>2. /\ L \in Nat /\ DOMAIN past = 1 .. L /\ L \in DOMAIN past /\ db = past[L] /\ i \in Nat
      /\ scene \in Scenarios /\ k \in Nat
  BY <1>1, Now DEF HistoryInv, HistoryType
<1> HIDE DEF L
\* A moment at which it was there and unused was one at which it was in stock, or it was
\* raised since.
<1>3. ASSUME NEW m \in DOMAIN past, i \in DOMAIN past[m], Unused(past[m], i)
      PROVE  WasOffered(i)
  <2>1. InStock(past[L], i) /\ m <= L /\ m \in Nat
    BY <1>1, <1>2 DEF InStock, Has
  <2>2. past[m][i].kind = "promotion" /\ past[m][i].amount \in Int /\ db[i].amount \in Int
    <3>1. IsVersion(scene, i, past[m][i]) /\ IsVersion(scene, i, db[i])
      BY <1>1, <1>2, <1>3 DEF HistoryInv, Sound
    <3>2. QED
      BY <1>1, <1>2, <3>1, VersionFacts
  <2>3. CASE past[m][i].amount > 0
    <3>1. InStock(past[m], i) /\ m <= m
      BY <1>3, <2>1, <2>2, <2>3 DEF InStock, Has
    <3>2. QED
      BY <1>3, <3>1 DEF WasOffered
  <2>4. CASE ~(past[m][i].amount > 0)
    <3>1. past[m][i].amount < past[L][i].amount
      BY <1>1, <1>2, <2>2, <2>4
    <3>2. m # L
      BY <1>1, <1>2, <2>4
    <3>3. m < L
      BY <1>2, <2>1, <3>2
    <3>4. Raised(i)
      BY <1>1, <1>2, <1>3, <2>2, <3>1, <3>3 DEF Raised, Has
    <3>5. QED
      BY <1>2, <1>3, <2>1, <3>4 DEF WasOffered
  <2>5. QED
    BY <2>3, <2>4
<1>4. CASE i \in DOMAIN past[k]
  <2>1. Unused(past[k], i)
    BY <1>1 DEF UsedIn, Unused
  <2>2. QED
    BY <1>3, <1>4, <2>1
<1>5. CASE i \notin DOMAIN past[k]
  <2> DEFINE T == {m \in Nat : m \in DOMAIN past /\ k < m /\ i \in DOMAIN past[m]}
  <2>1. L \in T
    <3>1. k # L
      BY <1>1, <1>2, <1>5
    <3>2. k < L
      BY <1>2, <3>1
    <3>3. QED
      BY <1>1, <1>2, <3>2
  <2>2. PICK m \in T : \A n \in T : m <= n
    <3>1. T \in SUBSET Nat
      OBVIOUS
    <3> HIDE DEF T
    <3>2. QED
      BY <2>1, <3>1, SmallestOf
  <2>3. m \in Nat /\ m \in DOMAIN past /\ k < m /\ i \in DOMAIN past[m]
    BY <2>2
  <2>4. m - 1 \in DOMAIN past /\ m > 1 /\ k <= m - 1 /\ m - 1 \in Nat /\ m - 1 < m
    BY <1>2, <2>3
  <2>5. i \notin DOMAIN past[m - 1]
    <3>1. CASE m - 1 = k
      BY <1>5, <3>1
    <3>2. CASE m - 1 # k
      <4>1. k < m - 1
        BY <1>2, <2>3, <2>4, <3>2
      <4>2. ~(m <= m - 1)
        BY <2>3
      <4>3. m - 1 \notin T
        BY <2>2, <4>2
      <4>4. QED
        BY <2>4, <4>1, <4>3
    <3>3. QED
      BY <3>1, <3>2
  <2> HIDE DEF T
  <2>6. i \in DOMAIN scene.creates /\ \A n \in 1 .. m - 1 : i \notin DOMAIN past[n]
    BY <2>3, <2>4, <2>5 DEF HistoryInv, Fresh
  <2>7. ASSUME NEW u \in Of(past[m], "use"), past[m][u].promotion = i PROVE FALSE
    <3>1. u \in DOMAIN past[m] /\ past[m][u].kind = "use"
      BY DEF Of
    <3>2. IsVersion(scene, u, past[m][u]) /\ IsVersion(scene, i, past[m][i]) /\ IsVersion(scene, i, db[i])
      BY <1>1, <1>2, <2>3, <3>1 DEF HistoryInv, Sound
    <3>3. CASE u \in DOMAIN past[m - 1]
      <4>1. IsVersion(scene, u, past[m - 1][u])
        BY <2>4, <3>3 DEF HistoryInv, Sound
      <4>2. past[m - 1][u].kind = "use" /\ past[m - 1][u].promotion = i
        BY <1>2, <2>7, <3>1, <3>2, <4>1, VersionFacts
      <4>3. \E n \in 1 .. m - 1 : i \in DOMAIN past[n]
        BY <2>4, <2>6, <3>3, <4>2 DEF HistoryInv, UsesLater
      <4>4. QED
        BY <2>6, <4>3
    <3>4. CASE u \notin DOMAIN past[m - 1]
      <4>1. PICK x : ButFor(x, past[m - 1], past[m])
        BY <2>3, <2>4 DEF HistoryInv, OneAtATime
      <4>2. u = x /\ i = x
        BY <2>3, <2>5, <3>1, <3>4, <4>1 DEF ButFor
      <4>3. past[m][i].kind = "promotion"
        BY <1>1, <1>2, <3>2, VersionFacts
      <4>4. QED
        BY <3>1, <4>2, <4>3
    <3>5. QED
      BY <3>3, <3>4
  <2>8. Unused(past[m], i)
    BY <2>7 DEF Unused
  <2>9. QED
    BY <1>3, <2>3, <2>8
<1>6. QED
  BY <1>4, <1>5

\* What was so at some moment stays so.
LEMMA SeenStays ==
  ASSUME ask' = ask, \A k \in DOMAIN past : k \in DOMAIN past' /\ past'[k] = past[k]
  PROVE  \A i : WasOffered(i) => WasOffered(i)'
<1> SUFFICES ASSUME NEW i, WasOffered(i) PROVE WasOffered(i)'
  OBVIOUS
<1>1. PICK j, k \in DOMAIN past :
        j <= k /\ Unused(past[j], i) /\ InStock(past[k], i) /\ (j = k \/ Raised(i))
  BY DEF WasOffered
<1>2. j \in DOMAIN past' /\ past'[j] = past[j] /\ k \in DOMAIN past' /\ past'[k] = past[k]
  OBVIOUS
<1>4. Unused(past[j], i)' /\ InStock(past[k], i)'
  BY <1>1, <1>2 DEF Unused, InStock, Has, Of
<1>5. Raised(i) => Raised(i)'
  <2> SUFFICES ASSUME Raised(i) PROVE Raised(i)'
    OBVIOUS
  <2>1. PICK m, n \in DOMAIN past :
          /\ m < n /\ Has(past[m], i, "promotion") /\ Has(past[n], i, "promotion")
          /\ past[m][i].amount < past[n][i].amount
    BY DEF Raised
  <2>2. m \in DOMAIN past' /\ past'[m] = past[m] /\ n \in DOMAIN past' /\ past'[n] = past[n]
    OBVIOUS
  <2>3. QED
    BY <2>1, <2>2 DEF Raised, Has
<1>6. QED
  BY <1>1, <1>2, <1>4, <1>5 DEF WasOffered

\* What has been read of offers stays true.
LEMMA OffersStep ==
  ASSUME HistoryInv, ask.for = "list", Sliced, OffersSeen, [Next]_vars
  PROVE  OffersSeen'
<1>1. /\ ask' = ask /\ \/ got' = got
                       \/ past' = past /\ \E r \in Due : Answer(r)
  BY StepShape
<1>2. \A k \in DOMAIN past : k \in DOMAIN past' /\ past'[k] = past[k]
  BY HistoryStep
<1>3. \A i : WasOffered(i) => WasOffered(i)'
  BY <1>1, <1>2, SeenStays
<1>4. \A base : UsedIn(base)' = UsedIn(base)
  BY <1>1, QueryStays
<1>5. ASSUME NEW p, <<"used", p>> \in Read, got'[<<"used", p>>] = got[<<"used", p>>]
      PROVE  \E k \in DOMAIN past' : got'[<<"used", p>>] = UsedIn(past[k])'
  <2>1. PICK k \in DOMAIN past : got[<<"used", p>>] = UsedIn(past[k])
    BY <1>5 DEF OffersSeen
  <2>2. PICK base : base = past[k]
    OBVIOUS
  <2>3. UsedIn(base)' = UsedIn(base)
    BY <1>4
  <2>4. base = past'[k] /\ k \in DOMAIN past'
    BY <1>2, <2>2
  <2>5. QED
    BY <1>5, <2>1, <2>2, <2>3, <2>4
<1>6. ASSUME NEW p, <<"offered", p>> \in Read, got'[<<"offered", p>>] = got[<<"offered", p>>]
      PROVE  /\ IsFiniteSet(got'[<<"offered", p>>]) /\ got'[<<"offered", p>>] \subseteq Nat
             /\ \A i \in got'[<<"offered", p>>] : WasOffered(i)'
  BY <1>3, <1>6 DEF OffersSeen
<1>7. CASE got' = got
  <2>1. Read' = Read
    BY <1>7 DEF Read
  <2>2. QED
    BY <1>5, <1>6, <1>7, <2>1 DEF OffersSeen
<1>8. ASSUME past' = past, NEW r \in Due, Answer(r) PROVE OffersSeen'
  <2>1. PICK p \in Asked : r \in InTurn(Stages(p))
    BY DueOfList
  <2>2. r \notin Read /\ r = <<r[1], p>> /\ r[1] \in {"used", "offered"}
        /\ (r[1] = "offered" => <<"used", p>> \in Read)
    BY <2>1, PageReads
  <2>3. got' = [q \in Read \cup {r} |-> IF q = r THEN Value(r) ELSE got[q]]
    BY <1>8 DEF Answer
  <2>4. Read' = Read \cup {r} /\ got'[r] = Value(r) /\ \A q \in Read : got'[q] = got[q]
    BY <2>2, <2>3 DEF Read
  <2>5. /\ Len(past) \in DOMAIN past /\ db = past[Len(past)]
    BY Now
  <2>6. ASSUME r = <<"used", p>> PROVE \E k \in DOMAIN past' : got'[r] = UsedIn(past[k])'
    <3>1. got'[r] = UsedIn(past[Len(past)])
      BY <2>4, <2>5, <2>6, ListValues
    <3>2. PICK k, base : k = Len(past) /\ base = past[k]
      OBVIOUS
    <3>3. UsedIn(base)' = UsedIn(base)
      BY <1>4
    <3>4. base = past'[k] /\ k \in DOMAIN past'
      BY <1>2, <2>5, <3>2
    <3>5. QED
      BY <3>1, <3>2, <3>3, <3>4
  <2>7. ASSUME r = <<"offered", p>>
        PROVE  /\ IsFiniteSet(got'[r]) /\ got'[r] \subseteq Nat
               /\ \A i \in got'[r] : WasOffered(i)'
    <3>1. got'[r] = Listed(db, p)
      BY <2>4, <2>7, ListValues
    <3>2. IsFiniteSet(got'[r]) /\ got'[r] \subseteq Nat
      BY <2>5, <3>1, ListedIsFinite
    <3>3. <<"used", p>> \in Read
      BY <2>2, <2>7
    <3>4. PICK k \in DOMAIN past : got[<<"used", p>>] = UsedIn(past[k])
      BY <3>3 DEF OffersSeen
    <3>5. Listed(db, p) = Offers(db, UsedIn(past[k]))
      BY <3>4 DEF Listed, Sliced
    <3>6. \A i \in got'[r] : WasOffered(i)
      BY <3>1, <3>5, StockAndUse
    <3>7. QED
      BY <1>3, <3>2, <3>6
  <2>8. ASSUME NEW q, <<"used", q>> \in Read' PROVE \E k \in DOMAIN past' : got'[<<"used", q>>] = UsedIn(past[k])'
    <3>1. CASE <<"used", q>> \in Read
      BY <1>5, <2>4, <3>1
    <3>2. CASE <<"used", q>> = r
      <4>1. r = <<"used", p>>
        BY <2>2, <3>2
      <4>2. QED
        BY <2>6, <3>2, <4>1
    <3>3. QED
      BY <2>4, <2>8, <3>1, <3>2
  <2>9. ASSUME NEW q, <<"offered", q>> \in Read'
        PROVE  /\ IsFiniteSet(got'[<<"offered", q>>]) /\ got'[<<"offered", q>>] \subseteq Nat
               /\ \A i \in got'[<<"offered", q>>] : WasOffered(i)'
    <3>1. CASE <<"offered", q>> \in Read
      BY <1>6, <2>4, <3>1
    <3>2. CASE <<"offered", q>> = r
      <4>1. r = <<"offered", p>>
        BY <2>2, <3>2
      <4>2. QED
        BY <2>7, <3>2, <4>1
    <3>3. QED
      BY <2>4, <2>9, <3>1, <3>2
  <2>10. QED
    BY <2>8, <2>9 DEF OffersSeen
<1>9. QED
  BY <1>1, <1>7, <1>8

\* A count or a page that was right at a moment was so for good.
LEMMA SeenPagesStay ==
  ASSUME Plain, ask' = ask, \A k \in DOMAIN past : k \in DOMAIN past' /\ past'[k] = past[k],
         NEW k \in DOMAIN past, NEW p
  PROVE  /\ got'[<<"count", p>>] = got[<<"count", p>>] /\ CountOf(k, p) => CountOf(k, p)'
         /\ got'[<<"page", p>>] = got[<<"page", p>>] /\ PageAsOf(k, p) => PageAsOf(k, p)'
<1>1. PICK base : base = past[k]
  OBVIOUS
<1>2. base = past'[k] /\ Rows(base)' = Rows(base) /\ PageOf(base, p)' = PageOf(base, p)
  BY <1>1, QueryStays
<1>3. ASSUME got'[<<"count", p>>] = got[<<"count", p>>], CountOf(k, p) PROVE CountOf(k, p)'
  <2>1. got'[<<"count", p>>] = Cardinality(Rows(base))
    BY <1>1, <1>3 DEF CountOf
  <2>2. got'[<<"count", p>>] = Cardinality(Rows(base)')
    BY <1>2, <2>1
  <2>3. QED
    BY <1>2, <2>2 DEF CountOf
<1>4. ASSUME got'[<<"page", p>>] = got[<<"page", p>>], PageAsOf(k, p) PROVE PageAsOf(k, p)'
  <2>1. got'[<<"page", p>>] = PageOf(base, p)
    BY <1>1, <1>4 DEF PageAsOf
  <2>2. got'[<<"page", p>>] = PageOf(base, p)'
    BY <1>2, <2>1
  <2>3. QED
    BY <1>2, <2>2 DEF PageAsOf
<1>5. QED
  BY <1>3, <1>4

\* An answer of now.
LEMMA SeenNow ==
  ASSUME HistoryInv, Plain, ask' = ask, past' = past, NEW p
  PROVE  /\ Len(past) \in DOMAIN past'
         /\ got'[<<"count", p>>] = Value(<<"count", p>>) => CountOf(Len(past), p)'
         /\ got'[<<"page", p>>] = Value(<<"page", p>>) => PageAsOf(Len(past), p)'
<1>1. Len(past) \in DOMAIN past /\ db = past[Len(past)]
  BY Now
<1>2. PICK base : base = db
  OBVIOUS
<1>3. base = past'[Len(past)] /\ Rows(base)' = Rows(base) /\ PageOf(base, p)' = PageOf(base, p)
  BY <1>1, <1>2, QueryStays
<1>4. /\ Value(<<"count", p>>) = Cardinality(Rows(base))
      /\ Value(<<"page", p>>) = PageOf(base, p)
  BY <1>2, ListValues, PlainRows DEF PageOf
<1>5. Len(past') = Len(past)
  OBVIOUS
<1>6. PICK L : L = Len(past)
  OBVIOUS
<1>7. ASSUME got'[<<"count", p>>] = Value(<<"count", p>>) PROVE CountOf(L, p)'
  <2>1. got'[<<"count", p>>] = Cardinality(Rows(base)') /\ base = past'[L]
    BY <1>3, <1>4, <1>6, <1>7
  <2>2. QED
    BY <2>1 DEF CountOf
<1>8. ASSUME got'[<<"page", p>>] = Value(<<"page", p>>) PROVE PageAsOf(L, p)'
  <2>1. got'[<<"page", p>>] = PageOf(base, p)' /\ base = past'[L]
    BY <1>3, <1>4, <1>6, <1>8
  <2>2. QED
    BY <2>1 DEF PageAsOf
<1>9. QED
  BY <1>1, <1>5, <1>6, <1>7, <1>8

\* Counts and pages stay those of some moments, of later ones for later pages.
LEMMA PagesSeenStep ==
  ASSUME HistoryInv, ask.for = "list", Plain, PageNumbers, InOrder, PagesSeen, [Next]_vars
  PROVE  PagesSeen'
<1>1. /\ ask' = ask /\ \/ got' = got
                       \/ past' = past /\ \E r \in Due : Answer(r)
  BY StepShape
<1>2. \A k \in DOMAIN past : k \in DOMAIN past' /\ past'[k] = past[k]
  BY HistoryStep
<1>3. ASSUME NEW k \in DOMAIN past, NEW p
      PROVE  /\ got'[<<"count", p>>] = got[<<"count", p>>] /\ CountOf(k, p) => CountOf(k, p)'
             /\ got'[<<"page", p>>] = got[<<"page", p>>] /\ PageAsOf(k, p) => PageAsOf(k, p)'
  BY <1>1, <1>2, SeenPagesStay
<1>4. CASE got' = got
  <2>1. Read' = Read
    BY <1>4 DEF Read
  <2>2. ASSUME NEW p, <<"count", p>> \in Read PROVE \E k \in DOMAIN past' : CountOf(k, p)'
    BY <1>2, <1>3, <1>4, <2>2 DEF PagesSeen
  <2>3. ASSUME NEW p, <<"page", p>> \in Read PROVE \E k \in DOMAIN past' : PageAsOf(k, p)'
    BY <1>2, <1>3, <1>4, <2>3 DEF PagesSeen
  <2>4. ASSUME NEW q, NEW p, <<"page", q>> \in Read, <<"page", p>> \in Read, q < p
        PROVE  \E k, m \in DOMAIN past' : k <= m /\ PageAsOf(k, q)' /\ PageAsOf(m, p)'
    <3>1. PICK k, m \in DOMAIN past : k <= m /\ PageAsOf(k, q) /\ PageAsOf(m, p)
      BY <2>4 DEF PagesSeen
    <3>2. QED
      BY <1>2, <1>3, <1>4, <3>1
  <2>5. QED
    BY <2>1, <2>2, <2>3, <2>4 DEF PagesSeen
<1>5. ASSUME past' = past, NEW r \in Due, Answer(r) PROVE PagesSeen'
  <2>1. PICK p \in Asked : r \in InTurn(Stages(p))
    BY DueOfList
  <2>2. r \notin Read /\ r = <<r[1], p>>
    BY <2>1, PageReads
  <2>3. ~Complete(p)
    BY <2>1, InTurnFacts DEF Complete
  <2>4. p \in Nat /\ \A q \in Begun : q \in Nat /\ q <= p
    BY <2>3, LastAsked DEF PageNumbers, Begun
  <2>5. got' = [q \in Read \cup {r} |-> IF q = r THEN Value(r) ELSE got[q]]
    BY <1>5 DEF Answer
  <2>6. Read' = Read \cup {r} /\ got'[r] = Value(r) /\ \A q \in Read : got'[q] = got[q]
    BY <2>2, <2>5 DEF Read
  <2>7. \A n, q : <<n, q>> = r => q = p
    BY <2>2
  <2>8. \A n, q : <<n, q>> \in Read => q \in Begun
    BY DEF Begun
  <2>9. /\ Len(past) \in DOMAIN past' /\ \A k \in DOMAIN past' : k <= Len(past)
    BY <1>5, Now
  <2>10. /\ r = <<"count", p>> => CountOf(Len(past), p)'
         /\ r = <<"page", p>> => PageAsOf(Len(past), p)'
    BY <1>1, <1>5, <2>6, SeenNow
  <2>11. ASSUME NEW q, <<"count", q>> \in Read' PROVE \E k \in DOMAIN past' : CountOf(k, q)'
    <3>1. CASE <<"count", q>> \in Read
      BY <1>2, <1>3, <2>6, <3>1 DEF PagesSeen
    <3>2. CASE <<"count", q>> = r
      BY <2>7, <2>9, <2>10, <3>2
    <3>3. QED
      BY <2>6, <2>11, <3>1, <3>2
  <2>12. ASSUME NEW q, <<"page", q>> \in Read PROVE \E k \in DOMAIN past' : PageAsOf(k, q)'
    BY <1>2, <1>3, <2>6, <2>12 DEF PagesSeen
  <2>13. ASSUME NEW q, <<"page", q>> \in Read' PROVE \E k \in DOMAIN past' : PageAsOf(k, q)'
    <3>1. CASE <<"page", q>> \in Read
      BY <2>12, <3>1
    <3>2. CASE <<"page", q>> = r
      BY <2>7, <2>9, <2>10, <3>2
    <3>3. QED
      BY <2>6, <2>13, <3>1, <3>2
  <2>14. ASSUME NEW a, NEW b, <<"page", a>> \in Read', <<"page", b>> \in Read', a < b
         PROVE  \E k, m \in DOMAIN past' : k <= m /\ PageAsOf(k, a)' /\ PageAsOf(m, b)'
    <3>1. CASE <<"page", b>> = r
      <4>1. b = p /\ a # p
        BY <2>4, <2>7, <2>14, <3>1
      <4>2. <<"page", a>> \in Read
        BY <2>6, <2>7, <2>14, <4>1
      <4>3. PICK k \in DOMAIN past' : PageAsOf(k, a)'
        BY <2>12, <4>2
      <4>4. PageAsOf(Len(past), b)'
        BY <2>10, <3>1, <4>1
      <4>5. QED
        BY <2>9, <4>3, <4>4
    <3>2. CASE <<"page", b>> # r /\ <<"page", a>> = r
      <4>1. a = p /\ b \in Begun
        BY <2>6, <2>7, <2>8, <2>14, <3>2
      <4>2. QED
        BY <2>4, <2>14, <4>1
    <3>3. CASE <<"page", b>> # r /\ <<"page", a>> # r
      <4>1. <<"page", b>> \in Read /\ <<"page", a>> \in Read
        BY <2>6, <2>14, <3>3
      <4>2. PICK k, m \in DOMAIN past : k <= m /\ PageAsOf(k, a) /\ PageAsOf(m, b)
        BY <2>14, <4>1 DEF PagesSeen
      <4>3. QED
        BY <1>2, <1>3, <2>6, <4>1, <4>2
    <3>4. QED
      BY <3>1, <3>2, <3>3
  <2>15. QED
    BY <2>11, <2>13, <2>14 DEF PagesSeen
<1>6. QED
  BY <1>1, <1>4, <1>5

\* A page has no row twice and no more rows than the limit.
LEMMA ShortStep ==
  ASSUME ReadsInv, [Next]_vars
  PROVE  PagesAreShort'
<1>1. /\ ask' = ask /\ \/ got' = got
                       \/ past' = past /\ \E r \in Due : Answer(r)
  BY StepShape DEF ReadsInv
<1>2. CASE got' = got
  BY <1>1, <1>2 DEF ReadsInv, PagesAreShort, Read
<1>3. ASSUME NEW r \in Due, Answer(r) PROVE PagesAreShort'
  <2>1. got' = [q \in Read \cup {r} |-> IF q = r THEN Value(r) ELSE got[q]]
    BY <1>3 DEF Answer
  <2>2. Read' = Read \cup {r} /\ got'[r] = Value(r) /\ \A q \in Read : q # r => got'[q] = got[q]
    BY <2>1 DEF Read
  <2>3. /\ ask \in scene.asks /\ scene \in Scenarios
    BY DEF ReadsInv, HistoryInv, HistoryType
  <2>4. ASSUME r[1] = "page" PROVE IsInjective(Value(r)) /\ Len(Value(r)) <= ask.limit
    <3>1. ask.for = "list" /\ ask.limit \in Nat \ {0}
      <4>1. ask.for = "list"
        BY <2>3, <2>4, DueOfOthers, QueriesAssumption
      <4>2. QED
        BY <2>3, <4>1, QueriesAssumption
    <3>2. PICK p \in Asked : r \in InTurn(Stages(p))
      BY <3>1, DueOfList
    <3>3. r = <<"page", p>> /\ ~Sliced
      BY <2>4, <3>2, PageReads
    <3>4. ~Complete(p)
      BY <3>2, InTurnFacts DEF Complete
    <3>5. p \in Nat \ {0}
      BY <3>1, <3>4, LastAsked DEF ReadsInv, ListInv
    <3>6. Value(r) = PageAt(Sorted(Listed(db, p)), p)
      BY <3>3, ListValues
    <3>7. PICK ids : ids = Listed(db, p)
      OBVIOUS
    <3>8. ids \in SUBSET Nat /\ IsFiniteSet(ids)
      BY <3>7, Now, ListedIsFinite DEF ReadsInv
    <3>9. IsInjective(PageAt(Sorted(ids), p)) /\ Len(PageAt(Sorted(ids), p)) <= ask.limit
      BY ONLY <3>1, <3>3, <3>5, <3>8, PageFacts
    <3>10. QED
      BY <3>6, <3>7, <3>9
  <2>5. QED
    BY <1>1, <2>2, <2>4 DEF ReadsInv, PagesAreShort
<1>4. QED
  BY <1>1, <1>2, <1>3

\* Nothing has been read at the beginning.
LEMMA ReadsInit == Init => ReadsInv
<1> SUFFICES ASSUME Init PROVE ReadsInv
  OBVIOUS
<1>1. Read = {}
  BY DEF Init, Read
<1>2. ListInv /\ PagesAreShort
  BY <1>1 DEF ListInv, PageNumbers, InOrder, Begun, OffersSeen, PagesSeen, PagesAreShort
<1>3. QED
  BY <1>2, HistoryInit DEF ReadsInv

\* Every step keeps what is known of the reads.
LEMMA ReadsStep == ReadsInv /\ [Next]_vars => ReadsInv'
<1> SUFFICES ASSUME ReadsInv, [Next]_vars PROVE ReadsInv'
  OBVIOUS
<1>1. HistoryInv /\ HistoryInv' /\ PagesAreShort'
  BY HistoryStep, ShortStep DEF ReadsInv
<1>2. ask' = ask /\ (got' = got \/ \E r \in Due : Answer(r))
  BY <1>1, StepShape
<1>3. ASSUME ask.for = "list" PROVE ListInv'
  <2>1. ListInv
    BY <1>3 DEF ReadsInv
  <2>2. PageNumbers' /\ InOrder'
    BY <1>2, <1>3, <2>1, PagesStep DEF ListInv
  <2>3. Sliced' = Sliced /\ Plain' = Plain
    BY <1>2 DEF Sliced, Plain
  <2>4. Sliced => OffersSeen'
    BY <1>1, <1>3, <2>1, OffersStep DEF ListInv
  <2>5. Plain => PagesSeen'
    BY <1>1, <1>3, <2>1, PagesSeenStep DEF ListInv
  <2>6. QED
    BY <2>2, <2>3, <2>4, <2>5 DEF ListInv
<1>4. QED
  BY <1>1, <1>2, <1>3 DEF ReadsInv

\* What a query has read is what the database held at some moment of the query: of a
\* list, pages in order, each of a moment no earlier than the one before (skip and
\* limit of the findAll methods, in no transaction with their count).
THEOREM ReadsAreSound == Spec => []ReadsInv
BY ReadsInit, ReadsStep, PTL DEF Spec

-----------------------------------------------------------------------------
(* What is offered. *)

\* A page has room for a row, at least.
LEMMA LimitIsPositive ==
  ASSUME HistoryInv, ask.for = "list"
  PROVE  ask.limit \in Nat \ {0}
BY QueriesAssumption DEF HistoryInv, HistoryType

\* What is shown is on a page that has been read.
LEMMA ShownFacts ==
  ASSUME ReadsInv, ask.for = "list"
  PROVE  /\ ~Sliced => /\ \A p \in Turned : <<"page", p>> \in Read /\ p \in Nat \ {0}
                       /\ \A i \in Shown : \E p \in Turned : i \in Range(got[<<"page", p>>])
         /\ Sliced => \A i \in Shown : \E p : <<"offered", p>> \in Read /\ i \in got[<<"offered", p>>]
<1>1. PageNumbers /\ HistoryInv
  BY DEF ReadsInv, ListInv
<1>2. \A p \in Turned : \E r \in Read : r[1] \in {"page", "offered"} /\ r[2] = p
  BY DEF Turned
<1>3. \A p \in Turned : p \in Nat \ {0} /\ IF Sliced THEN <<"offered", p>> \in Read ELSE <<"page", p>> \in Read
  <2> SUFFICES ASSUME NEW p \in Turned
               PROVE  p \in Nat \ {0} /\ IF Sliced THEN <<"offered", p>> \in Read ELSE <<"page", p>> \in Read
    OBVIOUS
  <2>1. PICK r \in Read : r[1] \in {"page", "offered"} /\ r[2] = p
    BY <1>2
  <2>2. /\ r = <<r[1], p>> /\ p \in Nat \ {0}
        /\ r[1] \in {"used", "offered"} <=> Sliced
    BY <1>1, <2>1 DEF PageNumbers
  <2>3. r[1] = IF Sliced THEN "offered" ELSE "page"
    BY <2>1, <2>2
  <2>4. QED
    BY <2>2, <2>3
<1>4. \A i \in Shown : \E p \in Turned : i \in Range(Page(p))
  BY DEF Shown
<1>5. CASE ~Sliced
  BY <1>3, <1>4, <1>5 DEF Page
<1>6. ASSUME Sliced, NEW i \in Shown PROVE \E p : <<"offered", p>> \in Read /\ i \in got[<<"offered", p>>]
  <2>1. PICK p \in Turned : i \in Range(PageAt(Sorted(got[<<"offered", p>>]), p))
    BY <1>4, <1>6 DEF Page
  <2>2. <<"offered", p>> \in Read /\ p \in Nat \ {0}
    BY <1>3, <1>6
  <2>3. IsFiniteSet(got[<<"offered", p>>]) /\ got[<<"offered", p>>] \in SUBSET Nat
    BY <1>6, <2>2 DEF ReadsInv, ListInv, OffersSeen
  <2>4. Range(PageAt(Sorted(got[<<"offered", p>>]), p)) \subseteq got[<<"offered", p>>]
    <3>1. PICK ids : ids = got[<<"offered", p>>]
      OBVIOUS
    <3>2. Range(PageAt(Sorted(ids), p)) \subseteq ids
      BY <1>1, <2>2, <2>3, <3>1, LimitIsPositive, PageFacts
    <3>3. QED
      BY <3>1, <3>2
  <2>5. QED
    BY <2>1, <2>2, <2>4
<1>7. QED
  BY <1>5, <1>6

\* A page of a plain list shows rows of the list as it was at some moment.
LEMMA PageOfFacts ==
  ASSUME HistoryInv, ask.for = "list", Plain, NEW k \in DOMAIN past, NEW p \in Nat \ {0}
  PROVE  /\ Range(PageOf(past[k], p)) \subseteq Rows(past[k])
         /\ \A i \in Rows(past[k]) : i \in Range(PageOf(past[k], p)) <=>
              /\ (p - 1) * ask.limit <= Rank(i, Rows(past[k]))
              /\ Rank(i, Rows(past[k])) < (p - 1) * ask.limit + ask.limit
<1>1. ask.limit \in Nat \ {0}
  BY LimitIsPositive
<1>2. PICK ids : ids = Rows(past[k])
  OBVIOUS
<1>3. ids \in SUBSET Nat /\ IsFiniteSet(ids)
  BY <1>2, ListedIsFinite DEF Rows
<1>4. ~Sliced
  BY DEF Plain, Sliced
<1>5. /\ Range(PageAt(Sorted(ids), p)) \subseteq ids
      /\ \A i \in ids : i \in Range(PageAt(Sorted(ids), p)) <=>
           (p - 1) * ask.limit <= Rank(i, ids) /\ Rank(i, ids) < (p - 1) * ask.limit + ask.limit
  BY <1>1, <1>3, <1>4, PageFacts
<1>6. QED
  BY <1>2, <1>5 DEF PageOf

\* What has been read being so, what is offered was to be had.
LEMMA SoundOffers == ReadsInv => OffersAreReal
<1> SUFFICES ASSUME ReadsInv, ask.for = "list" PROVE OffersAreReal
  BY DEF OffersAreReal, OfferedRoomsCanBeBooked, OffersHold
<1>1. HistoryInv /\ ListInv
  BY DEF ReadsInv
<1>2. OfferedRoomsCanBeBooked
  <2> SUFFICES ASSUME ask.of = "found", NEW r \in Shown, None \notin {ask.checkin, ask.checkout}
               PROVE  \E k \in DOMAIN past :
                        \A s \in StaysIn(past[k], r) : ~InTheWay(s, ask.checkin, ask.checkout)
    BY DEF OfferedRoomsCanBeBooked
  <2>1. Plain /\ ~Sliced
    BY DEF Plain, Sliced
  <2>2. PICK p \in Turned : r \in Range(got[<<"page", p>>]) /\ <<"page", p>> \in Read /\ p \in Nat \ {0}
    BY <2>1, ShownFacts
  <2>3. PICK k \in DOMAIN past : got[<<"page", p>>] = PageOf(past[k], p)
    BY <1>1, <2>1, <2>2 DEF ListInv, PagesSeen, PageAsOf
  <2>4. r \in Rows(past[k])
    BY <1>1, <2>1, <2>2, <2>3, PageOfFacts
  <2>5. Rows(past[k]) = FoundRooms(past[k])
    BY DEF Rows, Listed
  <2>6. IsAvailable(StaysIn(past[k], r), ask.checkin, ask.checkout)
    BY <2>4, <2>5 DEF FoundRooms
  <2>7. \A s \in StaysIn(past[k], r) : ~InTheWay(s, ask.checkin, ask.checkout)
    BY <2>6 DEF IsAvailable, InTheWay
  <2>8. QED
    BY <2>7
<1>3. OffersHold
  <2> SUFFICES ASSUME ask.of = "offers", NEW i \in Shown PROVE WasOffered(i)
    BY DEF OffersHold, WasOffered
  <2>1. Sliced
    BY DEF Sliced
  <2>2. PICK p : <<"offered", p>> \in Read /\ i \in got[<<"offered", p>>]
    BY <2>1, ShownFacts
  <2>3. QED
    BY <1>1, <2>1, <2>2 DEF ListInv, OffersSeen
<1>4. QED
  BY <1>2, <1>3 DEF OffersAreReal

\* A room the search offers for two dates was free for them at some moment of the
\* search, by the test createBooking makes; a promotion a user is shown was in stock
\* while he had not used it, though what he used and what there is are read one after
\* the other, or later, its stock having gone up meanwhile.
THEOREM OffersStayReal == Spec => []OffersAreReal
BY ReadsAreSound, SoundOffers, PTL

-----------------------------------------------------------------------------
(* Free weeks. *)

\* The stays in a room are finitely many, and each ends after it begins.
LEMMA StaysAreStays ==
  ASSUME HistoryInv, NEW k \in DOMAIN past, NEW r
  PROVE  /\ AreStays(StaysIn(past[k], r)) /\ IsFiniteSet(StaysIn(past[k], r))
         /\ \A s \in StaysIn(past[k], r) : s.from < s.to
<1> DEFINE base == past[k]
           bs == {c \in Of(base, "booking") : base[c].room = r}
           f == [c \in bs |-> base[c]]
<1>1. \A c \in bs : base[c].from \in Nat /\ base[c].to \in Nat /\ base[c].from < base[c].to
  <2>1. scene \in Scenarios /\ \A c \in bs : IsVersion(scene, c, base[c]) /\ base[c].kind = "booking"
    BY DEF HistoryInv, HistoryType, Sound, Of
  <2>2. QED
    BY <2>1, VersionFacts
<1>2. IsFiniteSet(bs)
  <2>1. IsFiniteSet(DOMAIN base) /\ bs \in SUBSET DOMAIN base
    BY DEF HistoryInv, Sound, Of
  <2>2. QED
    BY <2>1, FS_Subset
<1>3. StaysIn(base, r) = {base[c] : c \in bs}
  BY DEF StaysIn
<1>4. f \in Surjection(bs, StaysIn(base, r))
  BY <1>3 DEF Surjection
<1>5. IsFiniteSet(StaysIn(base, r))
  <2> HIDE DEF bs, f
  <2>1. QED
    BY <1>2, <1>4, FS_Surjection
<1>6. QED
  BY <1>1, <1>3, <1>5 DEF AreStays, IsStay

\* What a customer is told, by calculateNextAvailableWeek on the page of a room or
\* by the search of rooms: the week is free, and both name the same, the first
\* that is, if guests come and go at the hours of the house.
LEMMA SoundWeeks == HistoryInv => WeekIsFree
<1> SUFFICES ASSUME HistoryInv, NEW r \in Of(db, "room")
             PROVE  LET stays == StaysIn(db, r)
                        day == NextWeekByDay(stays, Began)
                    IN /\ day >= Began /\ FreeWeek(stays, day)
                       /\ FreeWeek(stays, NextWeekBySort(stays, Began))
                       /\ (\A s \in stays : Proper(s)) =>
                            /\ NextWeekBySort(stays, Began) = day
                            /\ \A d \in Began .. day - 1 : ~FreeWeek(stays, d)
  BY DEF WeekIsFree
<1> DEFINE stays == StaysIn(db, r)
           day == NextWeekByDay(stays, Began)
           sorted == NextWeekBySort(stays, Began)
<1>1. AreStays(stays) /\ IsFiniteSet(stays) /\ \A s \in stays : s.from < s.to
  BY StaysAreStays, Now
<1>2. Began \in Nat
  BY QueriesAssumption DEF HistoryInv, HistoryType, Began
<1> HIDE DEF stays
<1>3. PICK last \in Nat : \A s \in stays : s.from <= last /\ s.to <= last
  BY <1>1, StaysEnd
<1>4. /\ day \in Nat /\ day >= Began /\ FreeWeek(stays, day)
      /\ (\A s \in stays : Proper(s)) => \A d \in Began .. day - 1 : ~FreeWeek(stays, d)
  BY <1>1, <1>2, <1>3, SearchFindsFirstWeek, NextWeekIsFreeAndFirst
<1>5. /\ sorted \in Nat /\ sorted >= Began /\ FreeWeek(stays, sorted)
      /\ (\A s \in stays : Proper(s)) => \A d \in Began .. sorted - 1 : ~FreeWeek(stays, d)
  BY <1>1, <1>2, SortFindsFirstWeek
<1> HIDE DEF day, sorted
<1>6. ASSUME \A s \in stays : Proper(s) PROVE sorted = day
  <2>1. CASE sorted < day
    <3>1. sorted \in Began .. day - 1
      BY <1>2, <1>4, <1>5, <2>1
    <3>2. QED
      BY <1>4, <1>5, <1>6, <3>1
  <2>2. CASE day < sorted
    <3>1. day \in Began .. sorted - 1
      BY <1>2, <1>4, <1>5, <2>2
    <3>2. QED
      BY <1>4, <1>5, <1>6, <3>1
  <2>3. QED
    BY <1>4, <1>5, <2>1, <2>2
<1>7. QED
  BY <1>4, <1>5, <1>6 DEF stays, day, sorted

\* The week a customer is told of is free, for any bookings, by either search; both
\* searches (room.service.ts:37 and :586) find the same first free week if guests
\* come and go at the hours of the house.
THEOREM WeeksAreFree == Spec => []WeekIsFree
BY HistoryIsSound, SoundWeeks, PTL
-----------------------------------------------------------------------------
(* The pages of a list. *)

\* In a list that is joined at its end only, who is before somebody was so already.
LEMMA NobodyPushesIn ==
  ASSUME HistoryInv, Steady, NEW k \in DOMAIN past, NEW m \in DOMAIN past, k <= m,
         NEW i \in Rows(past[k]), NEW j \in Rows(past[m]), Before(j, i)
  PROVE  j \in Rows(past[k])
<1> SUFFICES ASSUME j \notin Rows(past[k]) PROVE FALSE
  OBVIOUS
<1> DEFINE T == {n \in Nat : n \in DOMAIN past /\ k < n /\ j \in Rows(past[n])}
<1>1. DOMAIN past = 1 .. Len(past) /\ Len(past) \in Nat
  BY Now
<1>2. m \in T
  <2>1. k # m
    OBVIOUS
  <2>2. k < m /\ m \in Nat
    BY <1>1, <2>1
  <2>3. QED
    BY <2>2
<1>3. PICK n \in T : \A a \in T : n <= a
  <2>1. T \in SUBSET Nat
    OBVIOUS
  <2> HIDE DEF T
  <2>2. QED
    BY <1>2, <2>1, SmallestOf
<1>4. /\ n \in DOMAIN past /\ n \in Nat /\ n > 1 /\ n - 1 \in DOMAIN past /\ n - 1 \in Nat
      /\ k \in 1 .. n - 1 /\ k <= n - 1 /\ j \in Rows(past[n])
  BY <1>1
<1>5. j \notin Rows(past[n - 1])
  <2>1. CASE n - 1 = k
    BY <2>1
  <2>2. CASE n - 1 # k
    <3>1. k < n - 1 /\ ~(n <= n - 1)
      BY <1>4, <2>2
    <3>2. n - 1 \notin T
      BY <1>3, <3>1
    <3>3. QED
      BY <1>4, <3>1, <3>2
  <2>3. QED
    BY <2>1, <2>2
<1>6. Before(i, j)
  BY <1>4, <1>5 DEF Steady, Rows
<1>7. i \in Nat /\ j \in Nat
  BY ListedIsFinite DEF Rows
<1>8. QED
  BY <1>6, <1>7, BeforeIsOrder

\* Who is listed has no more before him in a part of the list.
LEMMA FewerAhead ==
  ASSUME NEW ids, IsFiniteSet(ids), NEW some, NEW i, \A j \in some : Before(j, i) => j \in ids
  PROVE  Rank(i, some) <= Rank(i, ids)
<1> DEFINE a == {j \in some : Before(j, i)}
           b == {j \in ids : Before(j, i)}
<1>1. a \in SUBSET b /\ b \in SUBSET ids
  OBVIOUS
<1>2. Rank(i, some) = Cardinality(a) /\ Rank(i, ids) = Cardinality(b)
  BY DEF Rank
<1> HIDE DEF a, b
<1>3. QED
  BY <1>1, <1>2, FS_Subset

\* So nobody moves down such a list.
LEMMA NobodyMovesDown ==
  ASSUME HistoryInv, Steady, NEW k \in DOMAIN past, NEW m \in DOMAIN past, k <= m,
         NEW i \in Rows(past[k])
  PROVE  Rank(i, Rows(past[m])) <= Rank(i, Rows(past[k]))
<1>1. \A j \in Rows(past[m]) : Before(j, i) => j \in Rows(past[k])
  BY NobodyPushesIn
<1>2. PICK a, b : a = Rows(past[k]) /\ b = Rows(past[m])
  OBVIOUS
<1>3. IsFiniteSet(a)
  BY <1>2, ListedIsFinite DEF Rows
<1>4. QED
  BY <1>1, <1>2, <1>3, FewerAhead

\* Pages of a list that is joined at its end only do not overlap: nobody moves down it.
LEMMA SoundWalk == ReadsInv => WalkRepeatsNothing
<1> SUFFICES ASSUME ReadsInv, Walk, Steady, NEW p \in Turned, NEW q \in Turned, p # q
             PROVE  Range(Page(p)) \cap Range(Page(q)) = {}
  BY DEF WalkRepeatsNothing
<1>1. HistoryInv /\ ListInv /\ ask.for = "list" /\ Plain /\ ~Sliced
  BY DEF ReadsInv, Walk, Plain, Sliced
<1>2. \A a \in Turned : <<"page", a>> \in Read /\ a \in Nat \ {0} /\ Page(a) = got[<<"page", a>>]
  BY <1>1, ShownFacts DEF Page
<1>3. ask.limit \in Nat \ {0}
  BY <1>1, LimitIsPositive
<1>4. ASSUME NEW a \in Turned, NEW b \in Turned, a < b, NEW i \in Range(Page(a)), i \in Range(Page(b))
      PROVE  FALSE
  <2>1. PICK k, m \in DOMAIN past : k <= m /\ PageAsOf(k, a) /\ PageAsOf(m, b)
    BY <1>1, <1>2, <1>4 DEF ListInv, PagesSeen
  <2>2. i \in Range(PageOf(past[k], a)) /\ i \in Range(PageOf(past[m], b))
    BY <1>2, <1>4, <2>1 DEF PageAsOf
  <2>3. /\ i \in Rows(past[k]) /\ Rank(i, Rows(past[k])) < (a - 1) * ask.limit + ask.limit
        /\ i \in Rows(past[m]) /\ (b - 1) * ask.limit <= Rank(i, Rows(past[m]))
    BY <1>1, <1>2, <2>2, PageOfFacts
  <2>4. Rank(i, Rows(past[m])) <= Rank(i, Rows(past[k]))
    BY <1>1, <2>1, <2>3, NobodyMovesDown
  <2>5. Rank(i, Rows(past[m])) \in Nat /\ Rank(i, Rows(past[k])) \in Nat
    <3>1. \A n \in DOMAIN past : Rows(past[n]) \in SUBSET Nat /\ IsFiniteSet(Rows(past[n]))
      BY <1>1, ListedIsFinite DEF Rows
    <3>2. QED
      BY <2>3, <3>1, RankFacts
  <2>6. \A x, y, l \in Nat : x < y => (x - 1) * l + l <= (y - 1) * l
    <3> SUFFICES ASSUME NEW x \in Nat, NEW y \in Nat, NEW l \in Nat, x < y
                 PROVE  (x - 1) * l + l <= (y - 1) * l
      OBVIOUS
    <3>1. PICK d \in Nat : y = x + 1 + d
      <4>1. y - x - 1 \in Nat /\ y = x + 1 + (y - x - 1)
        OBVIOUS
      <4>2. QED
        BY <4>1
    <3>2. (y - 1) * l = (x - 1) * l + l + d * l /\ d * l \in Nat
      BY <3>1
    <3>3. (x - 1) * l \in Int
      OBVIOUS
    <3>4. QED
      BY <3>2, <3>3
  <2>7. PICK x, y : x = (a - 1) * ask.limit + ask.limit /\ y = (b - 1) * ask.limit
    OBVIOUS
  <2>8. x \in Int /\ y \in Int
    <3>1. \A c, l \in Nat : (c - 1) * l + l \in Int /\ (c - 1) * l \in Int
      OBVIOUS
    <3>2. a \in Nat /\ b \in Nat /\ ask.limit \in Nat
      BY <1>2, <1>3
    <3>3. QED
      BY <2>7, <3>1, <3>2
  <2>9. x <= y
    BY <1>2, <1>3, <1>4, <2>6, <2>7
  <2>10. QED
    BY <2>3, <2>4, <2>5, <2>7, <2>8, <2>9
<1>5. p < q \/ q < p
  <2>1. p \in Nat /\ q \in Nat /\ p # q
    BY ONLY <1>2, p \in Turned, q \in Turned, p # q
  <2>2. QED
    BY ONLY <2>1
<1>6. QED
  BY <1>4, <1>5

\* The page on which the row of a rank stands, and that pages go as far as that.
LEMMA PageOfRank ==
  ASSUME NEW limit \in Nat \ {0}, NEW rank \in Nat
  PROVE  LET p == rank \div limit + 1 IN
         /\ p \in Nat \ {0} /\ (p - 1) * limit <= rank /\ rank < (p - 1) * limit + limit
         /\ \A q \in Nat, count \in Nat :
              q < p /\ count > rank => q < (count + limit - 1) \div limit
<1> DEFINE p == rank \div limit + 1
           d == rank \div limit
<1>1. d \in Nat /\ d * limit <= rank /\ rank < d * limit + limit
  BY SMTT(60)
<1>2. p \in Nat \ {0} /\ p - 1 = d
  BY <1>1
<1> HIDE DEF d
<1>3. ASSUME NEW q \in Nat, NEW count \in Nat, q <= d, count > rank
      PROVE  q < (count + limit - 1) \div limit
  <2>1. q * limit <= d * limit /\ q * limit \in Nat /\ d * limit \in Nat
    <3>1. PICK e \in Nat : d = q + e
      <4>1. d - q \in Nat /\ d = q + (d - q)
        BY <1>1, <1>3
      <4>2. QED
        BY <4>1
    <3>2. d * limit = q * limit + e * limit /\ e * limit \in Nat /\ q * limit \in Nat
      BY <3>1
    <3>3. QED
      BY <3>2
  <2>2. (q + 1) * limit <= count + limit - 1
    <3>1. (q + 1) * limit = q * limit + limit
      OBVIOUS
    <3>2. QED
      BY <1>1, <1>3, <2>1, <3>1
  <2>3. PICK n \in Nat : n = count + limit - 1
    OBVIOUS
  <2>4. PICK c \in Nat : c = n \div limit /\ n < c * limit + limit
    BY <2>3, SMTT(60)
  <2>5. ~(c <= q)
    <3> SUFFICES ASSUME c <= q PROVE FALSE
      OBVIOUS
    <3>1. PICK e \in Nat : q = c + e
      <4>1. q - c \in Nat /\ q = c + (q - c)
        OBVIOUS
      <4>2. QED
        BY <4>1
    <3>2. (q + 1) * limit = c * limit + limit + e * limit /\ e * limit \in Nat /\ c * limit \in Nat
      BY <3>1
    <3>3. QED
      BY <2>2, <2>3, <2>4, <3>2
  <2>6. QED
    BY <2>3, <2>4, <2>5
<1>4. QED
  BY <1>1, <1>2, <1>3

\* Who stays in the list keeps his place: the page of his rank is asked for, and shows him.
LEMMA SoundCounter == ReadsInv => CounterMissesNothing
<1> SUFFICES ASSUME ReadsInv, Walk, Steady, ask.follows = FALSE,
                    \A k \in DOMAIN past : Listed(First, 1) \subseteq Listed(past[k], 1),
                    NEW i \in Listed(First, 1)
             PROVE  i \in Shown
  BY DEF CounterMissesNothing, WalkMissesNothing
<1>1. /\ HistoryInv /\ ListInv /\ ask.for = "list" /\ Plain /\ ~Sliced /\ Due = {} /\ ~Failed
  BY DEF ReadsInv, Walk, Plain, Sliced, Answered
<1>2. /\ 1 \in DOMAIN past /\ First = past[1] /\ i \in Rows(past[1])
      /\ \A k \in DOMAIN past : 1 <= k /\ i \in Rows(past[k])
  <2>1. DOMAIN past = 1 .. Len(past) /\ Len(past) \in DOMAIN past /\ Len(past) \in Nat
    BY <1>1, Now
  <2>2. First = past[1]
    BY DEF First
  <2>3. QED
    BY <2>1, <2>2 DEF Rows
<1>3. \A k \in DOMAIN past : Rows(past[k]) \in SUBSET Nat /\ IsFiniteSet(Rows(past[k]))
  BY <1>1, ListedIsFinite DEF Rows
\* The place of who stays in the list stays what it was.
<1>4. PICK rank : rank = Rank(i, Rows(past[1]))
  OBVIOUS
<1>5. /\ rank \in Nat
      /\ \A k \in DOMAIN past : Rank(i, Rows(past[k])) = rank /\ Cardinality(Rows(past[k])) > rank
                               /\ Cardinality(Rows(past[k])) \in Nat
  <2>1. ASSUME NEW k \in DOMAIN past
        PROVE  /\ Rank(i, Rows(past[k])) \in Nat /\ Cardinality(Rows(past[k])) \in Nat
               /\ Rank(i, Rows(past[k])) < Cardinality(Rows(past[k]))
    BY <1>2, <1>3, RankFacts, FS_CardinalityType
  <2>2. ASSUME NEW k \in DOMAIN past PROVE Rank(i, Rows(past[k])) <= Rank(i, Rows(past[1]))
    BY <1>1, <1>2, NobodyMovesDown
  <2>3. ASSUME NEW k \in DOMAIN past PROVE Rank(i, Rows(past[1])) <= Rank(i, Rows(past[k]))
    <3>1. PICK a, b : a = Rows(past[1]) /\ b = Rows(past[k])
      OBVIOUS
    <3>2. IsFiniteSet(b) /\ \A j \in a : j \in b
      BY <1>2, <1>3, <3>1 DEF Rows
    <3>3. Rank(i, a) <= Rank(i, b)
      BY <3>2, FewerAhead
    <3>4. QED
      BY <3>1, <3>3
  <2>4. ASSUME NEW k \in DOMAIN past
        PROVE  Rank(i, Rows(past[k])) = rank /\ Cardinality(Rows(past[k])) > rank
               /\ Cardinality(Rows(past[k])) \in Nat
    <3>1. Rank(i, Rows(past[k])) <= rank /\ rank <= Rank(i, Rows(past[k]))
      BY <1>4, <2>2, <2>3
    <3>2. rank \in Nat /\ Rank(i, Rows(past[k])) \in Nat
      BY <1>2, <1>4, <2>1
    <3>3. Rank(i, Rows(past[k])) = rank
      BY <3>1, <3>2
    <3>4. QED
      BY <2>1, <3>2, <3>3
  <2>5. rank \in Nat
    BY <1>2, <1>4, <2>1
  <2>6. QED
    BY <2>4, <2>5
<1>6. PICK limit \in Nat \ {0} : limit = ask.limit
  BY <1>1, LimitIsPositive
<1>7. PICK p \in Nat \ {0} :
        /\ (p - 1) * limit <= rank /\ rank < (p - 1) * limit + limit
        /\ \A q, count \in Nat : q < p /\ count > rank => q < (count + limit - 1) \div limit
  BY <1>5, <1>6, PageOfRank
\* Each page before his names the next.
<1>8. ASSUME NEW q \in Asked, q \in Nat, q < p PROVE q + 1 \in Asked
  <2>1. Complete(q)
    BY <1>1, DueOfList
  <2>2. <<"count", q>> \in Read
    BY <1>1, <2>1, CompleteFacts
  <2>3. PICK k \in DOMAIN past : got[<<"count", q>>] = Cardinality(Rows(past[k]))
    BY <1>1, <2>2 DEF ListInv, PagesSeen, CountOf
  <2>4. q < (Cardinality(Rows(past[k])) + limit - 1) \div limit
    BY <1>5, <1>7, <1>8
  <2>5. HasNext(q)
    BY <1>1, <1>6, <2>3, <2>4 DEF HasNext, Pages, Count
  <2>6. q \in {r[2] : r \in Read}
    <3>1. <<"count", q>>[2] = q
      OBVIOUS
    <3>2. QED
      BY <2>2, <3>1
  <2>7. NextPage(q) = q + 1
    BY DEF NextPage
  <2>8. QED
    BY <2>1, <2>5, <2>6, <2>7 DEF Asked
<1>9. p \in Asked
  <2> SUFFICES ASSUME p \notin Asked PROVE FALSE
    OBVIOUS
  <2> DEFINE T == {q \in Nat : q >= 1 /\ q \notin Asked}
  <2>1. p \in T
    OBVIOUS
  <2>2. PICK q \in T : \A a \in T : q <= a
    <3>1. T \in SUBSET Nat
      OBVIOUS
    <3> HIDE DEF T
    <3>2. QED
      BY <2>1, <3>1, SmallestOf
  <2>3. 1 \in Asked /\ q <= p
    BY <2>1, <2>2 DEF Asked
  <2>4. q - 1 \in Nat /\ q - 1 >= 1 /\ q - 1 < p /\ ~(q <= q - 1) /\ (q - 1) + 1 = q
    <3>1. q # 1
      BY <2>3
    <3>2. QED
      BY <2>3, <3>1
  <2>5. q - 1 \in Asked
    BY <2>2, <2>4
  <2>6. (q - 1) + 1 \in Asked
    BY <1>8, <2>4, <2>5
  <2>7. QED
    BY <2>4, <2>6
<1>10. <<"page", p>> \in Read
  <2>1. Complete(p)
    BY <1>1, <1>9, DueOfList
  <2>2. QED
    BY <1>1, <2>1, CompleteFacts
<1>11. PICK k \in DOMAIN past : got[<<"page", p>>] = PageOf(past[k], p)
  BY <1>1, <1>10 DEF ListInv, PagesSeen, PageAsOf
<1>12. i \in Range(PageOf(past[k], p))
  <2>1. i \in Rows(past[k]) /\ Rank(i, Rows(past[k])) = rank
    BY <1>2, <1>5
  <2>2. (p - 1) * ask.limit <= Rank(i, Rows(past[k])) /\ Rank(i, Rows(past[k])) < (p - 1) * ask.limit + ask.limit
    BY <1>6, <1>7, <2>1
  <2>3. QED
    BY <1>1, <2>1, <2>2, PageOfFacts
<1>13. QED
  <2>1. <<"page", p>>[1] = "page" /\ <<"page", p>>[2] = p
    OBVIOUS
  <2>2. p \in Turned
    BY <1>10, <2>1 DEF Turned
  <2>3. Page(p) = PageOf(past[k], p)
    BY <1>1, <1>11 DEF Page
  <2>4. QED
    BY <1>12, <2>2, <2>3 DEF Shown

\* The state is what it should be.
LEMMA SoundTypes == ReadsInv => TypeOK
<1> SUFFICES ASSUME ReadsInv PROVE TypeOK
  OBVIOUS
<1>1. HistoryInv
  BY DEF ReadsInv
<1>2. \A k \in DOMAIN past : IsFiniteSet(DOMAIN past[k]) /\ DOMAIN past[k] \subseteq Nat
  <2>1. scene \in Scenarios
    BY <1>1 DEF HistoryInv, HistoryType
  <2>2. ASSUME NEW k \in DOMAIN past, NEW i \in DOMAIN past[k] PROVE i \in Nat
    <3>1. IsVersion(scene, i, past[k][i])
      BY <1>1 DEF HistoryInv, Sound
    <3>2. QED
      BY <2>1, <3>1, VersionFacts
  <2>3. QED
    BY <1>1, <2>2 DEF HistoryInv, Sound
<1>3. QED
  BY <1>1, <1>2 DEF TypeOK, HistoryInv, HistoryType, ReadsInv, PagesAreShort

\* The pages of a list make up the list, however large it is and whatever the
\* limit: who counts the pages for himself misses nothing that was there all the
\* time and sees nothing twice, though each page and each count is read at a moment
\* of its own, as long as who joins the list joins it at its end.
THEOREM PagesMakeTheList == Spec => []PagesAddUp
<1>1. ReadsInv => PagesAddUp
  BY SoundTypes, SoundCounter, SoundWalk DEF PagesAddUp
<1>2. QED
  BY <1>1, ReadsAreSound, PTL

-----------------------------------------------------------------------------
(* Sums over finite sets. *)

IsSums(g, f) ==
  g = [s \in SUBSET DOMAIN f |->
         IF s = {} THEN 0
         ELSE f[CHOOSE x \in s : TRUE] + g[s \ {CHOOSE x \in s : TRUE}]]

\* The sum of a function is defined, by recursion over the parts of its domain.
LEMMA SumExists ==
  ASSUME NEW f, IsFiniteSet(DOMAIN f), \A x \in DOMAIN f : f[x] \in Int
  PROVE  \E g \in [SUBSET DOMAIN f -> Int] : IsSums(g, f) /\ Sum(f) = g[DOMAIN f]
<1> DEFINE D == DOMAIN f
           pick == [s \in SUBSET D |-> CHOOSE x \in s : TRUE]
           step == [p \in D \X Int |-> f[p[1]] + p[2]]
<1>1. Sum(f) = (CHOOSE g : IsSums(g, f))[D]
  BY DEF Sum, MapThenSumSet, MapThenFoldSet, IsSums
<1>2. IsPick(D, pick)
  BY DEF IsPick
<1>3. step \in [D \X Int -> Int]
  OBVIOUS
<1>4. \A x \in D, n \in Int : step[<<x, n>>] = f[x] + n
  OBVIOUS
<1>5. PICK g \in [SUBSET D -> Int] : IsFold(D, g, pick, 0, step)
  <2> HIDE DEF D, pick, step
  <2>1. IsFiniteSet(D) /\ 0 \in Int
    BY DEF D
  <2>2. QED
    BY <1>2, <1>3, <2>1, FoldExists
<1>6. IsSums(g, f)
  <2> SUFFICES ASSUME NEW s \in SUBSET D
               PROVE  g[s] = IF s = {} THEN 0
                             ELSE f[CHOOSE x \in s : TRUE] + g[s \ {CHOOSE x \in s : TRUE}]
    <3>1. g = [s \in SUBSET D |-> g[s]]
      OBVIOUS
    <3>2. QED
      BY <3>1 DEF IsSums
  <2>1. g[s] = IF s = {} THEN 0 ELSE step[<<pick[s], g[s \ {pick[s]}]>>]
    BY <1>5 DEF IsFold
  <2>2. CASE s = {}
    BY <2>1, <2>2
  <2>3. CASE s # {}
    <3>1. pick[s] \in D /\ pick[s] = CHOOSE x \in s : TRUE
      BY <2>3
    <3> HIDE DEF step, pick
    <3>2. g[s \ {pick[s]}] \in Int
      BY <1>5
    <3>3. QED
      BY <1>4, <2>1, <2>3, <3>1, <3>2
  <2>4. QED
    BY <2>2, <2>3
<1>7. IsSums(CHOOSE h : IsSums(h, f), f)
  BY <1>6
<1> DEFINE h == CHOOSE h : IsSums(h, f)
<1> HIDE DEF h
\* There is but one such function.
<1>8. \A s \in SUBSET D : h[s] = g[s]
  <2> DEFINE Good == {s \in SUBSET D : h[s] = g[s]}
  <2>1. ASSUME NEW s \in SUBSET D, \A x \in s : s \ {x} \in Good PROVE s \in Good
    <3>1. /\ g[s] = IF s = {} THEN 0
                    ELSE f[CHOOSE x \in s : TRUE] + g[s \ {CHOOSE x \in s : TRUE}]
          /\ h[s] = IF s = {} THEN 0
                    ELSE f[CHOOSE x \in s : TRUE] + h[s \ {CHOOSE x \in s : TRUE}]
      BY <1>6, <1>7 DEF IsSums, h
    <3>2. QED
      BY <2>1, <3>1
  <2>2. \A s \in SUBSET D : s \in Good
    <3> HIDE DEF Good, D
    <3>1. IsFiniteSet(D)
      BY DEF D
    <3>2. QED
      BY <2>1, <3>1, SetInduction
  <2>3. QED
    BY <2>2
<1>9. Sum(f) = g[D]
  BY <1>1, <1>8 DEF h
<1>10. QED
  BY <1>6, <1>9

\* The sum of a function over a part of its domain.
Part(f, s) == Sum([x \in s |-> f[x]])

\* It may be added up in any order.
LEMMA PartFacts ==
  ASSUME NEW D, IsFiniteSet(D), NEW f \in [D -> Int]
  PROVE  /\ \A s \in SUBSET D : Part(f, s) \in Int
         /\ Part(f, {}) = 0
         /\ \A s \in SUBSET D : \A x \in s : Part(f, s) = f[x] + Part(f, s \ {x})
<1>1. PICK g \in [SUBSET D -> Int] : IsSums(g, f)
  BY SumExists
<1>2. \A s \in SUBSET D :
        g[s] = IF s = {} THEN 0 ELSE f[CHOOSE x \in s : TRUE] + g[s \ {CHOOSE x \in s : TRUE}]
  BY <1>1 DEF IsSums
<1>3. ASSUME NEW s \in SUBSET D PROVE Part(f, s) = g[s]
  <2> DEFINE h == [x \in s |-> f[x]]
  <2>1. DOMAIN h = s /\ IsFiniteSet(s) /\ \A x \in s : h[x] = f[x] /\ h[x] \in Int
    BY FS_Subset
  <2> HIDE DEF h
  <2>2. PICK e \in [SUBSET s -> Int] : IsSums(e, h) /\ Sum(h) = e[s]
    BY <2>1, SumExists
  <2>3. \A u \in SUBSET s :
          e[u] = IF u = {} THEN 0 ELSE h[CHOOSE x \in u : TRUE] + e[u \ {CHOOSE x \in u : TRUE}]
    BY <2>1, <2>2 DEF IsSums
  <2> DEFINE Good == {u \in SUBSET s : e[u] = g[u]}
  <2>4. ASSUME NEW u \in SUBSET s, \A x \in u : u \ {x} \in Good PROVE u \in Good
    <3>1. CASE u = {}
      BY <1>2, <2>3, <3>1
    <3>2. CASE u # {}
      <4>1. PICK c \in u : c = CHOOSE x \in u : TRUE
        BY <3>2
      <4>2. e[u] = h[c] + e[u \ {c}] /\ g[u] = f[c] + g[u \ {c}]
        BY <1>2, <2>3, <3>2, <4>1
      <4>3. e[u \ {c}] = g[u \ {c}] /\ h[c] = f[c]
        BY <2>1, <2>4
      <4>4. QED
        BY <4>2, <4>3
    <3>3. QED
      BY <3>1, <3>2
  <2>5. \A u \in SUBSET s : u \in Good
    <3> HIDE DEF Good
    <3>1. QED
      BY <2>1, <2>4, SetInduction
  <2>6. e[s] = g[s]
    BY <2>5
  <2>7. QED
    BY <2>2, <2>6 DEF Part, h
<1> DEFINE Good == {s \in SUBSET D : \A x \in s : g[s] = f[x] + g[s \ {x}]}
<1>4. ASSUME NEW s \in SUBSET D, \A x \in s : s \ {x} \in Good PROVE s \in Good
  <2> SUFFICES ASSUME NEW x \in s PROVE g[s] = f[x] + g[s \ {x}]
    OBVIOUS
  <2>1. PICK c \in s : c = CHOOSE y \in s : TRUE
    OBVIOUS
  <2>2. g[s] = f[c] + g[s \ {c}]
    BY <1>2, <2>1
  <2>3. CASE x = c
    BY <2>2, <2>3
  <2>4. CASE x # c
    <3>1. g[s \ {c}] = f[x] + g[(s \ {c}) \ {x}]
      BY <1>4, <2>4
    <3>2. g[s \ {x}] = f[c] + g[(s \ {x}) \ {c}]
      BY <1>4, <2>4
    <3>3. (s \ {c}) \ {x} = (s \ {x}) \ {c} /\ (s \ {x}) \ {c} \in SUBSET D
      OBVIOUS
    <3>4. PICK a \in Int, b \in Int, w \in Int : a = f[x] /\ b = f[c] /\ w = g[(s \ {x}) \ {c}]
      BY <3>3
    <3>5. g[s \ {c}] = a + w /\ g[s \ {x}] = b + w
      BY ONLY <3>1, <3>2, <3>3, <3>4
    <3>6. b + (a + w) = a + (b + w)
      OBVIOUS
    <3>7. QED
      BY ONLY <2>2, <3>4, <3>5, <3>6
  <2>5. QED
    BY <2>3, <2>4
<1>5. \A s \in SUBSET D : s \in Good
  <2> HIDE DEF Good
  <2>1. QED
    BY <1>4, SetInduction
<1>6. \A s \in SUBSET D : \A x \in s : Part(f, s) = f[x] + Part(f, s \ {x})
  <2> SUFFICES ASSUME NEW s \in SUBSET D, NEW x \in s PROVE Part(f, s) = f[x] + Part(f, s \ {x})
    OBVIOUS
  <2>1. g[s] = f[x] + g[s \ {x}]
    BY <1>5
  <2>2. Part(f, s) = g[s] /\ Part(f, s \ {x}) = g[s \ {x}]
    BY <1>3
  <2>3. QED
    BY <2>1, <2>2
<1>7. Part(f, {}) = 0
  BY <1>2, <1>3
<1>8. \A s \in SUBSET D : Part(f, s) \in Int
  BY <1>3
<1>9. QED
  BY <1>6, <1>7, <1>8

\* Two parts that share nothing come to what they come to together.
LEMMA PartsOfTwo ==
  ASSUME NEW D, IsFiniteSet(D), NEW f \in [D -> Int],
         NEW s \in SUBSET D, NEW t \in SUBSET D, s \cap t = {}
  PROVE  Part(f, s \cup t) = Part(f, s) + Part(f, t)
<1> DEFINE Good == {u \in SUBSET t : Part(f, s \cup u) = Part(f, s) + Part(f, u)}
<1>1. ASSUME NEW u \in SUBSET t, \A x \in u : u \ {x} \in Good PROVE u \in Good
  <2>0. Part(f, s) \in Int /\ Part(f, {}) = 0
    BY PartFacts
  <2>1. CASE u = {}
    BY <2>0, <2>1
  <2>2. ASSUME NEW x \in u PROVE u \in Good
    <3>1. Part(f, s \cup (u \ {x})) = Part(f, s) + Part(f, u \ {x})
      BY <1>1
    <3>2. s \cup u \in SUBSET D /\ x \in s \cup u /\ (s \cup u) \ {x} = s \cup (u \ {x}) /\ u \in SUBSET D
          /\ x \in D /\ u \ {x} \in SUBSET D
      OBVIOUS
    <3>3. Part(f, s \cup u) = f[x] + Part(f, (s \cup u) \ {x}) /\ Part(f, u) = f[x] + Part(f, u \ {x})
      BY <3>2, PartFacts
    <3>4. PICK a \in Int, b \in Int, c \in Int : a = f[x] /\ b = Part(f, u \ {x}) /\ c = Part(f, s)
      BY <2>0, <3>2, PartFacts
    <3>5. Part(f, s \cup u) = a + (c + b) /\ Part(f, u) = a + b
      BY ONLY <3>1, <3>2, <3>3, <3>4
    <3>6. a + (c + b) = c + (a + b)
      OBVIOUS
    <3>7. QED
      BY <3>4, <3>5, <3>6
  <2>3. QED
    BY <2>1, <2>2
<1>2. \A u \in SUBSET t : u \in Good
  <2>1. IsFiniteSet(t)
    BY FS_Subset
  <2> HIDE DEF Good
  <2>2. QED
    BY <1>1, <2>1, SetInduction
<1>3. QED
  BY <1>2

\* A part of what is not negative is not negative, and comes to no more than the whole.
LEMMA PartsGrow ==
  ASSUME NEW D, IsFiniteSet(D), NEW f \in [D -> Nat],
         NEW t \in SUBSET D, NEW s \in SUBSET t
  PROVE  Part(f, s) \in Nat /\ Part(f, t) \in Nat /\ Part(f, s) <= Part(f, t)
<1>1. f \in [D -> Int]
  OBVIOUS
<1> DEFINE Good == {u \in SUBSET D : Part(f, u) \in Nat}
<1>2. ASSUME NEW u \in SUBSET D, \A x \in u : u \ {x} \in Good PROVE u \in Good
  <2>1. CASE u = {}
    BY <1>1, <2>1, PartFacts
  <2>2. ASSUME NEW x \in u PROVE u \in Good
    <3>1. Part(f, u) = f[x] + Part(f, u \ {x})
      BY <1>1, PartFacts
    <3>2. f[x] \in Nat /\ Part(f, u \ {x}) \in Nat
      BY <1>2
    <3>3. QED
      BY <3>1, <3>2
  <2>3. QED
    BY <2>1, <2>2
<1>3. \A u \in SUBSET D : u \in Good
  <2> HIDE DEF Good
  <2>1. QED
    BY <1>2, SetInduction
<1>4. Part(f, s) \in Nat /\ Part(f, t \ s) \in Nat /\ Part(f, t) \in Nat
  BY <1>3
<1>5. Part(f, s \cup (t \ s)) = Part(f, s) + Part(f, t \ s) /\ s \cup (t \ s) = t
  <2>1. s \in SUBSET D /\ t \ s \in SUBSET D /\ s \cap (t \ s) = {} /\ s \cup (t \ s) = t
    OBVIOUS
  <2>2. QED
    BY <1>1, <2>1, PartsOfTwo
<1>6. QED
  BY <1>4, <1>5

\* The sums of parts that share nothing come to the sum of all of them.
LEMMA PartsOfMany ==
  ASSUME NEW D, IsFiniteSet(D), NEW f \in [D -> Int], NEW T, IsFiniteSet(T),
         NEW cell \in [T -> SUBSET D], \A t, u \in T : t # u => cell[t] \cap cell[u] = {}
  PROVE  Sum([t \in T |-> Part(f, cell[t])]) = Part(f, UNION {cell[t] : t \in T})
<1> DEFINE sums == [t \in T |-> Part(f, cell[t])]
           All(S) == UNION {cell[t] : t \in S}
           Good == {S \in SUBSET T : Part(sums, S) = Part(f, All(S))}
<1>1. sums \in [T -> Int]
  BY PartFacts
<1>2. ASSUME NEW S \in SUBSET T, \A x \in S : S \ {x} \in Good PROVE S \in Good
  <2>1. CASE S = {}
    <3>1. All({}) = {}
      OBVIOUS
    <3> HIDE DEF All, sums
    <3>2. QED
      BY <1>1, <2>1, <3>1, PartFacts
  <2>2. ASSUME NEW x \in S PROVE S \in Good
    <3>1. All(S) = cell[x] \cup All(S \ {x}) /\ cell[x] \cap All(S \ {x}) = {}
          /\ All(S \ {x}) \in SUBSET D /\ cell[x] \in SUBSET D
      OBVIOUS
    <3>2. sums[x] = Part(f, cell[x])
      OBVIOUS
    <3>3. Part(sums, S \ {x}) = Part(f, All(S \ {x}))
      BY <1>2
    <3> HIDE DEF All, sums
    <3>4. Part(sums, S) = sums[x] + Part(sums, S \ {x})
      BY <1>1, PartFacts
    <3>5. Part(f, All(S)) = Part(f, cell[x]) + Part(f, All(S \ {x}))
      <4>1. PICK a, b : a = cell[x] /\ b = All(S \ {x})
        OBVIOUS
      <4>2. a \in SUBSET D /\ b \in SUBSET D /\ a \cap b = {}
        BY ONLY <3>1, <4>1
      <4>3. Part(f, a \cup b) = Part(f, a) + Part(f, b)
        BY <4>2, PartsOfTwo
      <4>4. QED
        BY ONLY <3>1, <4>1, <4>3
    <3>6. QED
      BY <3>2, <3>3, <3>4, <3>5
  <2>3. QED
    BY <2>1, <2>2
<1>3. T \in Good
  <2> HIDE DEF Good
  <2>1. QED
    BY <1>2, SetInduction
<1>4. Part(sums, T) = Sum(sums)
  BY DEF Part
<1>5. QED
  BY <1>3, <1>4
-----------------------------------------------------------------------------
(* Bookings and invoices: of these nothing is ever removed. *)

Lasting ==
  \A k, m \in DOMAIN past : k < m =>
    \A i \in DOMAIN past[k] : past[k][i].kind \in {"booking", "invoice"} => i \in DOMAIN past[m]
\* An invoice that comes is of a day since the query began, or had its date before.
Dated ==
  \A k \in DOMAIN past : \A i \in Of(past[k], "invoice") :
    /\ past[k][i].day \in DOMAIN Calendar
    /\ i \in DOMAIN past[1] \cup scene.underway \/ past[k][i].day >= Began

\* A document is of one kind; a stay keeps its room and dates, an invoice all it has.
LEMMA SameDocument ==
  ASSUME HistoryInv, NEW k \in DOMAIN past, NEW m \in DOMAIN past,
         NEW i \in DOMAIN past[k] \cap DOMAIN past[m]
  PROVE  /\ past[k][i].kind = past[m][i].kind
         /\ past[k][i].kind = "booking" =>
              /\ past[k][i].room = past[m][i].room
              /\ past[k][i].from = past[m][i].from /\ past[k][i].to = past[m][i].to
         /\ past[k][i].kind = "invoice" => past[k][i] = past[m][i] /\ past[k][i].amount \in Nat
<1>1. /\ scene \in Scenarios /\ k \in Nat /\ m \in Nat
      /\ IsVersion(scene, i, past[k][i]) /\ IsVersion(scene, i, past[m][i])
  BY Now DEF HistoryInv, HistoryType, Sound
<1>2. /\ past[k][i].kind = Original(scene, i).kind /\ past[m][i].kind = Original(scene, i).kind
      /\ past[k][i].kind = "invoice" => past[k][i].amount \in Nat /\ i \notin DOMAIN scene.changes
  BY <1>1, VersionFacts
<1>3. past[k][i].kind = "booking" =>
        /\ past[k][i].room = past[m][i].room
        /\ past[k][i].from = past[m][i].from /\ past[k][i].to = past[m][i].to
  BY <1>1, <1>2, VersionFacts
<1>4. past[k][i].kind = "invoice" => past[k][i] = past[m][i]
  <2>1. k < m \/ m < k \/ k = m
    BY <1>1
  <2>2. QED
    BY <1>2, <2>1 DEF HistoryInv, Kept
<1>5. QED
  BY <1>2, <1>3, <1>4

\* The books of the beginning are in order.
LEMMA BooksInit == Init => Lasting /\ Dated
<1> SUFFICES ASSUME Init PROVE Lasting /\ Dated
  OBVIOUS
<1>1. PICK some \in scene.optional :
        past = << [i \in (DOMAIN scene.stored) \ some |-> scene.stored[i]] >>
  BY DEF Init
<1> DEFINE b == [i \in (DOMAIN scene.stored) \ some |-> scene.stored[i]]
<1>2. scene \in Scenarios
  BY DEF Init
<1>3. \A i \in DOMAIN b : b[i].day \in DOMAIN Calendar
  BY <1>2, QueriesAssumption
<1>4. past = <<b>>
  BY <1>1
<1> HIDE DEF b
<1>5. DOMAIN past = {1} /\ past[1] = b
  BY <1>4
<1>6. Dated
  BY <1>3, <1>5 DEF Dated, Of
<1>7. Lasting
  BY <1>5 DEF Lasting
<1>8. QED
  BY <1>6, <1>7

\* No step removes a booking or an invoice, or dates one from before the query that had
\* not got its date by then.
LEMMA BooksStep ==
  ASSUME HistoryInv, Lasting, Dated, [Next]_vars
  PROVE  Lasting' /\ Dated'
<1> DEFINE L == Len(past)
<1>1. /\ HistoryInv' /\ L \in Nat /\ DOMAIN past = 1 .. L /\ L \in 1 .. L /\ db = past[L]
      /\ \A k \in 1 .. L : k \in DOMAIN past' /\ past'[k] = past[k]
  BY HistoryStep, Now
<1>2. Began' = Began /\ scene' = scene
  BY StepShape DEF Began
<1>3. CASE past' = past
  BY <1>2, <1>3 DEF Lasting, Dated, Of
<1>4. ASSUME NEW b, b = past'[L + 1], Len(past') = L + 1, MayFollow(b) PROVE Lasting' /\ Dated'
  <2>1. DOMAIN past' = 1 .. L + 1
    BY <1>1, <1>4, Now DEF HistoryInv, HistoryType
  <2> HIDE DEF L
  <2>2. Lasting'
    <3> SUFFICES ASSUME NEW k \in 1 .. L + 1, NEW m \in 1 .. L + 1, k < m,
                        NEW i \in DOMAIN past'[k], past'[k][i].kind \in {"booking", "invoice"}
                 PROVE  i \in DOMAIN past'[m]
      BY <2>1 DEF Lasting
    <3>1. k \in 1 .. L /\ past'[k] = past[k]
      BY <1>1
    <3>2. CASE m \in 1 .. L
      BY <1>1, <3>1, <3>2 DEF Lasting
    <3>3. CASE m = L + 1
      <4>1. i \in DOMAIN past[L] /\ past[L][i].kind \in {"booking", "invoice"}
        <5>1. CASE k = L
          BY <3>1, <5>1
        <5>2. CASE k < L
          <6>1. i \in DOMAIN past[L]
            BY <1>1, <3>1, <5>2 DEF Lasting
          <6>2. QED
            BY <1>1, <3>1, <6>1, SameDocument
        <5>3. QED
          BY <1>1, <3>1, <5>1, <5>2
      <4>2. QED
        BY <1>1, <1>4, <3>3, <4>1 DEF MayFollow
    <3>4. QED
      BY <1>1, <3>2, <3>3
  <2>3. Dated'
    <3> SUFFICES ASSUME NEW k \in 1 .. L + 1, NEW i \in DOMAIN past'[k], past'[k][i].kind = "invoice"
                 PROVE  /\ past'[k][i].day \in DOMAIN Calendar
                        /\ i \in DOMAIN past'[1] \cup scene.underway \/ past'[k][i].day >= Began
      BY <1>2, <2>1 DEF Dated, Of
    <3>0. 1 \in 1 .. L /\ past'[1] = past[1]
      BY <1>1
    <3>1. CASE k \in 1 .. L
      BY <1>1, <3>0, <3>1 DEF Dated, Of
    <3>2. CASE k = L + 1 /\ i \notin DOMAIN db
      BY <1>4, <3>2 DEF MayFollow
    <3>3. CASE k = L + 1 /\ i \in DOMAIN db
      <4>1. IsVersion(scene, i, b[i]) /\ scene \in Scenarios /\ b[i].kind = "invoice"
        BY <1>4, <3>3 DEF MayFollow, HistoryInv, HistoryType
      <4>2. b[i] = db[i]
        BY <1>4, <3>3, <4>1, VersionFacts DEF MayFollow
      <4>3. QED
        BY <1>1, <1>4, <3>0, <3>3, <4>1, <4>2 DEF Dated, Of
    <3>4. QED
      BY <1>1, <3>1, <3>2, <3>3
  <2>4. QED
    BY <2>2, <2>3
<1>5. QED
  BY <1>3, <1>4, HistoryStep

-----------------------------------------------------------------------------
(* What the dashboard reads is what there was at some moment of the query. *)

Figures ==
  {"today", "yesterday", "year", "lastYear", "months", "lastMonths", "thisYear", "invoices", "byType",
   "rooms", "bookedToday", "staff", "receptionists", "serviceStaff", "pending", "staying", "left"}
Figure(base, n) ==
  CASE n = "today"         -> Revenue(base, From(Began))
    [] n = "yesterday"     -> Revenue(base, {Began - 1})
    [] n = "year"          -> Revenue(base, DaysOf(Year))
    [] n = "lastYear"      -> Revenue(base, DaysOf(Year - 1))
    [] n = "months"        -> MonthlyRevenue(base, Year)
    [] n = "lastMonths"    -> MonthlyRevenue(base, Year - 1)
    [] n = "thisYear"      -> ByRoomType(base, Issued(base, ThisYear))
    [] n = "invoices"      -> Exported(base)
    [] n = "byType"        -> ByRoomType(base, Exported(base))
    [] n = "rooms"         -> Of(base, "room")
    [] n = "bookedToday"   -> BookedToday(base)
    [] n = "staff"         -> {u \in Of(base, "user") : base[u].role \in Staff}
    [] n = "receptionists" -> {u \in Of(base, "user") : base[u].role = "receptionist"}
    [] n = "serviceStaff"  -> {u \in Of(base, "user") : base[u].role = "service_staff"}
    [] n = "pending"       -> {b \in Of(base, "booking") : base[b].status = "Pending"}
    [] n = "staying"       -> {b \in Of(base, "booking") : base[b].status = "Checked in"}
    [] n = "left"          -> {b \in Of(base, "booking") : base[b].status = "Checked out"}
FigureAsOf(k, r) == got[r] = Figure(past[k], r[1])
FiguresSeen == \A r \in Read : r[1] \in Figures => \E k \in DOMAIN past : FigureAsOf(k, r)
FigureInv == HistoryInv /\ Lasting /\ Dated /\ FiguresSeen

\* A read finds the figure as it is now.
LEMMA FigureIsValue ==
  ASSUME NEW r, r[1] \in Figures
  PROVE  Value(r) = Figure(db, r[1])
<1> DEFINE n == r[1]
<1>1. CASE n \in {"today", "yesterday", "year", "lastYear", "months", "lastMonths"}
  BY <1>1 DEF Value, Figure
<1>2. CASE n \in {"thisYear", "invoices", "byType", "rooms", "bookedToday"}
  BY <1>2 DEF Value, Figure
<1>3. CASE n \in {"staff", "receptionists", "serviceStaff", "pending", "staying", "left"}
  BY <1>3 DEF Value, Figure, WithRole, WithStatus
<1>4. QED
  BY <1>1, <1>2, <1>3 DEF Figures

\* What figure is meant does not change during a query.
LEMMA FigureStays ==
  ASSUME scene' = scene, ask' = ask, Head(past)' = Head(past), NEW base, NEW n
  PROVE  Figure(base, n)' = Figure(base, n)
<1>1. Began' = Began
  BY DEF Began
<1>2. Year' = Year
  BY <1>1 DEF Year
<1>3. ThisYear' = ThisYear
  BY <1>2 DEF ThisYear
<1>4. Exported(base)' = Exported(base)
  BY DEF Exported
<1>5. BookedToday(base)' = BookedToday(base)
  BY <1>1 DEF BookedToday, Today
<1>6. QED
  BY <1>1, <1>2, <1>3, <1>4, <1>5 DEF Figure

\* Nothing has been read to begin with.
LEMMA FiguresInit == Init => FigureInv
<1> SUFFICES ASSUME Init PROVE FigureInv
  OBVIOUS
<1>1. Read = {}
  BY DEF Init, Read
<1>2. QED
  BY <1>1, HistoryInit, BooksInit DEF FigureInv, FiguresSeen

\* A figure that has been read stays that of its moment.
LEMMA FiguresStep == FigureInv /\ [Next]_vars => FigureInv'
<1> SUFFICES ASSUME FigureInv, [Next]_vars PROVE FigureInv'
  OBVIOUS
<1>0. HistoryInv /\ Lasting /\ Dated /\ FiguresSeen
  BY DEF FigureInv
<1>1. /\ HistoryInv' /\ Lasting' /\ Dated'
      /\ \A k \in DOMAIN past : k \in DOMAIN past' /\ past'[k] = past[k]
      /\ scene' = scene /\ ask' = ask
      /\ got' = got \/ (past' = past /\ \E r \in Due : Answer(r))
  BY <1>0, HistoryStep, BooksStep, StepShape
<1>2. Head(past)' = Head(past)
  <2>1. past \in Seq(Bases(scene)) /\ past # <<>> /\ past' \in Seq(Bases(scene)) /\ past' # <<>>
    BY <1>0, <1>1, HistoryStep DEF HistoryInv, HistoryType, Bases, Forms
  <2>2. 1 \in DOMAIN past /\ Head(past) = past[1] /\ Head(past') = past'[1]
    BY <2>1
  <2>3. QED
    BY <1>1, <2>2
<1>3. ASSUME NEW r, NEW k \in DOMAIN past', NEW base, base = past'[k], got'[r] = Figure(base, r[1])
      PROVE  FigureAsOf(k, r)'
  <2>1. got'[r] = Figure(base, r[1])'
    BY <1>1, <1>2, <1>3, FigureStays
  <2>2. QED
    BY <1>3, <2>1 DEF FigureAsOf
<1>4. ASSUME NEW r \in Read, r[1] \in Figures, got'[r] = got[r]
      PROVE  \E k \in DOMAIN past' : FigureAsOf(k, r)'
  <2>1. PICK k \in DOMAIN past : got[r] = Figure(past[k], r[1])
    BY <1>0, <1>4 DEF FiguresSeen, FigureAsOf
  <2>2. PICK base : base = past[k] /\ base = past'[k] /\ k \in DOMAIN past'
    BY <1>1
  <2>3. QED
    BY <1>3, <1>4, <2>1, <2>2
<1>5. FiguresSeen'
  <2>1. CASE got' = got
    BY <1>4, <2>1 DEF FiguresSeen, Read
  <2>2. ASSUME past' = past, NEW q \in Due, Answer(q) PROVE FiguresSeen'
    <3>1. got' = [r \in Read \cup {q} |-> IF r = q THEN Value(q) ELSE got[r]]
      BY <2>2 DEF Answer
    <3>2. Read' = Read \cup {q} /\ got'[q] = Value(q) /\ \A r \in Read : r # q => got'[r] = got[r]
      BY <3>1 DEF Read
    <3>3. ASSUME q[1] \in Figures PROVE \E k \in DOMAIN past' : FigureAsOf(k, q)'
      <4>1. Len(past) \in DOMAIN past' /\ past'[Len(past)] = db
        BY <1>0, <2>2, Now
      <4>2. got'[q] = Figure(db, q[1])
        BY <3>2, <3>3, FigureIsValue
      <4>3. QED
        BY <1>3, <4>1, <4>2
    <3>4. QED
      BY <1>4, <3>2, <3>3 DEF FiguresSeen
  <2>3. QED
    BY <1>1, <2>1, <2>2
<1>6. QED
  BY <1>1, <1>5 DEF FigureInv

\* Each figure of the dashboard is what there was at one moment of its query, of books from
\* which no booking and no invoice was ever removed (the reads of admin-dashboard.service.ts,
\* getRoomCounts and the others, in no transaction).
THEOREM FiguresAreSound == Spec => []FigureInv
BY FiguresInit, FiguresStep, PTL DEF Spec

-----------------------------------------------------------------------------
(* Revenue. *)

\* What the invoices there are now come to, one by one.
Sold == [i \in Of(db, "invoice") |-> db[i].amount]

\* The invoices of any moment are among those of now, and of what these come to.
LEMMA SoldFacts ==
  ASSUME HistoryInv, Lasting
  PROVE  /\ IsFiniteSet(Of(db, "invoice")) /\ Sold \in [Of(db, "invoice") -> Nat]
         /\ \A k \in DOMAIN past : \A s \in SUBSET Of(past[k], "invoice") :
              s \in SUBSET Of(db, "invoice") /\ Total(past[k], s) = Part(Sold, s)
<1>1. /\ Len(past) \in Nat /\ Len(past) \in DOMAIN past /\ DOMAIN past = 1 .. Len(past)
      /\ db = past[Len(past)] /\ IsFiniteSet(DOMAIN db)
  BY Now
<1>2. Of(db, "invoice") \subseteq DOMAIN db /\ IsFiniteSet(Of(db, "invoice"))
  <2>1. Of(db, "invoice") \subseteq DOMAIN db
    BY DEF Of
  <2>2. QED
    BY <1>1, <2>1, FS_Subset
<1>3. Sold \in [Of(db, "invoice") -> Nat]
  <2>1. \A i \in Of(db, "invoice") : db[i].amount \in Nat
    BY <1>1, SameDocument DEF Of
  <2>2. QED
    BY <2>1 DEF Sold
<1>4. ASSUME NEW k \in DOMAIN past, NEW s \in SUBSET Of(past[k], "invoice")
      PROVE  s \in SUBSET Of(db, "invoice") /\ Total(past[k], s) = Part(Sold, s)
  <2>1. \A i \in s : i \in DOMAIN past[k] /\ past[k][i].kind = "invoice"
    BY DEF Of
  <2>2. \A i \in s : i \in DOMAIN db
    <3>1. k = Len(past) \/ k < Len(past)
      BY <1>1
    <3>2. QED
      BY <1>1, <2>1, <3>1 DEF Lasting
  <2>3. \A i \in s : i \in DOMAIN db /\ db[i].kind = "invoice" /\ db[i] = past[k][i]
    BY <1>1, <2>1, <2>2, SameDocument
  <2>4. s \in SUBSET Of(db, "invoice")
    BY <2>3 DEF Of
  <2>5. \A i \in s : Sold[i] = past[k][i].amount
    BY <2>3, <2>4 DEF Sold
  <2>6. [i \in s |-> past[k][i].amount] = [i \in s |-> Sold[i]]
    BY <2>5
  <2>7. QED
    BY <2>4, <2>6 DEF Total, Part
<1>5. QED
  BY <1>2, <1>3, <1>4

\* What was issued on some days: only ever more, and of two sets of days together.
LEMMA RevenueFacts ==
  ASSUME HistoryInv, Lasting, NEW k \in DOMAIN past, NEW days
  PROVE  /\ Issued(past[k], days) \in SUBSET Of(past[k], "invoice")
         /\ Issued(past[k], days) \in SUBSET Of(db, "invoice")
         /\ Revenue(past[k], days) = Part(Sold, Issued(past[k], days)) /\ Revenue(past[k], days) \in Nat
<1>1. Issued(past[k], days) \in SUBSET Of(past[k], "invoice")
  BY DEF Issued
<1>2. PICK D, f, s : D = Of(db, "invoice") /\ f = Sold /\ s = Issued(past[k], days)
  OBVIOUS
<1>3. IsFiniteSet(D) /\ f \in [D -> Nat] /\ s \in SUBSET D /\ Revenue(past[k], days) = Part(f, s)
  BY <1>1, <1>2, SoldFacts DEF Revenue
<1>4. Part(f, s) \in Nat
  BY <1>3, PartsGrow
<1>5. QED
  BY <1>1, <1>2, <1>3, <1>4

\* Revenue only grows: of some documents no less than of fewer, later no less than before.
LEMMA RevenueGrows ==
  ASSUME HistoryInv, Lasting, NEW k \in DOMAIN past, NEW m \in DOMAIN past, k <= m, NEW days
  PROVE  Revenue(past[k], days) <= Revenue(past[m], days)
<1>1. Issued(past[k], days) \subseteq Issued(past[m], days)
  <2> SUFFICES ASSUME NEW i \in DOMAIN past[k], past[k][i].kind = "invoice", past[k][i].day \in days
               PROVE  i \in DOMAIN past[m] /\ past[m][i].kind = "invoice" /\ past[m][i].day \in days
    BY DEF Issued, Of
  <2>1. k = m \/ k < m
    BY Now
  <2>2. i \in DOMAIN past[m]
    BY <2>1 DEF Lasting
  <2>3. QED
    BY <2>2, SameDocument
<1>2. PICK D, f, s, t : D = Of(db, "invoice") /\ f = Sold
                          /\ s = Issued(past[k], days) /\ t = Issued(past[m], days)
  OBVIOUS
<1>3. IsFiniteSet(D) /\ f \in [D -> Nat] /\ t \in SUBSET D /\ s \in SUBSET t
  BY <1>1, <1>2, SoldFacts, RevenueFacts
<1>4. Part(f, s) <= Part(f, t)
  BY <1>3, PartsGrow
<1>5. QED
  BY <1>2, <1>4, RevenueFacts

\* The revenue of days that are not shared adds up.
LEMMA RevenueAdds ==
  ASSUME HistoryInv, Lasting, NEW k \in DOMAIN past, NEW days, NEW others, days \cap others = {}
  PROVE  Revenue(past[k], days \cup others) = Revenue(past[k], days) + Revenue(past[k], others)
<1>1. /\ Issued(past[k], days \cup others) = Issued(past[k], days) \cup Issued(past[k], others)
      /\ Issued(past[k], days) \cap Issued(past[k], others) = {}
  BY DEF Issued
<1>2. PICK D, f, s, t : D = Of(db, "invoice") /\ f = Sold
                          /\ s = Issued(past[k], days) /\ t = Issued(past[k], others)
  OBVIOUS
<1>3. IsFiniteSet(D) /\ f \in [D -> Nat] /\ s \in SUBSET D /\ t \in SUBSET D /\ s \cap t = {}
  BY <1>1, <1>2, SoldFacts, RevenueFacts
<1>4. f \in [D -> Int]
  BY <1>3
<1>5. Part(f, s \cup t) = Part(f, s) + Part(f, t)
  BY <1>3, <1>4, PartsOfTwo
<1>6. QED
  BY <1>1, <1>2, <1>5, RevenueFacts

\* Days no invoice can bear make no difference.
LEMMA RevenueOfDays ==
  ASSUME Dated, NEW k \in DOMAIN past, NEW days, NEW others,
         days \cap DOMAIN Calendar = others \cap DOMAIN Calendar
  PROVE  Revenue(past[k], days) = Revenue(past[k], others)
<1>1. \A i \in Of(past[k], "invoice") : past[k][i].day \in days <=> past[k][i].day \in others
  BY DEF Dated
<1>2. Issued(past[k], days) = Issued(past[k], others)
  BY <1>1 DEF Issued
<1>3. QED
  BY <1>2 DEF Revenue

\* The months of a year come to the year.
LEMMA MonthsOfYear ==
  ASSUME HistoryInv, Lasting, NEW k \in DOMAIN past, NEW year
  PROVE  Sum(MonthlyRevenue(past[k], year)) = Revenue(past[k], DaysOf(year))
<1> DEFINE days(m) == {d \in DaysOf(year) : Calendar[d].month = m}
           cell == [m \in 1 .. 12 |-> Issued(past[k], days(m))]
<1>1. \A d \in DaysOf(year) : Calendar[d].month \in 1 .. 12
  BY QueriesAssumption DEF DaysOf
<1>2. \A m \in 1 .. 12 : cell[m] = {i \in Issued(past[k], DaysOf(year)) : Calendar[past[k][i].day].month = m}
  BY DEF Issued
<1>3. UNION {cell[m] : m \in 1 .. 12} = Issued(past[k], DaysOf(year))
  <2>1. \A i \in Issued(past[k], DaysOf(year)) : Calendar[past[k][i].day].month \in 1 .. 12
    BY <1>1 DEF Issued
  <2> HIDE DEF cell
  <2>2. QED
    BY <1>2, <2>1
<1>4. \A m, n \in 1 .. 12 : m # n => cell[m] \cap cell[n] = {}
  <2> HIDE DEF cell
  <2>1. QED
    BY <1>2
<1>5. PICK D, f : D = Of(db, "invoice") /\ f = Sold
  OBVIOUS
<1>6. IsFiniteSet(D) /\ f \in [D -> Int] /\ IsFiniteSet(1 .. 12)
  <2>1. f \in [D -> Nat] /\ IsFiniteSet(D)
    BY <1>5, SoldFacts
  <2>2. \A a \in Int : IsFiniteSet(1 .. a)
    BY FS_Interval
  <2>3. IsFiniteSet(1 .. 12)
    <3>1. PICK a \in Int : a = 12
      OBVIOUS
    <3>2. IsFiniteSet(1 .. a)
      BY <2>2
    <3>3. QED
      BY <3>1, <3>2
  <2>4. QED
    BY <2>1, <2>3
<1>7. cell \in [1 .. 12 -> SUBSET D]
  BY <1>5, RevenueFacts
<1>8. MonthlyRevenue(past[k], year) = [m \in 1 .. 12 |-> Part(f, cell[m])]
  BY <1>5, RevenueFacts DEF MonthlyRevenue
<1> HIDE DEF cell
<1>9. Sum([m \in 1 .. 12 |-> Part(f, cell[m])]) = Part(f, UNION {cell[m] : m \in 1 .. 12})
  BY <1>4, <1>6, <1>7, PartsOfMany
<1>10. QED
  BY <1>3, <1>5, <1>8, <1>9, RevenueFacts

\* The types of rooms come to no more than their invoices; to all of these, if of each
\* the room and its type are there.
LEMMA TypesOfInvoices ==
  ASSUME HistoryInv, Lasting, NEW k \in DOMAIN past, NEW ids \in SUBSET Of(past[k], "invoice")
  PROVE  /\ Sum(ByRoomType(past[k], ids)) \in Int
         /\ Sum(ByRoomType(past[k], ids)) <= Total(past[k], ids)
         /\ (\A i \in ids : HasRoom(past[k], i) /\ Has(past[k], TypeOf(past[k], i), "roomType"))
              => Sum(ByRoomType(past[k], ids)) = Total(past[k], ids)
<1> DEFINE T == Of(past[k], "roomType")
           cell == [t \in T |-> {i \in ids : HasRoom(past[k], i) /\ TypeOf(past[k], i) = t}]
           all == UNION {cell[t] : t \in T}
<1>1. IsFiniteSet(T)
  <2>1. T \subseteq DOMAIN past[k] /\ IsFiniteSet(DOMAIN past[k])
    BY DEF Of, HistoryInv, Sound
  <2>2. QED
    BY <2>1, FS_Subset
<1>2. all \in SUBSET ids /\ \A t, u \in T : t # u => cell[t] \cap cell[u] = {}
  OBVIOUS
<1>3. (\A i \in ids : HasRoom(past[k], i) /\ Has(past[k], TypeOf(past[k], i), "roomType")) => all = ids
  <2> SUFFICES ASSUME \A i \in ids : HasRoom(past[k], i) /\ Has(past[k], TypeOf(past[k], i), "roomType"),
                      NEW i \in ids
               PROVE  i \in all
    BY <1>2
  <2>1. TypeOf(past[k], i) \in T
    BY DEF Has, Of
  <2>2. i \in cell[TypeOf(past[k], i)]
    BY <2>1
  <2>3. QED
    BY <2>1, <2>2
<1>4. PICK D, f : D = Of(db, "invoice") /\ f = Sold
  OBVIOUS
<1>5. IsFiniteSet(D) /\ f \in [D -> Nat] /\ f \in [D -> Int] /\ ids \in SUBSET D
      /\ \A s \in SUBSET ids : Total(past[k], s) = Part(f, s)
  <2>1. \A s \in SUBSET ids : s \in SUBSET Of(past[k], "invoice")
    OBVIOUS
  <2>2. QED
    BY <1>4, <2>1, SoldFacts
<1>6. cell \in [T -> SUBSET D] /\ \A t \in T : cell[t] \in SUBSET ids
  BY <1>5
<1>7. ByRoomType(past[k], ids) = [t \in T |-> Part(f, cell[t])]
  <2>1. ByRoomType(past[k], ids) = [t \in T |-> Total(past[k], cell[t])]
    BY DEF ByRoomType
  <2> HIDE DEF cell, T
  <2>2. QED
    BY <1>5, <1>6, <2>1
<1> HIDE DEF cell, T
<1>8. Sum([t \in T |-> Part(f, cell[t])]) = Part(f, all)
  BY <1>1, <1>2, <1>5, <1>6, PartsOfMany
<1> HIDE DEF all
<1>9. Part(f, all) <= Part(f, ids) /\ Part(f, all) \in Int
  BY <1>2, <1>5, PartsGrow
<1>10. Total(past[k], ids) = Part(f, ids)
  BY <1>5
<1>11. QED
  BY <1>3, <1>7, <1>8, <1>9, <1>10

\* A figure that has been read is that of some moment.
LEMMA FigureRead ==
  ASSUME FigureInv, NEW n \in Figures, <<n, 0>> \in Read
  PROVE  \E k \in DOMAIN past : It(n) = Figure(past[k], n)
BY DEF FigureInv, FiguresSeen, FigureAsOf, It

\* Reads in turn have all been made when none is due.
LEMMA NamesAreRead ==
  ASSUME NEW n \in Nat, NEW names, DOMAIN names = 1 .. n, Names(names) = {}
  PROVE  \A k \in 1 .. n : <<names[k], 0>> \in Read
<1> DEFINE stages == [k \in DOMAIN names |-> {<<names[k], 0>>}]
           Open0 == {k \in 1 .. n : ~(stages[k] \subseteq Read)}
<1>1. InTurn(stages) = {}
  BY DEF Names
<1>2. Open0 = {}
  <2> SUFFICES ASSUME Open0 # {} PROVE FALSE
    OBVIOUS
  <2>1. Open0 \in SUBSET Nat
    OBVIOUS
  <2> HIDE DEF Open0
  <2>2. PICK k \in Open0 : \A m \in Open0 : k <= m
    BY <2>1, SmallestOf
  <2>3. k \in 1 .. n /\ ~(stages[k] \subseteq Read)
    BY DEF Open0
  <2>4. \A j \in 1 .. k - 1 : stages[j] \subseteq Read
    <3> SUFFICES ASSUME NEW j \in 1 .. k - 1 PROVE stages[j] \subseteq Read
      OBVIOUS
    <3>1. j \in 1 .. n /\ ~(k <= j)
      BY <2>3
    <3>2. j \notin Open0
      BY <2>2, <3>1
    <3>3. QED
      BY <3>1, <3>2 DEF Open0
  <2> HIDE DEF stages
  <2>5. DOMAIN stages = 1 .. n
    BY DEF stages
  <2>6. stages[k] \ Read \in {stages[m] \ Read : m \in {x \in DOMAIN stages : \A j \in 1 .. x - 1 : stages[j] \subseteq Read}}
    BY <2>3, <2>4, <2>5
  <2>7. stages[k] \ Read \subseteq InTurn(stages)
    BY <2>6 DEF InTurn
  <2>8. QED
    BY <1>1, <2>3, <2>7
<1>3. QED
  BY <1>2

\* The last two days, this year and the last, the types of rooms.
LEMMA SoundRevenue == FigureInv => RevenueAddsUp
<1> SUFFICES ASSUME FigureInv, Answered PROVE RevenueAddsUp
  BY DEF RevenueAddsUp
<1>0. HistoryInv /\ Lasting /\ Dated
  BY DEF FigureInv
<1>1. /\ Len(past) \in Nat /\ Len(past) \in DOMAIN past /\ DOMAIN past = 1 .. Len(past)
      /\ 1 \in DOMAIN past /\ First = past[1] /\ db = past[Len(past)]
      /\ \A k \in DOMAIN past : 1 <= k /\ k <= Len(past)
  BY <1>0, Now DEF First, HistoryInv, HistoryType
<1>2. Due = {} /\ ~Failed
  BY DEF Answered
<1>3. Began \in DOMAIN Calendar /\ Began \in Nat /\ DOMAIN Calendar \subseteq Nat
  BY <1>0, QueriesAssumption DEF Began, HistoryInv, HistoryType
<1>4. \A k \in DOMAIN past : \A days : Revenue(past[k], days) \in Nat
  BY <1>0, RevenueFacts
<1>5. \A k \in DOMAIN past : \A days :
        Revenue(First, days) <= Revenue(past[k], days) /\ Revenue(past[k], days) <= Revenue(db, days)
  BY <1>0, <1>1, RevenueGrows
<1>6. ASSUME ask.for = "daily"
      PROVE  Between(Revenue(First, From(Began - 1)), It("today") + It("yesterday"),
                     Revenue(db, From(Began - 1)))
  <2>1. Together({"today", "yesterday"}) = {}
    BY <1>2, <1>6 DEF Due
  <2>2. <<"today", 0>> \in Read /\ <<"yesterday", 0>> \in Read
    BY <2>1 DEF Together
  <2>3. PICK a \in DOMAIN past : It("today") = Revenue(past[a], From(Began))
    BY <2>2, FigureRead DEF Figures, Figure
  <2>4. PICK b \in DOMAIN past : It("yesterday") = Revenue(past[b], {Began - 1})
    BY <2>2, FigureRead DEF Figures, Figure
  <2>5. \A k \in DOMAIN past :
          Revenue(past[k], From(Began - 1)) = Revenue(past[k], From(Began)) + Revenue(past[k], {Began - 1})
    <3> SUFFICES ASSUME NEW k \in DOMAIN past
                 PROVE  Revenue(past[k], From(Began - 1))
                          = Revenue(past[k], From(Began)) + Revenue(past[k], {Began - 1})
      OBVIOUS
    <3>1. From(Began) \cap {Began - 1} = {}
      BY <1>3 DEF From
    <3>2. From(Began - 1) \cap DOMAIN Calendar = (From(Began) \cup {Began - 1}) \cap DOMAIN Calendar
      BY <1>3 DEF From
    <3>3. Revenue(past[k], From(Began - 1)) = Revenue(past[k], From(Began) \cup {Began - 1})
      BY <1>0, <3>2, RevenueOfDays
    <3>4. QED
      BY <1>0, <3>1, <3>3, RevenueAdds
  <2>6. PICK t \in Nat, y \in Nat, t1 \in Nat, y1 \in Nat, tn \in Nat, yn \in Nat :
          /\ t = Revenue(past[a], From(Began)) /\ y = Revenue(past[b], {Began - 1})
          /\ t1 = Revenue(First, From(Began)) /\ y1 = Revenue(First, {Began - 1})
          /\ tn = Revenue(db, From(Began)) /\ yn = Revenue(db, {Began - 1})
    BY <1>1, <1>4
  <2>7. t1 <= t /\ t <= tn /\ y1 <= y /\ y <= yn
    BY <1>5, <2>6
  <2>8. Revenue(First, From(Began - 1)) = t1 + y1 /\ Revenue(db, From(Began - 1)) = tn + yn
    BY <1>1, <2>5, <2>6
  <2>9. QED
    BY <2>3, <2>4, <2>6, <2>7, <2>8 DEF Between
<1>7. ASSUME ask.for = "yearly"
      PROVE  LET new(y) == Revenue(db, DaysOf(y)) - Revenue(First, DaysOf(y)) IN
             /\ Between(It("year") - new(Year), Sum(It("months")), It("year") + new(Year))
             /\ Between(It("lastYear") - new(Year - 1), Sum(It("lastMonths")),
                        It("lastYear") + new(Year - 1))
  <2>1. Together({"year", "lastYear", "months", "lastMonths"}) = {}
    BY <1>2, <1>7 DEF Due
  <2>2. /\ <<"year", 0>> \in Read /\ <<"lastYear", 0>> \in Read
        /\ <<"months", 0>> \in Read /\ <<"lastMonths", 0>> \in Read
    BY <2>1 DEF Together
  <2>3. PICK a \in DOMAIN past : It("year") = Revenue(past[a], DaysOf(Year))
    BY <2>2, FigureRead DEF Figures, Figure
  <2>4. PICK b \in DOMAIN past : It("months") = MonthlyRevenue(past[b], Year)
    BY <2>2, FigureRead DEF Figures, Figure
  <2>5. PICK c \in DOMAIN past : It("lastYear") = Revenue(past[c], DaysOf(Year - 1))
    BY <2>2, FigureRead DEF Figures, Figure
  <2>6. PICK d \in DOMAIN past : It("lastMonths") = MonthlyRevenue(past[d], Year - 1)
    BY <2>2, FigureRead DEF Figures, Figure
  \* Two moments differ by no more than the first and the last.
  <2>7. ASSUME NEW i \in DOMAIN past, NEW j \in DOMAIN past, NEW year
        PROVE  LET new == Revenue(db, DaysOf(year)) - Revenue(First, DaysOf(year)) IN
               Between(Revenue(past[i], DaysOf(year)) - new, Sum(MonthlyRevenue(past[j], year)),
                       Revenue(past[i], DaysOf(year)) + new)
    <3>1. Sum(MonthlyRevenue(past[j], year)) = Revenue(past[j], DaysOf(year))
      BY <1>0, MonthsOfYear
    <3>2. PICK x \in Nat, y \in Nat, low \in Nat, high \in Nat :
            /\ x = Revenue(past[i], DaysOf(year)) /\ y = Revenue(past[j], DaysOf(year))
            /\ low = Revenue(First, DaysOf(year)) /\ high = Revenue(db, DaysOf(year))
      BY <1>1, <1>4
    <3>3. low <= x /\ x <= high /\ low <= y /\ y <= high
      BY <1>5, <3>2
    <3>4. x - (high - low) <= y /\ y <= x + (high - low)
      BY <3>3
    <3>5. QED
      BY <3>1, <3>2, <3>4 DEF Between
  <2>8. QED
    BY <2>3, <2>4, <2>5, <2>6, <2>7
<1>8. ASSUME ask.for = "byRoomType"
      PROVE  LET whole == Revenue(db, DaysOf(Year)) - Revenue(db, {d \in DaysOf(Year) : Calendar[d].last})
             IN /\ Sum(It("thisYear")) <= whole
                /\ Len(past) = 1 /\ (\A i \in Of(db, "invoice") :
                                       HasRoom(db, i) /\ Has(db, TypeOf(db, i), "roomType"))
                     => Sum(It("thisYear")) = whole
  <2> DEFINE lasts == {d \in DaysOf(Year) : Calendar[d].last}
  <2>1. Names(<<"thisYear">>) = {}
    BY <1>2, <1>8 DEF Due
  <2>2. <<"thisYear", 0>> \in Read
    <3>1. DOMAIN <<"thisYear">> = 1 .. 1 /\ 1 \in 1 .. 1 /\ <<"thisYear">>[1] = "thisYear"
      OBVIOUS
    <3>2. QED
      BY <2>1, <3>1, NamesAreRead
  <2>3. PICK k \in DOMAIN past : It("thisYear") = ByRoomType(past[k], Issued(past[k], ThisYear))
    BY <2>2, FigureRead DEF Figures, Figure
  <2>4. Revenue(db, DaysOf(Year)) = Revenue(db, ThisYear) + Revenue(db, lasts)
    <3>1. ThisYear \cap lasts = {} /\ ThisYear \cup lasts = DaysOf(Year)
      BY DEF ThisYear
    <3> HIDE DEF lasts
    <3>2. Revenue(past[Len(past)], ThisYear \cup lasts)
            = Revenue(past[Len(past)], ThisYear) + Revenue(past[Len(past)], lasts)
      BY <1>0, <1>1, <3>1, RevenueAdds
    <3>3. QED
      BY <1>1, <3>1, <3>2
  <2> HIDE DEF lasts
  <2>5. Revenue(db, ThisYear) = Revenue(db, DaysOf(Year)) - Revenue(db, lasts)
    <3>1. Revenue(db, ThisYear) \in Nat /\ Revenue(db, lasts) \in Nat
      BY <1>1, <1>4
    <3>2. \A x, y, z \in Nat : z = x + y => x = z - y
      OBVIOUS
    <3>3. Revenue(db, DaysOf(Year)) \in Nat
      BY <1>1, <1>4
    <3>4. QED
      BY <2>4, <3>1, <3>2, <3>3
  <2>6. PICK ids : ids = Issued(past[k], ThisYear)
    OBVIOUS
  <2>7. ids \in SUBSET Of(past[k], "invoice")
    BY <1>0, <2>6, RevenueFacts
  <2>8. Total(past[k], ids) = Revenue(past[k], ThisYear)
    BY <2>6 DEF Revenue
  <2>9. Sum(It("thisYear")) <= Revenue(past[k], ThisYear)
    BY <1>0, <2>3, <2>6, <2>7, <2>8, TypesOfInvoices
  <2>10. ASSUME Len(past) = 1, \A i \in Of(db, "invoice") :
                                 HasRoom(db, i) /\ Has(db, TypeOf(db, i), "roomType")
         PROVE  Sum(It("thisYear")) = Revenue(db, ThisYear)
    <3>1. past[k] = db
      BY <1>1, <2>10
    <3>2. \A i \in ids : HasRoom(past[k], i) /\ Has(past[k], TypeOf(past[k], i), "roomType")
      BY <2>7, <2>10, <3>1
    <3>3. Sum(ByRoomType(past[k], ids)) = Total(past[k], ids)
      BY <1>0, <2>7, <3>2, TypesOfInvoices
    <3>4. QED
      BY <2>3, <2>6, <2>8, <3>1, <3>3
  <2>11. Sum(It("thisYear")) <= Revenue(db, ThisYear)
    <3>1. Revenue(past[k], ThisYear) \in Nat /\ Revenue(db, ThisYear) \in Nat
          /\ Revenue(past[k], ThisYear) <= Revenue(db, ThisYear)
      BY <1>1, <1>4, <1>5
    <3>2. Sum(It("thisYear")) \in Int
      BY <1>0, <2>3, <2>6, <2>7, TypesOfInvoices
    <3>3. \A x, y, z \in Int : x <= y /\ y <= z => x <= z
      OBVIOUS
    <3>4. QED
      BY <2>9, <3>1, <3>2, <3>3
  <2>12. QED
    BY <2>5, <2>10, <2>11 DEF lasts
<1>9. QED
  BY <1>6, <1>7, <1>8 DEF RevenueAddsUp

\* The invoices of an export only come: those of its last sheet are on its first, or were
\* inserted meanwhile.
LEMMA SoundExport == FigureInv => ExportAddsUp
<1> SUFFICES ASSUME FigureInv, Answered, ask.for = "export", ask.until = "begin"
             PROVE  Sum(It("byType"))
                      <= Total(db, It("invoices") \cup (Exported(db) \ Exported(First)))
  BY DEF ExportAddsUp
<1>0. HistoryInv /\ Lasting
  BY DEF FigureInv
<1>1. /\ Len(past) \in DOMAIN past /\ 1 \in DOMAIN past /\ First = past[1]
      /\ db = past[Len(past)] /\ DOMAIN past = 1 .. Len(past) /\ Len(past) \in Nat
  BY <1>0, Now DEF First, HistoryInv, HistoryType
<1>2. Names(<<"invoices", "byService", "byType">>) = {}
  BY DEF Answered, Due, ExportExcel
<1>3. <<"invoices", 0>> \in Read /\ <<"byType", 0>> \in Read
  <2> DEFINE names == <<"invoices", "byService", "byType">>
  <2>1. DOMAIN names = 1 .. 3 /\ 1 \in 1 .. 3 /\ 3 \in 1 .. 3 /\ names[1] = "invoices" /\ names[3] = "byType"
    OBVIOUS
  <2>2. Names(names) = {}
    BY <1>2
  <2> HIDE DEF names
  <2>3. \A k \in 1 .. 3 : <<names[k], 0>> \in Read
    BY <2>1, <2>2, NamesAreRead
  <2>4. QED
    BY <2>1, <2>3
<1>4. PICK a \in DOMAIN past : It("invoices") = Exported(past[a])
  BY <1>3, FigureRead DEF Figures, Figure
<1>5. PICK b \in DOMAIN past : It("byType") = ByRoomType(past[b], Exported(past[b]))
  BY <1>3, FigureRead DEF Figures, Figure
<1>6. ASSUME NEW k \in DOMAIN past, NEW m \in DOMAIN past, k <= m
      PROVE  Exported(past[k]) \subseteq Exported(past[m])
  <2>1. k = m \/ k < m
    BY <1>1, <1>6
  <2>2. ASSUME NEW i \in DOMAIN past[k], past[k][i].kind = "invoice"
        PROVE  i \in DOMAIN past[m] /\ past[m][i].kind = "invoice"
    <3>1. i \in DOMAIN past[m]
      BY <1>0, <2>1, <2>2 DEF Lasting
    <3>2. QED
      BY <1>0, <2>2, <3>1, SameDocument
  <2>3. QED
    BY <2>2 DEF Exported, Of
<1> DEFINE ids == Exported(past[b])
           all == It("invoices") \cup (Exported(db) \ Exported(First))
<1>7. Exported(past[1]) \subseteq It("invoices") /\ It("invoices") \subseteq Exported(db)
      /\ ids \subseteq Exported(db)
  BY <1>1, <1>4, <1>6
<1>8. ids \subseteq all /\ all \subseteq Exported(db)
  BY <1>1, <1>7
<1>9. ids \in SUBSET Of(past[b], "invoice") /\ all \in SUBSET Of(db, "invoice")
  BY <1>8 DEF Exported
<1> HIDE DEF ids, all
<1>10. Total(past[b], ids) = Part(Sold, ids) /\ Total(db, all) = Part(Sold, all)
  BY <1>0, <1>1, <1>9, SoldFacts
<1>11. Part(Sold, ids) \in Int /\ Part(Sold, all) \in Int /\ Part(Sold, ids) <= Part(Sold, all)
  <2>1. PICK D, f : D = Of(db, "invoice") /\ f = Sold
    OBVIOUS
  <2>2. IsFiniteSet(D) /\ f \in [D -> Nat] /\ all \in SUBSET D /\ ids \in SUBSET all
        /\ ids \in SUBSET D
    BY <1>0, <1>8, <1>9, <2>1, SoldFacts
  <2>3. Part(f, ids) <= Part(f, all) /\ Part(f, ids) \in Int /\ Part(f, all) \in Int
    BY <2>2, PartsGrow
  <2>4. QED
    BY <2>1, <2>3
<1>12. Sum(It("byType")) <= Part(Sold, ids) /\ Sum(It("byType")) \in Int
  BY <1>0, <1>5, <1>9, <1>10, TypesOfInvoices DEF ids
<1>13. Sum(It("byType")) <= Total(db, all)
  <2>1. \A x, y, z \in Int : x <= y /\ y <= z => x <= z
    OBVIOUS
  <2>2. QED
    BY <1>10, <1>11, <1>12, <2>1
<1>14. QED
  BY <1>13 DEF all

-----------------------------------------------------------------------------
(* Totals and their parts. *)

\* The documents that are not the same at two moments.
Differ(j, k) ==
  {i \in DOMAIN past[j] \cup DOMAIN past[k] :
     ~(i \in DOMAIN past[j] /\ i \in DOMAIN past[k] /\ past[j][i] = past[k][i])}

\* There is at most one for each change between them.
LEMMA FewDiffer ==
  ASSUME HistoryInv, NEW j \in DOMAIN past, NEW k \in DOMAIN past, j <= k
  PROVE  /\ IsFiniteSet(Differ(j, k)) /\ Cardinality(Differ(j, k)) \in Nat
         /\ Cardinality(Differ(j, k)) <= k - j
<1> DEFINE L == Len(past)
           Bad == {m \in Nat : j + m \in 1 .. L /\ ~(Cardinality(Differ(j, j + m)) <= m)}
<1>1. L \in Nat /\ DOMAIN past = 1 .. L
  BY Now
<1>2. ASSUME NEW m \in DOMAIN past PROVE IsFiniteSet(Differ(j, m)) /\ Cardinality(Differ(j, m)) \in Nat
  <2>1. IsFiniteSet(DOMAIN past[j]) /\ IsFiniteSet(DOMAIN past[m])
    BY DEF HistoryInv, Sound
  <2>2. IsFiniteSet(DOMAIN past[j] \cup DOMAIN past[m])
    BY <2>1, FS_Union
  <2>3. Differ(j, m) \in SUBSET (DOMAIN past[j] \cup DOMAIN past[m])
    BY DEF Differ
  <2>4. IsFiniteSet(Differ(j, m))
    BY <2>2, <2>3, FS_Subset
  <2>5. QED
    BY <2>4, FS_CardinalityType
<1> HIDE DEF L
<1>3. Bad = {}
  <2> SUFFICES ASSUME Bad # {} PROVE FALSE
    OBVIOUS
  <2>1. Bad \in SUBSET Nat
    OBVIOUS
  <2> HIDE DEF Bad
  <2>2. PICK m \in Bad : \A x \in Bad : m <= x
    BY <2>1, SmallestOf
  <2>3. m \in Nat /\ j + m \in 1 .. L /\ ~(Cardinality(Differ(j, j + m)) <= m)
    BY DEF Bad
  <2>4. CASE m = 0
    <3>1. PICK q : q = j + m
      OBVIOUS
    <3>2. q = j
      BY <1>1, <2>4, <3>1
    <3>3. Cardinality(Differ(j, q)) = 0
      <4>1. Differ(j, q) = {}
        BY <3>2 DEF Differ
      <4>2. QED
        BY <4>1, FS_EmptySet
    <3>4. 0 <= m
      BY <2>4
    <3>5. QED
      BY <2>3, <3>1, <3>3, <3>4
  <2>5. CASE m # 0
    <3>1. PICK p \in Nat, q \in Nat : p = j + (m - 1) /\ q = j + m /\ p = q - 1
      BY <1>1, <2>3, <2>5
    <3>2. p \in 1 .. L /\ q \in 1 .. L /\ q > 1 /\ m - 1 \in Nat /\ ~(m <= m - 1)
      BY <1>1, <2>3, <2>5, <3>1
    <3>3. m - 1 \notin Bad
      BY <2>2, <3>2
    <3>4. Cardinality(Differ(j, p)) <= m - 1
      BY <3>1, <3>2, <3>3 DEF Bad
    <3>5. PICK x : ButFor(x, past[p], past[q])
      BY <1>1, <3>1, <3>2 DEF HistoryInv, OneAtATime
    <3>6. Differ(j, q) \subseteq Differ(j, p) \cup {x}
      BY <3>5 DEF Differ, ButFor
    <3>7. IsFiniteSet(Differ(j, p)) /\ Cardinality(Differ(j, p)) \in Nat
          /\ IsFiniteSet(Differ(j, q)) /\ Cardinality(Differ(j, q)) \in Nat
      BY <1>1, <1>2, <3>2
    <3>8. PICK S : S = Differ(j, p)
      OBVIOUS
    <3>9. IsFiniteSet(S \cup {x})
          /\ Cardinality(S \cup {x}) = IF x \in S THEN Cardinality(S) ELSE Cardinality(S) + 1
      BY <3>7, <3>8, FS_AddElement
    <3>10. Cardinality(S) \in Nat /\ Cardinality(S) <= m - 1
      BY <3>4, <3>7, <3>8
    <3>11. Cardinality(S \cup {x}) \in Nat /\ Cardinality(S \cup {x}) <= m
      BY <2>3, <3>9, <3>10
    <3>12. Cardinality(Differ(j, q)) <= Cardinality(S \cup {x})
      BY <3>6, <3>8, <3>9, FS_Subset
    <3>13. \A u, v, w \in Nat : u <= v /\ v <= w => u <= w
      OBVIOUS
    <3>14. Cardinality(Differ(j, q)) <= m
      BY <2>3, <3>7, <3>11, <3>12, <3>13
    <3>15. QED
      BY <2>3, <3>1, <3>14
  <2>6. QED
    BY <2>4, <2>5
<1>4. k - j \in Nat /\ j + (k - j) = k /\ k - j \notin Bad
  <2> HIDE DEF Bad
  <2>1. QED
    BY <1>1, <1>3
<1>5. Cardinality(Differ(j, k)) <= k - j
  BY <1>1, <1>4
<1>6. QED
  BY <1>2, <1>5

\* Two numbers that lie no further apart than two moments.
Near(x, y, j, k) == x - y <= k - j /\ y - x <= k - j

\* Those of a kind of which a field has one of some values.
Among(base, kind, field, values) == {i \in Of(base, kind) : base[i][field] \in values}
Number(k, kind, field, values) == Cardinality(Among(past[k], kind, field, values))

\* Their number changes by one at a time.
LEMMA NumbersMove ==
  ASSUME HistoryInv, NEW j \in DOMAIN past, NEW k \in DOMAIN past, j <= k, NEW kind, NEW field, NEW values
  PROVE  /\ Number(j, kind, field, values) \in Nat /\ Number(k, kind, field, values) \in Nat
         /\ Near(Number(j, kind, field, values), Number(k, kind, field, values), j, k)
<1>1. PICK S, T, E : /\ S = Among(past[j], kind, field, values)
                     /\ T = Among(past[k], kind, field, values) /\ E = Differ(j, k)
  OBVIOUS
<1>2. S \subseteq DOMAIN past[j] /\ T \subseteq DOMAIN past[k]
      /\ S \subseteq T \cup E /\ T \subseteq S \cup E
  BY <1>1 DEF Among, Of, Differ
<1>3. IsFiniteSet(S) /\ IsFiniteSet(T)
  <2>1. IsFiniteSet(DOMAIN past[j]) /\ IsFiniteSet(DOMAIN past[k])
    BY DEF HistoryInv, Sound
  <2>2. QED
    BY <1>2, <2>1, FS_Subset
<1>4. IsFiniteSet(E) /\ Cardinality(E) \in Nat /\ Cardinality(E) <= k - j
  BY <1>1, FewDiffer
<1>5. /\ Cardinality(S) \in Nat /\ Cardinality(T) \in Nat
  BY <1>3, FS_CardinalityType
<1>6. ASSUME NEW A, NEW B, IsFiniteSet(A), IsFiniteSet(B), A \subseteq B \cup E
      PROVE  Cardinality(A) <= Cardinality(B) + Cardinality(E)
  <2>1. IsFiniteSet(B \cup E)
        /\ Cardinality(B \cup E) = Cardinality(B) + Cardinality(E) - Cardinality(B \cap E)
    BY <1>4, <1>6, FS_Union
  <2>2. IsFiniteSet(B \cap E) /\ Cardinality(A) <= Cardinality(B \cup E)
    <3>1. B \cap E \in SUBSET B /\ A \in SUBSET (B \cup E)
      BY <1>6
    <3>2. QED
      BY <1>6, <2>1, <3>1, FS_Subset
  <2>3. Cardinality(A) \in Nat /\ Cardinality(B) \in Nat /\ Cardinality(B \cap E) \in Nat
        /\ Cardinality(B \cup E) \in Nat
    BY <1>6, <2>1, <2>2, FS_CardinalityType
  <2>4. \A a, b, e, i, u \in Nat : u = b + e - i /\ a <= u => a <= b + e
    OBVIOUS
  <2>5. QED
    BY <1>4, <2>1, <2>2, <2>3, <2>4
<1>7. Cardinality(S) <= Cardinality(T) + Cardinality(E) /\ Cardinality(T) <= Cardinality(S) + Cardinality(E)
  BY <1>2, <1>3, <1>6
<1>8. j \in Nat /\ k \in Nat
  BY Now
<1>9. Near(Cardinality(S), Cardinality(T), j, k)
  <2>1. \A s, t, e \in Nat : e <= k - j /\ s <= t + e /\ t <= s + e => s - t <= k - j /\ t - s <= k - j
    BY <1>8
  <2>2. QED
    BY <1>4, <1>5, <1>7, <2>1 DEF Near
<1>10. QED
  BY <1>1, <1>5, <1>9 DEF Number

\* Of values that exclude each other, the numbers add up at any one moment.
LEMMA NumbersAdd ==
  ASSUME HistoryInv, NEW k \in DOMAIN past, NEW kind, NEW field, NEW values, NEW others,
         values \cap others = {}
  PROVE  Number(k, kind, field, values \cup others)
           = Number(k, kind, field, values) + Number(k, kind, field, others)
<1>1. PICK S, T : S = Among(past[k], kind, field, values) /\ T = Among(past[k], kind, field, others)
  OBVIOUS
<1>2. S \subseteq DOMAIN past[k] /\ T \subseteq DOMAIN past[k] /\ S \cap T = {}
      /\ Among(past[k], kind, field, values \cup others) = S \cup T
  BY <1>1 DEF Among, Of
<1>3. IsFiniteSet(S) /\ IsFiniteSet(T)
  <2>1. IsFiniteSet(DOMAIN past[k])
    BY DEF HistoryInv, Sound
  <2>2. QED
    BY <1>2, <2>1, FS_Subset
<1>4. Cardinality(S \cup T) = Cardinality(S) + Cardinality(T) - Cardinality({})
  BY <1>2, <1>3, FS_Union
<1>5. Cardinality(S) \in Nat /\ Cardinality(T) \in Nat /\ Cardinality({}) = 0
  BY <1>3, FS_CardinalityType, FS_EmptySet
<1>6. Cardinality(S \cup T) = Cardinality(S) + Cardinality(T)
  BY <1>4, <1>5
<1>7. QED
  BY <1>1, <1>2, <1>6 DEF Number

\* Those counted at three moments, and all of them at a fourth.
LEMMA ThreeReads ==
  ASSUME NEW x \in Nat, NEW y \in Nat, NEW z \in Nat, NEW n \in Nat, x <= y, y <= z, z <= n, x >= 1,
         NEW px \in Nat, NEW py \in Nat, NEW qy \in Nat, NEW pqy \in Nat, NEW pqz \in Nat,
         NEW rz \in Nat, NEW tz \in Nat, NEW tn \in Nat,
         pqy = py + qy, tz = pqz + rz,
         Near(px, py, x, y), Near(pqy, pqz, y, z), Near(tz, tn, z, n)
  PROVE  Between(-(n - 1), tn - px - qy - rz, n - 1)
BY DEF Near, Between

\* Bookings are of three statuses: counted one after the other, these miss the whole by the
\* number of changes, at most.
LEMMA StatusesInOrder ==
  ASSUME HistoryInv, NEW x \in DOMAIN past, NEW y \in DOMAIN past, NEW z \in DOMAIN past, x <= y, y <= z,
         NEW p, NEW q, NEW r, p # q, q # r, p # r, Statuses = {p, q, r}
  PROVE  Between(-(Len(past) - 1),
                 Cardinality(Of(db, "booking")) - Number(x, "booking", "status", {p})
                   - Number(y, "booking", "status", {q}) - Number(z, "booking", "status", {r}),
                 Len(past) - 1)
<1> DEFINE N(k, values) == Number(k, "booking", "status", values)
<1>1. PICK n \in Nat : n = Len(past) /\ n \in DOMAIN past /\ db = past[n]
  BY Now
<1>2. /\ x \in Nat /\ y \in Nat /\ z \in Nat /\ z <= n /\ x >= 1
  BY <1>1, Now
<1>3. PICK px \in Nat, py \in Nat, qy \in Nat, pqy \in Nat, pqz \in Nat, rz \in Nat, tz \in Nat, tn \in Nat :
        /\ px = N(x, {p}) /\ py = N(y, {p}) /\ qy = N(y, {q}) /\ pqy = N(y, {p, q}) /\ pqz = N(z, {p, q})
        /\ rz = N(z, {r}) /\ tz = N(z, {p, q, r}) /\ tn = N(n, {p, q, r})
  <2>1. \A k \in DOMAIN past : k <= k
    BY Now
  <2>2. \A k \in DOMAIN past : \A values : N(k, values) \in Nat
    BY <2>1, NumbersMove
  <2> HIDE DEF N
  <2>3. QED
    BY <1>1, <2>2
<1>4. pqy = py + qy
  <2>1. {p, q} = {p} \cup {q} /\ {p} \cap {q} = {}
    OBVIOUS
  <2>2. N(y, {p} \cup {q}) = N(y, {p}) + N(y, {q})
    BY <2>1, NumbersAdd
  <2> HIDE DEF N
  <2>3. QED
    BY <1>3, <2>1, <2>2
<1>5. tz = pqz + rz
  <2>1. {p, q, r} = {p, q} \cup {r} /\ {p, q} \cap {r} = {}
    OBVIOUS
  <2>2. N(z, {p, q} \cup {r}) = N(z, {p, q}) + N(z, {r})
    BY <2>1, NumbersAdd
  <2> HIDE DEF N
  <2>3. QED
    BY <1>3, <2>1, <2>2
<1>6. Near(px, py, x, y) /\ Near(pqy, pqz, y, z) /\ Near(tz, tn, z, n)
  <2>1. Near(N(x, {p}), N(y, {p}), x, y)
    BY NumbersMove
  <2>2. Near(N(y, {p, q}), N(z, {p, q}), y, z)
    BY NumbersMove
  <2>3. Near(N(z, {p, q, r}), N(n, {p, q, r}), z, n)
    BY <1>1, <1>2, NumbersMove
  <2> HIDE DEF N
  <2>4. QED
    BY <1>3, <2>1, <2>2, <2>3
<1>7. Of(db, "booking") = Among(past[n], "booking", "status", {p, q, r})
  <2>1. \A i \in DOMAIN db : IsVersion(scene, i, db[i])
    BY Now
  <2>2. \A i \in DOMAIN db : db[i].kind = "booking" => db[i].status \in Statuses
    BY <2>1, VersionFacts DEF HistoryInv, HistoryType
  <2>3. QED
    BY <1>1, <2>2 DEF Among, Of
<1>8. tn = Cardinality(Of(db, "booking"))
  BY <1>3, <1>7 DEF Number
<1>9. Between(-(n - 1), tn - px - qy - rz, n - 1)
  BY <1>2, <1>3, <1>4, <1>5, <1>6, ThreeReads
<1>10. QED
  BY <1>1, <1>3, <1>8, <1>9

\* Bookings by their statuses.
LEMMA SoundStatuses ==
  ASSUME FigureInv, Answered, ask.for = "statusCount"
  PROVE  Between(-(Len(past) - 1),
                 Cardinality(Of(db, "booking")) - Cardinality(It("pending"))
                   - Cardinality(It("staying")) - Cardinality(It("left")),
                 Len(past) - 1)
<1> DEFINE N(k, value) == Number(k, "booking", "status", {value})
<1>0. HistoryInv /\ DOMAIN past \subseteq Nat
  BY Now DEF FigureInv
<1>1. Together({"pending", "staying", "left"}) = {}
  BY DEF Answered, Due
<1>2. <<"pending", 0>> \in Read /\ <<"staying", 0>> \in Read /\ <<"left", 0>> \in Read
  BY <1>1 DEF Together
<1>3. \A k \in DOMAIN past : \A value :
        N(k, value) = Cardinality({b \in Of(past[k], "booking") : past[k][b].status = value})
  <2> SUFFICES ASSUME NEW k \in DOMAIN past, NEW value
               PROVE  Among(past[k], "booking", "status", {value})
                        = {b \in Of(past[k], "booking") : past[k][b].status = value}
    BY DEF Number
  <2>1. QED
    BY DEF Among
<1>4. PICK a \in DOMAIN past : Cardinality(It("pending")) = N(a, "Pending")
  <2>1. PICK k \in DOMAIN past : It("pending") = {d \in Of(past[k], "booking") : past[k][d].status = "Pending"}
    BY <1>2, FigureRead DEF Figures, Figure
  <2> HIDE DEF N
  <2>2. QED
    BY <1>3, <2>1
<1>5. PICK b \in DOMAIN past : Cardinality(It("staying")) = N(b, "Checked in")
  <2>1. PICK k \in DOMAIN past : It("staying") = {d \in Of(past[k], "booking") : past[k][d].status = "Checked in"}
    BY <1>2, FigureRead DEF Figures, Figure
  <2> HIDE DEF N
  <2>2. QED
    BY <1>3, <2>1
<1>6. PICK c \in DOMAIN past : Cardinality(It("left")) = N(c, "Checked out")
  <2>1. PICK k \in DOMAIN past : It("left") = {d \in Of(past[k], "booking") : past[k][d].status = "Checked out"}
    BY <1>2, FigureRead DEF Figures, Figure
  <2> HIDE DEF N
  <2>2. QED
    BY <1>3, <2>1
<1>7. \A k \in DOMAIN past : \A value : N(k, value) \in Nat
  <2>1. \A k \in DOMAIN past : k <= k
    BY <1>0
  <2>2. QED
    BY <1>0, <2>1, NumbersMove
<1>8. IsFiniteSet(Of(db, "booking")) /\ Cardinality(Of(db, "booking")) \in Nat
  <2>1. IsFiniteSet(DOMAIN db) /\ Of(db, "booking") \in SUBSET DOMAIN db
    BY <1>0, Now DEF Of
  <2>2. QED
    BY <2>1, FS_Subset, FS_CardinalityType
<1>9. PICK t \in Nat, u \in Nat, v \in Nat, w \in Nat, h \in Nat :
        /\ t = Cardinality(Of(db, "booking"))
        /\ u = N(a, "Pending") /\ v = N(b, "Checked in") /\ w = N(c, "Checked out") /\ h = Len(past)
  <2> HIDE DEF N
  <2>1. Len(past) \in Nat
    BY <1>0, Now
  <2>2. QED
    BY <1>7, <1>8, <2>1
\* Whichever was read first.
<1>10. ASSUME NEW x \in DOMAIN past, NEW y \in DOMAIN past, NEW z \in DOMAIN past, x <= y, y <= z,
              NEW p, NEW q, NEW r, p # q, q # r, p # r, Statuses = {p, q, r}
       PROVE  Between(-(h - 1), t - N(x, p) - N(y, q) - N(z, r), h - 1)
  BY <1>0, <1>9, <1>10, StatusesInOrder
<1> HIDE DEF N
<1>11. Statuses = {"Pending", "Checked in", "Checked out"}
  BY DEF Statuses
<1>12. Between(-(h - 1), t - u - v - w, h - 1)
  <2>1. ASSUME a <= b, b <= c PROVE Between(-(h - 1), t - u - v - w, h - 1)
    BY <1>9, <1>10, <1>11, <2>1
  <2>2. ASSUME a <= c, c <= b PROVE Between(-(h - 1), t - u - v - w, h - 1)
    <3>1. Between(-(h - 1), t - u - w - v, h - 1)
      BY <1>9, <1>10, <1>11, <2>2
    <3>2. t - u - w - v = t - u - v - w
      OBVIOUS
    <3>3. QED
      BY <3>1, <3>2
  <2>3. ASSUME b <= a, a <= c PROVE Between(-(h - 1), t - u - v - w, h - 1)
    <3>1. Between(-(h - 1), t - v - u - w, h - 1)
      BY <1>9, <1>10, <1>11, <2>3
    <3>2. t - v - u - w = t - u - v - w
      OBVIOUS
    <3>3. QED
      BY <3>1, <3>2
  <2>4. ASSUME b <= c, c <= a PROVE Between(-(h - 1), t - u - v - w, h - 1)
    <3>1. Between(-(h - 1), t - v - w - u, h - 1)
      BY <1>9, <1>10, <1>11, <2>4
    <3>2. t - v - w - u = t - u - v - w
      OBVIOUS
    <3>3. QED
      BY <3>1, <3>2
  <2>5. ASSUME c <= a, a <= b PROVE Between(-(h - 1), t - u - v - w, h - 1)
    <3>1. Between(-(h - 1), t - w - u - v, h - 1)
      BY <1>9, <1>10, <1>11, <2>5
    <3>2. t - w - u - v = t - u - v - w
      OBVIOUS
    <3>3. QED
      BY <3>1, <3>2
  <2>6. ASSUME c <= b, b <= a PROVE Between(-(h - 1), t - u - v - w, h - 1)
    <3>1. Between(-(h - 1), t - w - v - u, h - 1)
      BY <1>9, <1>10, <1>11, <2>6
    <3>2. t - w - v - u = t - u - v - w
      OBVIOUS
    <3>3. QED
      BY <3>1, <3>2
  <2>7. \A i, j \in Nat : i <= j \/ j <= i
    OBVIOUS
  <2>8. a \in Nat /\ b \in Nat /\ c \in Nat
    BY <1>0
  <2>9. QED
    BY <2>1, <2>2, <2>3, <2>4, <2>5, <2>6, <2>7, <2>8
<1>13. QED
  BY <1>4, <1>5, <1>6, <1>9, <1>12

\* The staff and its two kinds.
LEMMA SoundStaff ==
  ASSUME FigureInv, Answered, ask.for = "staffCount"
  PROVE  Between(-(Len(past) - 1),
                 Cardinality(It("staff")) - Cardinality(It("receptionists"))
                   - Cardinality(It("serviceStaff")),
                 Len(past) - 1)
<1> DEFINE N(k, roles) == Number(k, "user", "role", roles)
           R == {"receptionist"}
           V == {"service_staff"}
<1>0. HistoryInv /\ DOMAIN past = 1 .. Len(past) /\ Len(past) \in Nat
  BY Now DEF FigureInv
<1>1. Together({"staff", "receptionists", "serviceStaff"}) = {}
  BY DEF Answered, Due
<1>2. <<"staff", 0>> \in Read /\ <<"receptionists", 0>> \in Read /\ <<"serviceStaff", 0>> \in Read
  BY <1>1 DEF Together
<1>3. \A k \in DOMAIN past :
        /\ N(k, R \cup V) = Cardinality({u \in Of(past[k], "user") : past[k][u].role \in Staff})
        /\ N(k, R) = Cardinality({u \in Of(past[k], "user") : past[k][u].role = "receptionist"})
        /\ N(k, V) = Cardinality({u \in Of(past[k], "user") : past[k][u].role = "service_staff"})
  <2> SUFFICES ASSUME NEW k \in DOMAIN past
               PROVE  /\ Among(past[k], "user", "role", R \cup V)
                           = {u \in Of(past[k], "user") : past[k][u].role \in Staff}
                      /\ Among(past[k], "user", "role", R)
                           = {u \in Of(past[k], "user") : past[k][u].role = "receptionist"}
                      /\ Among(past[k], "user", "role", V)
                           = {u \in Of(past[k], "user") : past[k][u].role = "service_staff"}
    BY DEF Number
  <2>1. R \cup V = Staff
    BY DEF Staff
  <2>2. QED
    BY <2>1 DEF Among
<1>4. PICK a \in DOMAIN past : Cardinality(It("staff")) = N(a, R \cup V)
  <2>1. PICK k \in DOMAIN past : It("staff") = {u \in Of(past[k], "user") : past[k][u].role \in Staff}
    BY <1>2, FigureRead DEF Figures, Figure
  <2> HIDE DEF N, R, V
  <2>2. QED
    BY <1>3, <2>1
<1>5. PICK b \in DOMAIN past : Cardinality(It("receptionists")) = N(b, R)
  <2>1. PICK k \in DOMAIN past : It("receptionists") = {u \in Of(past[k], "user") : past[k][u].role = "receptionist"}
    BY <1>2, FigureRead DEF Figures, Figure
  <2> HIDE DEF N, R, V
  <2>2. QED
    BY <1>3, <2>1
<1>6. PICK c \in DOMAIN past : Cardinality(It("serviceStaff")) = N(c, V)
  <2>1. PICK k \in DOMAIN past : It("serviceStaff") = {u \in Of(past[k], "user") : past[k][u].role = "service_staff"}
    BY <1>2, FigureRead DEF Figures, Figure
  <2> HIDE DEF N, R, V
  <2>2. QED
    BY <1>3, <2>1
<1>7. \A k \in DOMAIN past : N(k, R \cup V) = N(k, R) + N(k, V)
  <2>1. R \cap V = {}
    OBVIOUS
  <2>2. QED
    BY <1>0, <2>1, NumbersAdd
<1>8. \A j, k \in DOMAIN past : j <= k => \A roles :
        N(j, roles) \in Nat /\ N(k, roles) \in Nat /\ Near(N(j, roles), N(k, roles), j, k)
  BY <1>0, NumbersMove
<1> HIDE DEF N, R, V
<1>9. PICK ra \in Nat, rb \in Nat, rc \in Nat, va \in Nat, vb \in Nat, vc \in Nat,
           sa \in Nat, sb \in Nat, sc \in Nat :
        /\ ra = N(a, R) /\ rb = N(b, R) /\ rc = N(c, R)
        /\ va = N(a, V) /\ vb = N(b, V) /\ vc = N(c, V)
        /\ sa = N(a, R \cup V) /\ sb = N(b, R \cup V) /\ sc = N(c, R \cup V)
  <2>1. \A k \in DOMAIN past : k <= k
    BY <1>0
  <2>2. \A k \in DOMAIN past : \A roles : N(k, roles) \in Nat
    BY <1>8, <2>1
  <2>3. QED
    BY <2>2
<1>10. sa = ra + va /\ sb = rb + vb /\ sc = rc + vc
  BY <1>7, <1>9
<1>11. /\ a <= b => Near(sa, sb, a, b) /\ Near(ra, rb, a, b)
       /\ b <= a => Near(sb, sa, b, a) /\ Near(rb, ra, b, a)
       /\ a <= c => Near(sa, sc, a, c) /\ Near(va, vc, a, c)
       /\ c <= a => Near(sc, sa, c, a) /\ Near(vc, va, c, a)
       /\ b <= c => Near(rb, rc, b, c) /\ Near(vb, vc, b, c)
       /\ c <= b => Near(rc, rb, c, b) /\ Near(vc, vb, c, b)
  BY <1>8, <1>9
<1>12. PICK n \in Nat : n = Len(past) /\ a \in 1 .. n /\ b \in 1 .. n /\ c \in 1 .. n
  BY <1>0
<1>13. sa - rb - vc <= n - 1 /\ -(n - 1) <= sa - rb - vc
  <2>1. CASE a <= b /\ b <= c
    <3>1. Near(sa, sb, a, b) /\ Near(vb, vc, b, c)
      BY <1>11, <2>1
    <3>2. QED
      BY <1>10, <1>12, <2>1, <3>1 DEF Near
  <2>2. CASE a <= c /\ c <= b
    <3>1. Near(sa, sc, a, c) /\ Near(rc, rb, c, b)
      BY <1>11, <2>2
    <3>2. QED
      BY <1>10, <1>12, <2>2, <3>1 DEF Near
  <2>3. CASE b <= a /\ a <= c
    <3>1. Near(rb, ra, b, a) /\ Near(va, vc, a, c)
      BY <1>11, <2>3
    <3>2. QED
      BY <1>10, <1>12, <2>3, <3>1 DEF Near
  <2>4. CASE b <= c /\ c <= a
    <3>1. Near(sc, sa, c, a) /\ Near(rb, rc, b, c)
      BY <1>11, <2>4
    <3>2. QED
      BY <1>10, <1>12, <2>4, <3>1 DEF Near
  <2>5. CASE c <= a /\ a <= b
    <3>1. Near(ra, rb, a, b) /\ Near(vc, va, c, a)
      BY <1>11, <2>5
    <3>2. QED
      BY <1>10, <1>12, <2>5, <3>1 DEF Near
  <2>6. CASE c <= b /\ b <= a
    <3>1. Near(sb, sa, b, a) /\ Near(vc, vb, c, b)
      BY <1>11, <2>6
    <3>2. QED
      BY <1>10, <1>12, <2>6, <3>1 DEF Near
  <2>7. QED
    BY <1>12, <2>1, <2>2, <2>3, <2>4, <2>5, <2>6
<1>14. QED
  BY <1>4, <1>5, <1>6, <1>9, <1>12, <1>13 DEF Between

\* Who is on the sheets of both kinds of staff has changed his role.
LEMMA SoundSheets ==
  ASSUME FigureInv, Answered, ask.for = "exportStaff"
  PROVE  Between(-(Len(past) - 1), Cardinality(It("serviceStaff") \cap It("receptionists")), Len(past) - 1)
<1>0. HistoryInv /\ DOMAIN past = 1 .. Len(past) /\ Len(past) \in Nat
  BY Now DEF FigureInv
<1>1. Names(<<"serviceStaff", "receptionists">>) = {}
  BY DEF Answered, Due, ExportStaff
<1>2. <<"serviceStaff", 0>> \in Read /\ <<"receptionists", 0>> \in Read
  <2> DEFINE names == <<"serviceStaff", "receptionists">>
  <2>1. DOMAIN names = 1 .. 2 /\ 1 \in 1 .. 2 /\ 2 \in 1 .. 2
        /\ names[1] = "serviceStaff" /\ names[2] = "receptionists"
    OBVIOUS
  <2>2. Names(names) = {}
    BY <1>1
  <2> HIDE DEF names
  <2>3. \A k \in 1 .. 2 : <<names[k], 0>> \in Read
    BY <2>1, <2>2, NamesAreRead
  <2>4. QED
    BY <2>1, <2>3
<1>3. PICK a \in DOMAIN past :
        It("serviceStaff") = {u \in Of(past[a], "user") : past[a][u].role = "service_staff"}
  BY <1>2, FigureRead DEF Figures, Figure
<1>4. PICK b \in DOMAIN past :
        It("receptionists") = {u \in Of(past[b], "user") : past[b][u].role = "receptionist"}
  BY <1>2, FigureRead DEF Figures, Figure
<1>5. PICK both : both = It("serviceStaff") \cap It("receptionists")
  OBVIOUS
<1>6. both \in SUBSET Differ(a, b) /\ both \in SUBSET Differ(b, a)
  <2>1. \A u \in both : /\ u \in DOMAIN past[a] /\ past[a][u].role = "service_staff"
                        /\ u \in DOMAIN past[b] /\ past[b][u].role = "receptionist"
    BY <1>3, <1>4, <1>5 DEF Of
  <2>2. QED
    BY <2>1 DEF Differ
<1>7. ASSUME NEW j \in DOMAIN past, NEW k \in DOMAIN past, j <= k, both \in SUBSET Differ(j, k)
      PROVE  Cardinality(both) \in Nat /\ Cardinality(both) <= Len(past) - 1
  <2>1. /\ IsFiniteSet(Differ(j, k)) /\ Cardinality(Differ(j, k)) \in Nat
        /\ Cardinality(Differ(j, k)) <= k - j
    BY <1>0, <1>7, FewDiffer
  <2>2. IsFiniteSet(both) /\ Cardinality(both) <= Cardinality(Differ(j, k))
    BY <1>7, <2>1, FS_Subset
  <2>3. Cardinality(both) \in Nat
    BY <2>2, FS_CardinalityType
  <2>4. k - j <= Len(past) - 1
    BY <1>0, <1>7
  <2>5. \A x, y \in Nat : x <= y /\ y <= k - j => x <= Len(past) - 1
    BY <1>0, <2>4
  <2>6. QED
    BY <2>1, <2>2, <2>3, <2>5
<1>8. a <= b \/ b <= a
  BY <1>0
<1>9. Cardinality(both) \in Nat /\ Cardinality(both) <= Len(past) - 1
  BY <1>6, <1>7, <1>8
<1>10. Len(past) - 1 \in Int /\ -(Len(past) - 1) <= 0
  BY <1>0, <1>4
<1>11. PICK x \in Nat, n \in Nat : x = Cardinality(both) /\ n = Len(past)
  BY <1>0, <1>9
<1>12. Between(-(n - 1), x, n - 1)
  BY <1>9, <1>10, <1>11 DEF Between
<1>13. QED
  BY <1>5, <1>11, <1>12

\* Totals miss the sum of their parts by the number of changes, at most.
LEMMA SoundParts == FigureInv => PartsAddUp
<1> SUFFICES ASSUME FigureInv PROVE PartsAddUp
  OBVIOUS
<1>1. Len(past) \in Nat /\ Len(past) >= 1
  BY Now DEF FigureInv, HistoryInv, HistoryType
<1>2. Between(-(Len(past) - 1), 0, Len(past) - 1)
  BY <1>1 DEF Between
<1>3. QED
  BY <1>2, SoundStatuses, SoundStaff, SoundSheets DEF PartsAddUp

\* Of each room somebody sleeps in tonight there is a booking, and each booking is counted once.
LEMMA SoundRooms == FigureInv => AvailableIsNotOverstated
<1> SUFFICES ASSUME FigureInv, Answered, ask.for = "availability"
             PROVE  Cardinality(It("rooms")) - Cardinality(It("bookedToday")) <=
                      Cardinality({r \in It("rooms") : \A s \in StaysIn(First, r) : Began \notin Nights(s)})
  BY DEF AvailableIsNotOverstated
<1>0. HistoryInv /\ Lasting
  BY DEF FigureInv
<1>1. /\ DOMAIN past \subseteq Nat /\ 1 \in DOMAIN past /\ First = past[1]
      /\ \A k \in DOMAIN past : k = 1 \/ 1 < k
  BY <1>0, Now DEF First, HistoryInv, HistoryType
<1>2. Names(<<"rooms", "bookedToday">>) = {}
  BY DEF Answered, Due
<1>3. <<"rooms", 0>> \in Read /\ <<"bookedToday", 0>> \in Read
  <2> DEFINE names == <<"rooms", "bookedToday">>
  <2>1. DOMAIN names = 1 .. 2 /\ 1 \in 1 .. 2 /\ 2 \in 1 .. 2
        /\ names[1] = "rooms" /\ names[2] = "bookedToday"
    OBVIOUS
  <2>2. Names(names) = {}
    BY <1>2
  <2> HIDE DEF names
  <2>3. \A k \in 1 .. 2 : <<names[k], 0>> \in Read
    BY <2>1, <2>2, NamesAreRead
  <2>4. QED
    BY <2>1, <2>3
<1>4. PICK a \in DOMAIN past : It("rooms") = Of(past[a], "room")
  BY <1>3, FigureRead DEF Figures, Figure
<1>5. PICK b \in DOMAIN past : It("bookedToday") = BookedToday(past[b])
  BY <1>3, FigureRead DEF Figures, Figure
<1> DEFINE Slept(r) == \E c \in Of(past[1], "booking") :
                         past[1][c].room = r /\ Began \in Nights(past[1][c])
<1>6. PICK rooms, booked, taken, free :
        /\ rooms = It("rooms") /\ booked = It("bookedToday")
        /\ taken = {r \in rooms : Slept(r)} /\ free = {r \in rooms : ~Slept(r)}
  OBVIOUS
<1>7. free = {r \in It("rooms") : \A s \in StaysIn(First, r) : Began \notin Nights(s)}
  BY <1>1, <1>6 DEF StaysIn
<1>8. IsFiniteSet(rooms) /\ IsFiniteSet(booked)
  <2>1. IsFiniteSet(DOMAIN past[a]) /\ IsFiniteSet(DOMAIN past[b])
    BY <1>0 DEF HistoryInv, Sound
  <2>2. rooms \in SUBSET DOMAIN past[a] /\ booked \in SUBSET DOMAIN past[b]
    BY <1>4, <1>5, <1>6 DEF Of, BookedToday
  <2>3. QED
    BY <2>1, <2>2, FS_Subset
\* Who sleeps there tonight is among those booked today.
<1>9. ASSUME NEW r, Slept(r) PROVE \E c \in booked : past[b][c].room = r
  <2>1. PICK c : /\ c \in DOMAIN past[1] /\ past[1][c].kind = "booking"
                 /\ past[1][c].room = r /\ Began \in Nights(past[1][c])
    BY <1>9 DEF Of
  <2>2. c \in DOMAIN past[b]
    BY <1>0, <1>1, <2>1 DEF Lasting
  <2>3. PICK s : s = past[1][c]
    OBVIOUS
  <2>4. /\ past[b][c].kind = "booking" /\ past[b][c].room = r
        /\ past[b][c].from = s.from /\ past[b][c].to = s.to
    BY <1>0, <1>1, <2>1, <2>2, <2>3, SameDocument
  <2>5. s.from \in Nat /\ s.to \in Nat
    <3>1. IsVersion(scene, c, s) /\ scene \in Scenarios
      BY <1>0, <1>1, <2>1, <2>3 DEF HistoryInv, HistoryType, Sound
    <3>2. QED
      BY <2>1, <2>3, <3>1, VersionFacts
  <2>6. PICK f \in Nat, t \in Nat, x \in 0 .. 2, y \in 0 .. 2 :
          /\ f = DayOf(s.from) /\ s.from = 3 * f + x
          /\ t = DayOf(s.to) /\ s.to = 3 * t + y
    <3>1. /\ DayOf(s.from) \in Nat /\ s.from % 3 \in 0 .. 2 /\ s.from = 3 * DayOf(s.from) + (s.from % 3)
          /\ DayOf(s.to) \in Nat /\ s.to % 3 \in 0 .. 2 /\ s.to = 3 * DayOf(s.to) + (s.to % 3)
      BY <2>5, DayOfMoment
    <3>2. \E f \in Nat, x \in 0 .. 2 : f = DayOf(s.from) /\ s.from = 3 * f + x
      BY <3>1
    <3>3. \E t \in Nat, y \in 0 .. 2 : t = DayOf(s.to) /\ s.to = 3 * t + y
      BY <3>1
    <3>4. QED
      BY <3>2, <3>3
  <2>7. Began \in f .. t - 1
    BY <2>1, <2>3, <2>6 DEF Nights
  <2>8. Began \in Nat
    BY <1>0, QueriesAssumption DEF Began, HistoryInv, HistoryType
  <2>9. 3 * f + x <= 3 * Began + 3 /\ 3 * t + y >= 3 * Began
    BY <2>6, <2>7, <2>8
  <2>10. past[b][c].from <= Today + 3 /\ past[b][c].to >= Today
    BY <2>4, <2>6, <2>9 DEF Today
  <2>11. QED
    BY <1>5, <1>6, <2>2, <2>4, <2>10 DEF BookedToday, Of
<1> HIDE DEF Slept
<1>10. IsFiniteSet(taken) /\ Cardinality(taken) <= Cardinality(booked)
  <2> DEFINE those == {c \in booked : past[b][c].room \in taken}
             room == [c \in those |-> past[b][c].room]
  <2>1. IsFiniteSet(those) /\ Cardinality(those) <= Cardinality(booked)
    BY <1>8, FS_Subset
  <2>2. room \in Surjection(those, taken)
    <3>1. room \in [those -> taken]
      OBVIOUS
    <3>2. \A r \in taken : \E c \in those : room[c] = r
      <4> SUFFICES ASSUME NEW r \in taken PROVE \E c \in those : room[c] = r
        OBVIOUS
      <4>1. PICK c \in booked : past[b][c].room = r
        BY <1>6, <1>9
      <4>2. c \in those /\ room[c] = r
        BY <4>1
      <4>3. QED
        BY <4>2
    <3>3. QED
      BY <3>1, <3>2 DEF Surjection
  <2> HIDE DEF those, room
  <2>3. IsFiniteSet(taken) /\ Cardinality(taken) <= Cardinality(those)
    BY <2>1, <2>2, FS_Surjection
  <2>4. Cardinality(taken) \in Nat /\ Cardinality(those) \in Nat /\ Cardinality(booked) \in Nat
    BY <1>8, <2>1, <2>3, FS_CardinalityType
  <2>5. \A u, v, w \in Nat : u <= v /\ v <= w => u <= w
    OBVIOUS
  <2>6. QED
    BY <2>1, <2>3, <2>4, <2>5
<1>11. Cardinality(rooms) = Cardinality(taken) + Cardinality(free)
  <2>1. IsFiniteSet(free) /\ taken \cap free = {} /\ taken \cup free = rooms
    <3>1. free \in SUBSET rooms
      BY <1>6
    <3>2. QED
      BY <1>6, <1>8, <3>1, FS_Subset
  <2>2. Cardinality(taken \cup free) = Cardinality(taken) + Cardinality(free) - Cardinality(taken \cap free)
    BY <1>10, <2>1, FS_Union
  <2>3. Cardinality(taken \cap free) = 0
    BY <2>1, FS_EmptySet
  <2>4. Cardinality(taken) \in Nat /\ Cardinality(free) \in Nat
    BY <1>10, <2>1, FS_CardinalityType
  <2>5. \A u, v \in Nat : u + v - 0 = u + v
    OBVIOUS
  <2>6. QED
    BY <2>1, <2>2, <2>3, <2>4, <2>5
<1>12. Cardinality(taken) \in Nat /\ Cardinality(free) \in Nat /\ Cardinality(booked) \in Nat
  <2>1. free \in SUBSET rooms
    BY <1>6
  <2>2. IsFiniteSet(free)
    BY <1>8, <2>1, FS_Subset
  <2>3. QED
    BY <1>8, <1>10, <2>2, FS_CardinalityType
<1>13. Cardinality(rooms) - Cardinality(booked) <= Cardinality(free)
  <2>1. \A t, f, n \in Nat : t <= n => (t + f) - n <= f
    OBVIOUS
  <2>2. QED
    BY <1>10, <1>11, <1>12, <2>1
<1>14. QED
  BY <1>6, <1>7, <1>13

\* The numbers of the dashboard: revenue is none that never was, of days, months, years and
\* types of rooms; the sheets of an export differ by what was inserted meanwhile, at most; totals
\* miss their parts by no more than what changed meanwhile; no room is promised that is slept in (admin-dashboard.service.ts, whose
\* reads are in no transaction).
THEOREM FiguresAlwaysAddUp == Spec => []FiguresAddUp
<1>1. FigureInv => FiguresAddUp
  BY SoundRevenue, SoundExport, SoundParts, SoundRooms DEF FiguresAddUp
<1>2. QED
  BY <1>1, FiguresAreSound, PTL
=============================================================================
