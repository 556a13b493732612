----------------------------- MODULE RecordProofs -----------------------------
(* Theorems about what is kept of single posts and of the organizations and persons that  *)
(* they name: SourceRevisions, EntityCatalog, MentionGraph and PeriodReports, alone and   *)
(* composed (MCRecords), for every number of posts, rows, groups, writers and readers.    *)
EXTENDS MCRecords, FiniteSetTheorems, WellFoundedInduction, TLAPS

-----------------------------------------------------------------------------
(* Source posts and their history. *)

\* The revisions of a post with this body: no clock has two, none after the first has none,
\* and the current one starts after all others have ended.
VersionsHang(kept, body) ==
    /\ \A time \in Times : \A x, y \in kept : Covers(x, time) /\ Covers(y, time) => x = y
    /\ \A x \in kept : \A time \in x.from .. MaxTime : \E y \in kept : Covers(y, time)
    /\ \E last \in kept : /\ last.to = Open /\ last.body = body
                          /\ \A x \in kept : x = last \/ x.to <= last.from

\* The Voices of a post with this primary one: what is closed is past, and a primary one
\* is spoken at every clock.
VoicesHang(kept, voice) ==
    /\ \A x \in kept : x.to = Open \/ x.to <= now
    /\ \A time \in Times : \A x, y \in kept :
           Covers(x, time) /\ Covers(y, time) /\
              (x.voice = y.voice \/ (x.evidence = Primary /\ y.evidence = Primary)) => x = y
    /\ \A time \in Times : \E x \in kept : Covers(x, time) /\ x.evidence = Primary
    /\ \E last \in kept : last.to = Open /\ last.evidence = Primary /\ last.voice = voice

\* What these revisions and Voices tell of a clock.
BodiesOf(kept, clock) == {x.body : x \in {y \in kept : Covers(y, clock)}}
VoicesOf(kept, clock) ==
    {[voice |-> x.voice, evidence |-> x.evidence] : x \in {y \in kept : Covers(y, clock)}}

\* Revisions and Voices after those current, or ending, are closed and one is added.
NextVersions(kept, body, time) ==
    Close(kept, Current(kept), time) \cup {[body |-> body, from |-> time, to |-> Open]}
NextVoices(kept, ending, voice, truth) ==
    Close(kept, ending, now)
        \cup {[voice |-> voice, evidence |-> truth, from |-> now, to |-> Open]}

RevisionTypes ==
    /\ now \in Times
    /\ post \in [Imported -> Records]
    /\ revisions \in [Imported -> SUBSET Revisions]
    /\ voices \in [Imported -> SUBSET Assignments]
    /\ import \in [Importers -> Imports]

RevisionInv ==
    /\ RevisionTypes
    /\ \A i \in Importers : \A p \in import[i].left : import[i].rows[p].there
    /\ \A p \in Imported :
          IF post[p].there
          THEN VersionsHang(revisions[p], post[p].body) /\ VoicesHang(voices[p], post[p].voice)
          ELSE revisions[p] = {} /\ voices[p] = {}

\* What the next revisions of a post are after a statement with this body and clock.
VersionJoins(kept, next, body, time) ==
    /\ next \in SUBSET Revisions /\ VersionsHang(next, body)
    /\ \A clock \in Times : clock < time => BodiesOf(next, clock) = BodiesOf(kept, clock)

LEMMA VersionAdded ==
    ASSUME NEW kept \in SUBSET Revisions, NEW old, VersionsHang(kept, old),
           NEW body \in Bodies, NEW time \in Times,
           NEW next, next = NextVersions(kept, body, time),
           Ordered(next)
    PROVE  VersionJoins(kept, next, body, time)
<1>1. MaxTime \in Nat /\ time \in Nat /\ time <= MaxTime /\ time < Open /\ Open \in Nat
  BY RevisionTime DEF Times, Open
<1>2. PICK last \in kept : /\ last.to = Open /\ last.body = old
                           /\ \A x \in kept : x = last \/ x.to <= last.from
  BY DEF VersionsHang
<1>3. \A x \in kept : x \in Revisions /\ x.from \in Nat /\ x.to \in Nat /\ x.from <= MaxTime
  BY <1>1 DEF Revisions, Times
<1>4. Current(kept) = {last}
  BY <1>1, <1>2, <1>3 DEF Current, Open
<1> DEFINE shut == [last EXCEPT !.to = time]
           newest == [body |-> body, from |-> time, to |-> Open]
<1>5. shut \in Revisions /\ shut.from = last.from /\ shut.to = time /\ shut.body = last.body
  BY <1>3 DEF Revisions
<1>6. newest \in Revisions /\ newest.from = time /\ newest.to = Open /\ newest.body = body
  BY DEF Revisions
<1>7. next = (kept \ {last}) \cup {shut, newest}
  BY <1>4 DEF NextVersions, Close
<1> HIDE DEF shut, newest
<1>8. last.from <= time
  BY <1>5, <1>7 DEF Ordered
<1>9. \A x \in kept : x # last => x.to <= time
  BY <1>1, <1>2, <1>3, <1>8
<1>10. ASSUME NEW clock \in Times, clock < time
       PROVE  /\ ~Covers(newest, clock)
              /\ Covers(shut, clock) <=> Covers(last, clock)
  BY <1>1, <1>5, <1>6, <1>2, <1>10 DEF Covers, Times
<1>11. ASSUME NEW clock \in Times, ~(clock < time)
       PROVE  /\ Covers(newest, clock) /\ ~Covers(shut, clock)
              /\ \A x \in kept : x # last => ~Covers(x, clock)
  <2>1. clock \in Nat /\ time <= clock /\ clock < Open
    BY <1>1, <1>11 DEF Times, Open
  <2> QED
    BY <1>1, <1>3, <1>5, <1>6, <1>9, <2>1 DEF Covers
<1>12. next \in SUBSET Revisions
  BY <1>5, <1>6, <1>7
<1>13. ASSUME NEW clock \in Times, NEW x \in next, NEW y \in next, Covers(x, clock), Covers(y, clock)
       PROVE  x = y
  <2>1. \A a, b \in kept : Covers(a, clock) /\ Covers(b, clock) => a = b
    BY DEF VersionsHang
  <2>2. CASE clock < time
    BY <1>2, <1>7, <1>10, <1>13, <2>1, <2>2
  <2>3. CASE ~(clock < time)
    BY <1>7, <1>11, <1>13, <2>3
  <2> QED
    BY <2>2, <2>3
<1>14. ASSUME NEW x \in next, NEW clock \in x.from .. MaxTime
       PROVE  \E y \in next : Covers(y, clock)
  <2>1. clock \in Times
    BY <1>1, <1>12 DEF Revisions, Times
  <2>2. CASE clock < time
    <3>1. PICK a \in kept : a.from = x.from
      <4>1. x # newest
        BY <1>1, <1>6, <2>1, <2>2 DEF Times
      <4> QED
        BY <1>2, <1>5, <1>7, <4>1
    <3>2. PICK y \in kept : Covers(y, clock)
      BY <3>1 DEF VersionsHang
    <3> QED
      BY <1>2, <1>7, <1>10, <2>1, <2>2, <3>2
  <2>3. CASE ~(clock < time)
    BY <1>7, <1>11, <2>1, <2>3
  <2> QED
    BY <2>2, <2>3
<1>15. \A x \in next : x = newest \/ x.to <= newest.from
  BY <1>1, <1>5, <1>6, <1>7, <1>9
<1>16. VersionsHang(next, body)
  BY <1>6, <1>7, <1>13, <1>14, <1>15 DEF VersionsHang
<1>17. ASSUME NEW clock \in Times, clock < time
       PROVE  BodiesOf(next, clock)
                  = BodiesOf(kept, clock)
  BY <1>2, <1>5, <1>7, <1>10, <1>17 DEF BodiesOf
<1> QED
  BY <1>12, <1>16, <1>17 DEF VersionJoins

\* The first revision of a post.
LEMMA VersionFirst ==
    ASSUME NEW body \in Bodies, NEW time \in Times,
           NEW next, next = NextVersions({}, body, time)
    PROVE  next \in SUBSET Revisions /\ VersionsHang(next, body)
<1> DEFINE newest == [body |-> body, from |-> time, to |-> Open]
<1>1. next = {newest}
  BY DEF NextVersions, Close, Current
<1>2. newest \in Revisions /\ newest.from = time /\ newest.to = Open /\ newest.body = body
  BY DEF Revisions
<1>3. MaxTime \in Nat /\ time \in Nat
  BY RevisionTime DEF Times
<1>4. ASSUME NEW clock \in time .. MaxTime PROVE Covers(newest, clock)
  BY <1>2, <1>3 DEF Covers, Open
<1> HIDE DEF newest
<1> QED
  BY <1>1, <1>2, <1>4 DEF VersionsHang

\* Voices after some current ones are closed now and one is added.
VoiceJoins(kept, ending, next, voice, truth) ==
    /\ next \in SUBSET Assignments
    /\ \A x \in next : x.to = Open \/ x.to <= now
    /\ \A clock \in Times : \A x, y \in next :
           Covers(x, clock) /\ Covers(y, clock) /\
           (x.voice = y.voice \/ (x.evidence = Primary /\ y.evidence = Primary)) => x = y
    /\ \A clock \in Times : clock < now =>
           /\ VoicesOf(next, clock)
                 = VoicesOf(kept, clock)
           /\ \E x \in next : Covers(x, clock) /\ x.evidence = Primary
    /\ \A x \in kept \ ending : x \in next
    /\ \E x \in next : /\ x.voice = voice /\ x.evidence = truth /\ x.to = Open
                       /\ \A clock \in Times : ~(clock < now) => Covers(x, clock)

LEMMA VoiceAdded ==
    ASSUME RevisionTypes,
           NEW kept \in SUBSET Assignments, NEW old, VoicesHang(kept, old),
           NEW ending \in SUBSET Current(kept), NEW voice \in Voices,
           NEW truth \in Sources \cup {Primary}, NEW next,
           next = NextVoices(kept, ending, voice, truth),
           \A x \in Current(kept) : x.voice = voice \/ (x.evidence = Primary /\ truth = Primary)
               => x \in ending
    PROVE  VoiceJoins(kept, ending, next, voice, truth)
<1>1. MaxTime \in Nat /\ now \in Nat /\ now <= MaxTime /\ now < Open /\ Open \in Nat /\ now \in Times
  BY RevisionTime DEF Times, Open, RevisionTypes
<1>2. \A x \in kept : x \in Assignments /\ x.from \in Nat /\ x.to \in Nat /\ x.from <= MaxTime
  BY <1>1 DEF Assignments, Times
<1> DEFINE Shut(x) == [x EXCEPT !.to = now]
           newest == [voice |-> voice, evidence |-> truth, from |-> now, to |-> Open]
<1>3. \A x \in kept : /\ Shut(x) \in Assignments /\ Shut(x).from = x.from /\ Shut(x).to = now
                      /\ Shut(x).voice = x.voice /\ Shut(x).evidence = x.evidence
  BY <1>1, <1>2 DEF Assignments
<1>4. /\ newest \in Assignments /\ newest.from = now /\ newest.to = Open
      /\ newest.voice = voice /\ newest.evidence = truth
  BY <1>1 DEF Assignments
<1>5. next = (kept \ ending) \cup {Shut(x) : x \in ending} \cup {newest}
  BY DEF NextVoices, Close
<1>6. ending \subseteq kept /\ \A x \in ending : x.to = Open
  BY DEF Current
<1> HIDE DEF Shut, newest
<1>7. next \in SUBSET Assignments
  BY <1>3, <1>4, <1>5, <1>6
<1>8. \A x \in next : x.to = Open \/ x.to <= now
  BY <1>1, <1>3, <1>4, <1>5, <1>6 DEF VoicesHang
<1>9. ASSUME NEW clock \in Times, clock < now
      PROVE  /\ ~Covers(newest, clock)
             /\ \A x \in ending : Covers(Shut(x), clock) <=> Covers(x, clock)
  <2>1. clock \in Nat /\ clock < Open
    BY <1>1, <1>9 DEF Times
  <2> QED
    BY <1>1, <1>2, <1>3, <1>4, <1>6, <1>9, <2>1 DEF Covers
<1>10. ASSUME NEW clock \in Times, ~(clock < now)
       PROVE  /\ Covers(newest, clock)
              /\ \A x \in ending : ~Covers(Shut(x), clock)
              /\ \A x \in kept : Covers(x, clock) => x \in Current(kept)
  <2>1. clock \in Nat /\ now <= clock /\ clock < Open
    BY <1>1, <1>10 DEF Times, Open
  <2>2. \A x \in kept : x.to = Open \/ x.to <= now
    BY DEF VoicesHang
  <2> QED
    BY <1>1, <1>2, <1>3, <1>4, <1>6, <2>1, <2>2 DEF Covers, Current
<1>11. ASSUME NEW clock \in Times, NEW x \in next, NEW y \in next, Covers(x, clock), Covers(y, clock),
              x.voice = y.voice \/ (x.evidence = Primary /\ y.evidence = Primary)
       PROVE  x = y
  <2>1. \A a, b \in kept : Covers(a, clock) /\ Covers(b, clock) /\
            (a.voice = b.voice \/ (a.evidence = Primary /\ b.evidence = Primary)) => a = b
    BY DEF VoicesHang
  <2>2. CASE clock < now
    <3>1. PICK a \in kept : Covers(a, clock) /\ a.voice = x.voice /\ a.evidence = x.evidence
                            /\ (IF a \in ending THEN x = Shut(a) ELSE x = a)
      BY <1>3, <1>5, <1>6, <1>9, <1>11, <2>2
    <3>2. PICK b \in kept : Covers(b, clock) /\ b.voice = y.voice /\ b.evidence = y.evidence
                            /\ (IF b \in ending THEN y = Shut(b) ELSE y = b)
      BY <1>3, <1>5, <1>6, <1>9, <1>11, <2>2
    <3>3. a = b
      BY <1>11, <2>1, <3>1, <3>2
    <3> QED
      BY <3>1, <3>2, <3>3
  <2>3. CASE ~(clock < now)
    <3>1. (x = newest \/ (x \in Current(kept) /\ x \notin ending /\ x \in kept))
          /\ (y = newest \/ (y \in Current(kept) /\ y \notin ending /\ y \in kept))
      BY <1>5, <1>10, <1>11, <2>3
    <3> QED
      BY <1>4, <1>11, <2>1, <3>1
  <2> QED
    BY <2>2, <2>3
<1>12. ASSUME NEW clock \in Times, clock < now
       PROVE  /\ VoicesOf(next, clock)
                    = VoicesOf(kept, clock)
              /\ \E x \in next : Covers(x, clock) /\ x.evidence = Primary
  <2>1. \A x \in next : Covers(x, clock) => \E a \in kept :
            Covers(a, clock) /\ a.voice = x.voice /\ a.evidence = x.evidence
    BY <1>3, <1>5, <1>6, <1>9, <1>12
  <2>2. \A a \in kept : Covers(a, clock) => \E x \in next :
            Covers(x, clock) /\ a.voice = x.voice /\ a.evidence = x.evidence
    BY <1>3, <1>5, <1>6, <1>9, <1>12
  <2>3. \E x \in kept : Covers(x, clock) /\ x.evidence = Primary
    BY DEF VoicesHang
  <2> QED
    BY <2>1, <2>2, <2>3 DEF VoicesOf
<1> QED
  BY <1>4, <1>5, <1>7, <1>8, <1>10, <1>11, <1>12 DEF VoiceJoins

LEMMA VoiceFirst ==
    ASSUME RevisionTypes, NEW voice \in Voices, NEW next,
           next = {[voice |-> voice, evidence |-> Primary, to |-> Open, from |-> 0]}
    PROVE  next \in SUBSET Assignments /\ VoicesHang(next, voice)
<1> DEFINE newest == [voice |-> voice, evidence |-> Primary, to |-> Open, from |-> 0]
<1>1. MaxTime \in Nat /\ 0 \in Times
  BY RevisionTime DEF Times
<1>2. /\ newest \in Assignments /\ newest.from = 0 /\ newest.to = Open
      /\ newest.voice = voice /\ newest.evidence = Primary
  BY <1>1 DEF Assignments
<1>3. \A clock \in Times : Covers(newest, clock)
  BY <1>1, <1>2 DEF Covers, Times, Open
<1> HIDE DEF newest
<1>4. next = {newest}
  BY DEF newest
<1> QED
  BY <1>2, <1>3, <1>4 DEF VoicesHang

\* The body of PastIsKept for one post.
PastKept(p) ==
    post[p].there =>
        \A time \in Times :
            /\ KnownAt(p, time)' # KnownAt(p, time) => time >= post'[p].updated
            /\ SpokenAt(p, time)' # SpokenAt(p, time) => time >= now

LEMMA NoImportTyped == NoImport \in Imports /\ Absent \in Records
<1>1. Absent \in Records
  <2>1. (CHOOSE b \in Bodies : TRUE) \in Bodies /\ (CHOOSE v \in Voices : TRUE) \in Voices
    BY RevisionColumns
  <2>2. 0 \in Times
    BY RevisionTime DEF Times
  <2> QED
    BY <2>1, <2>2 DEF Absent, Records
<1> QED
  BY <1>1 DEF NoImport, Imports

\* Nothing that a reader is told changes.
LEMMA UntoldKeeps ==
    ASSUME RevisionInv, UNCHANGED <<now, post, revisions, voices>>,
           import' \in [Importers -> Imports],
           \A i \in Importers : \A p \in import'[i].left : import'[i].rows[p].there
    PROVE  RevisionInv' /\ \A p \in Imported : PastKept(p)
<1>1. RevisionTypes'
  BY DEF RevisionInv, RevisionTypes
<1>2. \A kept, body : VersionsHang(kept, body)' <=> VersionsHang(kept, body)
  BY DEF VersionsHang
<1>3. \A p \in Imported : VoicesHang(voices[p], post[p].voice) => VoicesHang(voices[p], post[p].voice)'
  BY DEF VoicesHang
<1>4. \A p \in Imported : VersionsHang(revisions[p], post[p].body) => VersionsHang(revisions[p], post[p].body)'
  BY DEF VersionsHang
<1>5. RevisionInv'
  BY <1>1, <1>3, <1>4 DEF RevisionInv
<1> QED
  BY <1>5 DEF PastKept, KnownAt, SpokenAt

LEMMA FailImportKeeps ==
    ASSUME RevisionInv, NEW i \in Importers, FailImport(i)
    PROVE  /\ import' \in [Importers -> Imports]
           /\ \A j \in Importers : \A p \in import'[j].left : import'[j].rows[p].there
<1>1. [NoImport EXCEPT !.pc = "failed"] \in Imports /\ [NoImport EXCEPT !.pc = "failed"].left = {}
  BY NoImportTyped DEF NoImport, Imports
<1> QED
  BY <1>1 DEF FailImport, RevisionInv, RevisionTypes

LEMMA FetchKeeps ==
    ASSUME RevisionInv, NEW i \in Importers, FetchRows(i)
    PROVE  RevisionInv' /\ \A p \in Imported : PastKept(p)
<1>1. PICK rows \in [Imported -> Records] :
          import' = [import EXCEPT ![i] = [NoImport EXCEPT
              !.pc = "rows", !.rows = rows, !.left = {p \in Imported : rows[p].there}]]
  BY DEF FetchRows
<1> DEFINE left == {p \in Imported : rows[p].there}
           state == [NoImport EXCEPT !.pc = "rows", !.rows = rows, !.left = left]
<1>2. left \in SUBSET Imported
  OBVIOUS
<1>3. state \in Imports /\ state.left = left /\ state.rows = rows
  <2> HIDE DEF left
  <2> QED
    BY <1>2, NoImportTyped DEF Imports
<1>4. \A p \in left : rows[p].there
  OBVIOUS
<1>5. /\ import' \in [Importers -> Imports]
      /\ \A j \in Importers : \A p \in import'[j].left : import'[j].rows[p].there
  <2>1. import \in [Importers -> Imports] /\ import' = [import EXCEPT ![i] = state]
    BY <1>1 DEF RevisionInv, RevisionTypes
  <2> HIDE DEF state, left
  <2> QED
    BY <1>3, <1>4, <2>1 DEF RevisionInv
<1> QED
  BY <1>5, UntoldKeeps DEF FetchRows

LEMMA AddRevisionKeeps ==
    ASSUME RevisionInv, NEW i \in Importers, AddRevision(i)
    PROVE  RevisionInv' /\ \A p \in Imported : PastKept(p)
<1>1. CASE import' = [import EXCEPT ![i] = [@ EXCEPT !.pc = "content"]]
  <2>1. import \in [Importers -> Imports] /\ import[i] \in Imports
    BY DEF RevisionInv, RevisionTypes
  <2>2. /\ [import[i] EXCEPT !.pc = "content"] \in Imports
        /\ [import[i] EXCEPT !.pc = "content"].left = import[i].left
        /\ [import[i] EXCEPT !.pc = "content"].rows = import[i].rows
    BY <2>1 DEF Imports
  <2>3. /\ import' \in [Importers -> Imports]
        /\ \A j \in Importers : \A p \in import'[j].left : import'[j].rows[p].there
    BY <1>1, <2>1, <2>2 DEF RevisionInv
  <2> QED
    BY <2>3, UntoldKeeps DEF AddRevision
<1>2. CASE FailImport(i)
  BY <1>2, FailImportKeeps, UntoldKeeps DEF AddRevision
<1> QED
  BY <1>1, <1>2 DEF AddRevision

LEMMA ContentKeeps ==
    ASSUME RevisionInv, NEW i \in Importers, PersistContent(i) \/ StartAgain(i)
    PROVE  RevisionInv' /\ \A p \in Imported : PastKept(p)
<1> DEFINE rest == [import[i] EXCEPT !.pc = "rows", !.at = {}]
<1>1. import \in [Importers -> Imports] /\ import[i] \in Imports
  BY DEF RevisionInv, RevisionTypes
<1>2. rest \in Imports /\ rest.left = import[i].left /\ rest.rows = import[i].rows
  BY <1>1 DEF Imports
<1>3. NoImport \in Imports /\ NoImport.left = {}
  BY NoImportTyped DEF NoImport
<1>4. \/ import' = [import EXCEPT ![i] = NoImport]
      \/ import' = [import EXCEPT ![i] = rest]
      \/ FailImport(i)
  BY DEF PersistContent, StartAgain
<1>5. /\ import' \in [Importers -> Imports]
      /\ \A j \in Importers : \A p \in import'[j].left : import'[j].rows[p].there
  <2> HIDE DEF rest
  <2> QED
    BY <1>1, <1>2, <1>3, <1>4, FailImportKeeps DEF RevisionInv
<1> QED
  BY <1>5, UntoldKeeps DEF PersistContent, StartAgain

\* What one statement makes of the revisions of a post.
LEMMA RevisedHangs ==
    ASSUME RevisionInv, NEW p \in Imported, NEW new \in Records,
           Ordered(Revised(post[p], new, revisions[p]))
    PROVE  /\ Revised(post[p], new, revisions[p]) \in SUBSET Revisions
           /\ VersionsHang(Revised(post[p], new, revisions[p]), new.body)
           /\ post[p].there => \A clock \in Times : clock < new.updated =>
                  BodiesOf(Revised(post[p], new, revisions[p]), clock)
                      = KnownAt(p, clock)
<1>1. new.body \in Bodies /\ new.updated \in Times
  BY DEF Records
<1>2. revisions[p] \in SUBSET Revisions
  BY DEF RevisionInv, RevisionTypes
<1>3. CASE post[p].there /\ post[p].body = new.body
  BY <1>2, <1>3 DEF Revised, RevisionInv, KnownAt, BodiesOf
<1> DEFINE next == NextVersions(revisions[p], new.body, new.updated)
<1>4. CASE post[p].there /\ post[p].body # new.body
  <2>1. Revised(post[p], new, revisions[p]) = next
    BY <1>4 DEF Revised, NextVersions
  <2>2. VersionsHang(revisions[p], post[p].body)
    BY <1>4 DEF RevisionInv
  <2>3. next = NextVersions(revisions[p], new.body, new.updated)
    OBVIOUS
  <2> HIDE DEF next
  <2>4. Ordered(next)
    BY <2>1
  <2>5. VersionJoins(revisions[p], next, new.body, new.updated)
    BY <1>1, <1>2, <2>2, <2>3, <2>4, VersionAdded
  <2> QED
    BY <2>1, <2>5 DEF KnownAt, BodiesOf, VersionJoins
<1>5. CASE ~post[p].there
  <2>1. Revised(post[p], new, revisions[p]) = next /\ revisions[p] = {}
    BY <1>5 DEF Revised, NextVersions, RevisionInv
  <2>2. next = NextVersions({}, new.body, new.updated)
    BY <2>1
  <2> HIDE DEF next
  <2>3. next \in SUBSET Revisions /\ VersionsHang(next, new.body)
    BY <1>1, <2>2, VersionFirst
  <2> QED
    BY <1>5, <2>1, <2>3
<1> QED
  BY <1>3, <1>4, <1>5

LEMMA RevoicedHangs ==
    ASSUME RevisionInv, NEW p \in Imported, NEW new \in Records
    PROVE  /\ Revoiced(post[p], new, voices[p]) \in SUBSET Assignments
           /\ VoicesHang(Revoiced(post[p], new, voices[p]), new.voice)
           /\ post[p].there => \A clock \in Times : clock < now =>
                  VoicesOf(Revoiced(post[p], new, voices[p]), clock)
                      = SpokenAt(p, clock)
<1>1. new.voice \in Voices
  BY DEF Records
<1>2. voices[p] \in SUBSET Assignments /\ RevisionTypes
  BY DEF RevisionInv, RevisionTypes
<1>3. CASE post[p].there /\ post[p].voice = new.voice
  BY <1>2, <1>3 DEF Revoiced, RevisionInv, SpokenAt, VoicesOf
<1>4. CASE post[p].there /\ post[p].voice # new.voice
  <2> DEFINE kept == voices[p]
             ending == {x \in Current(kept) : x.evidence = Primary \/ x.voice = new.voice}
             next == NextVoices(kept, ending, new.voice, Primary)
  <2>1. Revoiced(post[p], new, voices[p]) = next
    BY <1>4 DEF Revoiced, NextVoices
  <2>2. VoicesHang(kept, post[p].voice)
    BY <1>4 DEF RevisionInv
  <2>3. /\ ending \in SUBSET Current(kept)
        /\ \A x \in Current(kept) : x.voice = new.voice \/ (x.evidence = Primary /\ Primary = Primary)
               => x \in ending
        /\ next = NextVoices(kept, ending, new.voice, Primary)
        /\ kept \in SUBSET Assignments /\ Primary \in Sources \cup {Primary}
    BY <1>2
  <2> HIDE DEF kept, ending, next
  <2>4. VoiceJoins(kept, ending, next, new.voice, Primary)
    BY <1>1, <1>2, <2>2, <2>3, VoiceAdded, ZenonT(30)
  <2>5. \A clock \in Times : \E x \in next : Covers(x, clock) /\ x.evidence = Primary
    BY <2>4 DEF VoiceJoins
  <2>6. VoicesHang(next, new.voice)
    BY <2>4, <2>5 DEF VoicesHang, VoiceJoins
  <2> QED
    BY <2>1, <2>4, <2>6 DEF VoiceJoins, SpokenAt, VoicesOf, kept
<1>5. CASE ~post[p].there
  <2>1. voices[p] = {}
    BY <1>5 DEF RevisionInv
  <2>2. Revoiced(post[p], new, voices[p])
            = {[voice |-> new.voice, evidence |-> Primary, to |-> Open, from |-> 0]}
    BY <1>5, <2>1 DEF Revoiced, Close, Current
  <2> QED
    BY <1>1, <1>2, <1>5, <2>2, VoiceFirst
<1> QED
  BY <1>3, <1>4, <1>5

LEMMA UpsertKeeps ==
    ASSUME RevisionInv, NEW i \in Importers, Upsert(i)
    PROVE  RevisionInv' /\ \A p \in Imported : PastKept(p)
<1>1. RevisionTypes /\ import[i] \in Imports
  BY DEF RevisionInv, RevisionTypes
<1>2. PICK p \in import[i].left :
          \/ /\ Ordered(Revised(post[p], import[i].rows[p], revisions[p]))
             /\ post' = [post EXCEPT ![p] = import[i].rows[p]]
             /\ revisions' = [revisions EXCEPT ![p] = Revised(post[p], import[i].rows[p], revisions[p])]
             /\ voices' = [voices EXCEPT ![p] = Revoiced(post[p], import[i].rows[p], voices[p])]
             /\ import' = [import EXCEPT ![i].pc = "revision", ![i].at = {p},
                                         ![i].left = import[i].left \ {p}]
             /\ UNCHANGED now
          \/ FailImport(i) /\ UNCHANGED <<now, post, revisions, voices>>
  BY DEF Upsert
<1>3. CASE FailImport(i) /\ UNCHANGED <<now, post, revisions, voices>>
  BY <1>3, FailImportKeeps, UntoldKeeps
<1>4. CASE ~(FailImport(i) /\ UNCHANGED <<now, post, revisions, voices>>)
  <2> DEFINE new == import[i].rows[p]
             revised == Revised(post[p], new, revisions[p])
             spoken == Revoiced(post[p], new, voices[p])
             state == [import[i] EXCEPT !.pc = "revision", !.at = {p}, !.left = import[i].left \ {p}]
  <2>1. p \in Imported /\ new \in Records /\ new.there /\ new.updated \in Times
    BY <1>1, <1>2 DEF Imports, Records, RevisionInv
  <2>2. /\ Ordered(revised) /\ UNCHANGED now
        /\ post' = [post EXCEPT ![p] = new] /\ revisions' = [revisions EXCEPT ![p] = revised]
        /\ voices' = [voices EXCEPT ![p] = spoken] /\ import' = [import EXCEPT ![i] = state]
    BY <1>1, <1>2, <1>4 DEF RevisionTypes
  <2>3. state \in Imports /\ state.rows = import[i].rows /\ state.left \subseteq import[i].left
    BY <1>1, <1>2, <2>1 DEF Imports
  <2>4. /\ revised \in SUBSET Revisions
        /\ VersionsHang(revised, new.body)
        /\ post[p].there => \A clock \in Times : clock < new.updated =>
               BodiesOf(revised, clock) = KnownAt(p, clock)
    BY <2>1, <2>2, RevisedHangs, ZenonT(30)
  <2>5. /\ spoken \in SUBSET Assignments
        /\ VoicesHang(spoken, new.voice)
        /\ post[p].there => \A clock \in Times : clock < now =>
               VoicesOf(spoken, clock) = SpokenAt(p, clock)
    BY <2>1, RevoicedHangs, ZenonT(30)
  <2> HIDE DEF new, revised, spoken, state
  <2>6. \A q \in Imported :
           /\ post'[q] = IF q = p THEN new ELSE post[q]
           /\ revisions'[q] = IF q = p THEN revised ELSE revisions[q]
           /\ voices'[q] = IF q = p THEN spoken ELSE voices[q]
    BY <1>1, <2>2 DEF RevisionTypes
  <2>7. RevisionTypes'
    BY <1>1, <2>1, <2>2, <2>3, <2>4, <2>5 DEF RevisionTypes
  <2>8. \A j \in Importers : \A q \in import'[j].left : import'[j].rows[q].there
    BY <1>1, <2>2, <2>3 DEF RevisionInv, RevisionTypes
  <2>9. ASSUME NEW q \in Imported
        PROVE  IF post'[q].there
               THEN VersionsHang(revisions'[q], post'[q].body) /\ VoicesHang(voices'[q], post'[q].voice)
               ELSE revisions'[q] = {} /\ voices'[q] = {}
    BY <2>1, <2>4, <2>5, <2>6 DEF RevisionInv
  <2>11. \A q \in Imported : VoicesHang(voices'[q], post'[q].voice) => VoicesHang(voices[q], post[q].voice)'
    BY <2>2 DEF VoicesHang
  <2>12. \A q \in Imported : VersionsHang(revisions'[q], post'[q].body)
                                 => VersionsHang(revisions[q], post[q].body)'
    BY DEF VersionsHang
  <2>13. RevisionInv'
    BY <2>7, <2>8, <2>9, <2>11, <2>12 DEF RevisionInv
  <2>14. ASSUME NEW q \in Imported PROVE PastKept(q)
    <3>1. CASE q = p
      <4> SUFFICES ASSUME post[p].there, NEW clock \in Times
                   PROVE  /\ KnownAt(p, clock)' # KnownAt(p, clock) => clock >= post'[p].updated
                          /\ SpokenAt(p, clock)' # SpokenAt(p, clock) => clock >= now
        BY <3>1 DEF PastKept
      <4>1. KnownAt(p, clock)' = BodiesOf(revised, clock) /\ SpokenAt(p, clock)' = VoicesOf(spoken, clock)
        BY <2>1, <2>6 DEF KnownAt, SpokenAt, BodiesOf, VoicesOf
      <4>2. /\ clock < new.updated => KnownAt(p, clock)' = KnownAt(p, clock)
            /\ clock < now => SpokenAt(p, clock)' = SpokenAt(p, clock)
        BY <2>4, <2>5, <4>1
      <4>3. clock \in Nat /\ new.updated \in Nat /\ now \in Nat /\ post'[p].updated = new.updated
        BY <1>1, <2>1, <2>6 DEF Times, RevisionTypes
      <4> QED
        BY <4>2, <4>3
    <3>2. CASE q # p
      BY <2>6, <3>2 DEF PastKept, KnownAt, SpokenAt
    <3> QED
      BY <3>1, <3>2
  <2> QED
    BY <2>13, <2>14
<1> QED
  BY <1>3, <1>4

LEMMA AssignKeeps ==
    ASSUME RevisionInv, NEW p \in Imported, AssignVoice(p)
    PROVE  RevisionInv' /\ \A q \in Imported : PastKept(q)
<1>1. RevisionTypes /\ post[p].there /\ VoicesHang(voices[p], post[p].voice)
      /\ voices[p] \in SUBSET Assignments
  BY DEF RevisionInv, RevisionTypes, AssignVoice
<1>2. PICK voice \in Voices \ {post[p].voice}, truth \in Sources :
          /\ \A x \in {y \in Current(voices[p]) : y.voice = voice} : x.evidence \notin {Primary, truth}
          /\ voices' = [voices EXCEPT ![p] =
                 NextVoices(voices[p], {y \in Current(voices[p]) : y.voice = voice}, voice, truth)]
          /\ UNCHANGED <<now, post, revisions, import>>
  BY DEF AssignVoice, NextVoices
<1> DEFINE kept == voices[p]
           ending == {x \in Current(kept) : x.voice = voice}
           next == NextVoices(kept, ending, voice, truth)
<1>3. /\ ending \in SUBSET Current(kept)
      /\ \A x \in Current(kept) : x.voice = voice \/ (x.evidence = Primary /\ truth = Primary)
             => x \in ending
      /\ next = NextVoices(kept, ending, voice, truth)
      /\ voices' = [voices EXCEPT ![p] = next]
      /\ \A x \in ending : x.evidence # Primary /\ x.voice # post[p].voice
      /\ kept = voices[p] /\ voice \in Voices /\ truth \in Sources \cup {Primary}
  BY <1>2, RevisionEvidence
<1> HIDE DEF kept, ending, next
<1>4. VoiceJoins(kept, ending, next, voice, truth)
  BY <1>1, <1>3, VoiceAdded, ZenonT(30)
<1>5. ASSUME NEW clock \in Times PROVE \E x \in next : Covers(x, clock) /\ x.evidence = Primary
  <2>1. PICK x \in kept : Covers(x, clock) /\ x.evidence = Primary
    BY <1>1, <1>3 DEF VoicesHang
  <2> QED
    BY <1>3, <1>4, <2>1 DEF VoiceJoins
<1>6. \E last \in next : last.to = Open /\ last.evidence = Primary /\ last.voice = post[p].voice
  <2>1. PICK last \in kept : last.to = Open /\ last.evidence = Primary /\ last.voice = post[p].voice
    BY <1>1, <1>3 DEF VoicesHang
  <2> QED
    BY <1>3, <1>4, <2>1 DEF VoiceJoins
<1>7. VoicesHang(next, post[p].voice)
  BY <1>4, <1>5, <1>6 DEF VoicesHang, VoiceJoins
<1>8. RevisionTypes'
  BY <1>1, <1>2, <1>3, <1>4 DEF RevisionTypes, VoiceJoins
<1>9. \A q \in Imported : voices'[q] = IF q = p THEN next ELSE voices[q]
  BY <1>1, <1>3 DEF RevisionTypes
<1>10. RevisionInv'
  <2>1. \A q \in Imported : post[q].there => VoicesHang(voices'[q], post[q].voice)
    BY <1>7, <1>9 DEF RevisionInv
  <2>2. \A q \in Imported : VoicesHang(voices'[q], post[q].voice) => VoicesHang(voices[q], post[q].voice)'
    BY <1>2 DEF VoicesHang
  <2>3. \A q \in Imported : VersionsHang(revisions[q], post[q].body) => VersionsHang(revisions[q], post[q].body)'
    BY <1>2 DEF VersionsHang
  <2> QED
    BY <1>1, <1>2, <1>8, <1>9, <2>1, <2>2, <2>3 DEF RevisionInv
<1>11. ASSUME NEW q \in Imported PROVE PastKept(q)
  <2>1. \A clock \in Times : KnownAt(q, clock)' = KnownAt(q, clock)
    BY <1>2 DEF KnownAt
  <2>2. \A clock \in Times : clock < now => SpokenAt(q, clock)' = SpokenAt(q, clock)
    BY <1>3, <1>4, <1>9 DEF SpokenAt, VoicesOf, VoiceJoins
  <2>3. \A clock \in Times : clock \in Nat /\ now \in Nat
    BY <1>1 DEF Times, RevisionTypes
  <2> QED
    BY <2>1, <2>2, <2>3 DEF PastKept
<1> QED
  BY <1>10, <1>11

LEMMA TickKeeps ==
    ASSUME RevisionInv, Tick
    PROVE  RevisionInv' /\ \A p \in Imported : PastKept(p)
<1>1. RevisionTypes'
  BY RevisionTime DEF RevisionInv, RevisionTypes, Tick, Times
<1>2. \A p \in Imported : VoicesHang(voices[p], post[p].voice) => VoicesHang(voices[p], post[p].voice)'
  <2> SUFFICES ASSUME NEW p \in Imported, VoicesHang(voices[p], post[p].voice)
               PROVE  VoicesHang(voices[p], post[p].voice)'
    OBVIOUS
  <2>1. \A x \in voices[p] : x.to = Open \/ x.to <= now'
    <3>1. \A x \in voices[p] : x.to \in Nat
      BY RevisionTime DEF RevisionInv, RevisionTypes, Assignments, Times, Open
    <3>2. now \in Nat /\ now' = now + 1
      BY DEF RevisionInv, RevisionTypes, Times, Tick
    <3> QED
      BY <3>1, <3>2 DEF VoicesHang
  <2> QED
    BY <2>1 DEF VoicesHang, Tick
<1>3. \A p \in Imported : VersionsHang(revisions[p], post[p].body) => VersionsHang(revisions[p], post[p].body)'
  BY DEF VersionsHang, Tick
<1>4. RevisionInv'
  BY <1>1, <1>2, <1>3 DEF RevisionInv, Tick
<1> QED
  BY <1>4 DEF PastKept, KnownAt, SpokenAt, Tick

LEMMA RevisionInvInit == RevisionInit => RevisionInv
<1> SUFFICES ASSUME RevisionInit PROVE RevisionInv
  OBVIOUS
<1>1. RevisionTypes
  BY NoImportTyped, RevisionTime DEF RevisionInit, RevisionTypes, Times
<1> QED
  BY <1>1 DEF RevisionInv, RevisionInit, NoImport, Absent

LEMMA RevisionInvStep ==
    RevisionInv /\ [RevisionNext]_revisionVars => RevisionInv' /\ \A p \in Imported : PastKept(p)
<1> SUFFICES ASSUME RevisionInv, [RevisionNext]_revisionVars
             PROVE  RevisionInv' /\ \A p \in Imported : PastKept(p)
  OBVIOUS
<1>1. ASSUME NEW p \in Imported, AssignVoice(p)
      PROVE  RevisionInv' /\ \A q \in Imported : PastKept(q)
  BY <1>1, AssignKeeps
<1>2. ASSUME NEW i \in Importers, ImportStep(i)
      PROVE  RevisionInv' /\ \A p \in Imported : PastKept(p)
  BY <1>2, FetchKeeps, UpsertKeeps, AddRevisionKeeps, ContentKeeps DEF ImportStep
<1>3. CASE Tick
  BY <1>3, TickKeeps
<1>4. CASE UNCHANGED revisionVars
  <2>1. UNCHANGED <<now, post, revisions, voices, import>>
    BY <1>4 DEF revisionVars
  <2>2. /\ import' \in [Importers -> Imports]
        /\ \A i \in Importers : \A p \in import'[i].left : import'[i].rows[p].there
    BY <2>1 DEF RevisionInv, RevisionTypes
  <2> QED
    BY <2>1, <2>2, UntoldKeeps
<1> QED
  BY <1>1, <1>2, <1>3, <1>4 DEF RevisionNext

LEMMA RevisionInvKnown == RevisionInv => RevisionTypeOK /\ OneVersionKnown
<1> SUFFICES ASSUME RevisionInv PROVE RevisionTypeOK /\ OneVersionKnown
  OBVIOUS
<1>1. RevisionTypes /\ RevisionTypeOK
  BY DEF RevisionInv, RevisionTypes, RevisionTypeOK
<1> SUFFICES ASSUME NEW p \in Imported, post[p].there
             PROVE  /\ \A time \in Times : \A x, y \in revisions[p] :
                           Covers(x, time) /\ Covers(y, time) => x = y
                    /\ \A x \in revisions[p] : \A time \in x.from .. MaxTime : KnownAt(p, time) # {}
                    /\ KnownAt(p, MaxTime) = {post[p].body}
                    /\ \A time \in Times :
                           /\ Cardinality({x \in SpokenAt(p, time) : x.evidence = Primary}) = 1
                           /\ \A x, y \in voices[p] :
                                  Covers(x, time) /\ Covers(y, time) /\ x.voice = y.voice => x = y
                    /\ [voice |-> post[p].voice, evidence |-> Primary] \in SpokenAt(p, MaxTime)
  BY <1>1 DEF OneVersionKnown
<1>2. VersionsHang(revisions[p], post[p].body) /\ VoicesHang(voices[p], post[p].voice)
  BY DEF RevisionInv
<1>3. /\ MaxTime \in Nat /\ MaxTime \in Times
      /\ revisions[p] \subseteq Revisions /\ voices[p] \subseteq Assignments
  BY <1>1, RevisionTime DEF RevisionTypes, Times
<1>4. \A x \in revisions[p] \cup voices[p] :
          /\ x.from \in Nat /\ x.from <= MaxTime /\ x.to \in Nat
          /\ x.to = Open => Covers(x, MaxTime)
  BY <1>3 DEF Revisions, Assignments, Times, Open, Covers
<1>5. \A x \in revisions[p] : \A time \in x.from .. MaxTime : KnownAt(p, time) # {}
  <2> SUFFICES ASSUME NEW x \in revisions[p], NEW time \in x.from .. MaxTime
               PROVE  KnownAt(p, time) # {}
    OBVIOUS
  <2>1. PICK y \in revisions[p] : Covers(y, time)
    BY <1>2 DEF VersionsHang
  <2>2. y.body \in KnownAt(p, time)
    BY <2>1 DEF KnownAt
  <2> QED
    BY <2>2
<1>6. KnownAt(p, MaxTime) = {post[p].body}
  <2>1. PICK last \in revisions[p] : last.to = Open /\ last.body = post[p].body
    BY <1>2 DEF VersionsHang
  <2>2. Covers(last, MaxTime)
    BY <1>4, <2>1
  <2>3. \A x \in revisions[p] : Covers(x, MaxTime) => x = last
    BY <1>2, <1>3, <2>2 DEF VersionsHang
  <2> QED
    BY <2>1, <2>2, <2>3 DEF KnownAt
<1>7. ASSUME NEW time \in Times
      PROVE  Cardinality({x \in SpokenAt(p, time) : x.evidence = Primary}) = 1
  <2>1. PICK first \in voices[p] : Covers(first, time) /\ first.evidence = Primary
    BY <1>2 DEF VoicesHang
  <2>2. \A x \in voices[p] : Covers(x, time) /\ x.evidence = Primary => x = first
    BY <1>2, <2>1 DEF VoicesHang
  <2> DEFINE told == [voice |-> first.voice, evidence |-> first.evidence]
  <2>3. told \in SpokenAt(p, time) /\ told.evidence = Primary
    BY <2>1 DEF SpokenAt
  <2>4. ASSUME NEW x \in SpokenAt(p, time), x.evidence = Primary PROVE x = told
    BY <2>2, <2>4 DEF SpokenAt
  <2> HIDE DEF told
  <2>5. {x \in SpokenAt(p, time) : x.evidence = Primary} = {told}
    BY <2>3, <2>4
  <2> QED
    BY <2>5, FS_Singleton
<1>8. [voice |-> post[p].voice, evidence |-> Primary] \in SpokenAt(p, MaxTime)
  <2>1. PICK last \in voices[p] : last.to = Open /\ last.evidence = Primary /\ last.voice = post[p].voice
    BY <1>2 DEF VoicesHang
  <2> QED
    BY <1>4, <2>1 DEF SpokenAt
<1> QED
  BY <1>2, <1>5, <1>6, <1>7, <1>8 DEF VersionsHang, VoicesHang

\* However imports of the same posts interleave, with whatever clocks, a post has one body and one
\* primary Voice at every clock, and a step changes nothing of what was known before it (the
\* revisions and Voices of migrations 0002 and 0014, post_import.py): for every number of
\* posts, importers and clocks.
THEOREM HistoryKept == RevisionSpec => []RevisionTypeOK /\ HistoryIsKept
<1>1. RevisionSpec => []RevisionInv
  BY RevisionInvInit, RevisionInvStep, PTL DEF RevisionSpec
<1>2. RevisionInv /\ [RevisionNext]_revisionVars =>
          [\A p \in Imported : post[p].there =>
             \A time \in Times :
              /\ KnownAt(p, time)' # KnownAt(p, time) => time >= post'[p].updated
              /\ SpokenAt(p, time)' # SpokenAt(p, time) => time >= now]_revisionVars
  BY RevisionInvStep DEF PastKept
<1> QED
  BY <1>1, <1>2, RevisionInvKnown, PTL DEF RevisionSpec, HistoryIsKept, PastIsKept

-----------------------------------------------------------------------------
(* The catalog of corporate entities. *)

Naming == {"unknown", "bind", "create", "locked", "bound"}

\* Candidates are rows of the catalog under a name of their entity.
KinOfRows(candidates) ==
    \A c \in candidates : c.row \in catalog /\ OneEntity(c.label, Label(c.row))

\* The property of one binding.
BoundTo(asked, row) ==
    \E a, b \in Names :
        (asked = a \/ OneEntity(asked, a)) /\ OneEntity(a, b) /\ OneEntity(b, Label(row))

\* An extraction has the name that was asked for, or its full name, at the head of its path;
\* what it scores and what it has bound stands in the catalog; and while it holds the lock
\* the catalog is what it has read.
ExtractionHangs(e, state) ==
    /\ state.aliases \subseteq confirmed
    /\ KinOfRows(state.known)
    /\ state.answer # Nobody => state.answer \in catalog
    /\ state.pc \in Naming =>
          /\ state.asked \in Names /\ Len(state.path) >= 1
          /\ state.asked = state.path[1] \/ OneEntity(state.asked, state.path[1])
    /\ state.pc = "unknown" => state.path = <<state.asked>>
    /\ state.pc = "locked" => lock = e /\ state.fresh = Labelled(catalog \ state.above)
    /\ state.pc = "bound" /\ state.answer # Nobody => BoundTo(state.asked, state.answer)

CatalogTypes ==
    /\ catalog \subseteq Rows
    /\ parent \in [Rows -> Rows \cup {Nobody}]
    /\ resolution \in [Names -> {"none", "corroborated", "other"}]
    /\ confirmed \subseteq {n \in Names : FullName[n] # Nobody}
    /\ lock \in Extractors \cup {Nobody}
    /\ extraction \in [Extractors -> Progress]

CatalogInv ==
    /\ CatalogTypes
    /\ Aliases \subseteq confirmed
    /\ \A e \in Extractors : ExtractionHangs(e, extraction[e])

LEMMA KinIsReflexive == \A a \in Names : OneEntity(a, a)
BY CatalogLikeness DEF OneEntity

LEMMA LabelTyped == /\ \A r \in Rows : Label(r) \in Names
                    /\ \A n \in Names : n \in Rows /\ Label(n) = n /\ n # Nobody
BY CatalogNames, CatalogNobody DEF Rows, Label

LEMMA LabelledKin ==
    ASSUME CatalogInv, NEW rows \in SUBSET catalog
    PROVE  Labelled(rows) \in SUBSET Candidates /\ KinOfRows(Labelled(rows))
BY LabelTyped, KinIsReflexive DEF Labelled, Candidates, KinOfRows, CatalogInv, CatalogTypes

\* A path as long as one name, its head, its end and what is before it.
LEMMA PathParts ==
    ASSUME NEW s \in Seq(Names), Len(s) >= 1
    PROVE  /\ Last(s) \in Names /\ Len(s) \in Nat
           /\ <<Head(s)>> \in Seq(Names) /\ Len(<<Head(s)>>) = 1 /\ <<Head(s)>>[1] = s[1]
           /\ Len(s) = 1 => Last(s) = s[1]
           /\ Len(s) # 1 => Front(s) \in Seq(Names) /\ Len(Front(s)) >= 1 /\ Front(s)[1] = s[1]
           /\ \A n \in Names : /\ Append(s, n) \in Seq(Names) /\ Len(Append(s, n)) >= 1
                               /\ Append(s, n)[1] = s[1]
<1>1. Len(s) \in Nat /\ Last(s) \in Names /\ Head(s) = s[1] /\ s[1] \in Names
  BY DEF Last
<1>2. \A n \in Names : <<n>> \in Seq(Names) /\ Len(<<n>>) = 1 /\ <<n>>[1] = n
  OBVIOUS
<1>3. Len(s) # 1 => Front(s) \in Seq(Names) /\ Len(Front(s)) >= 1 /\ Front(s)[1] = s[1]
  <2> SUFFICES ASSUME Len(s) # 1 PROVE Front(s) \in Seq(Names) /\ Len(Front(s)) >= 1 /\ Front(s)[1] = s[1]
    OBVIOUS
  <2>1. \A k \in Nat : k >= 1 /\ k # 1 => k - 1 \in Nat /\ k - 1 >= 1 /\ k - 1 <= k
    OBVIOUS
  <2>2. Len(s) - 1 \in Nat /\ Len(s) - 1 >= 1 /\ Len(s) - 1 <= Len(s)
    BY <1>1, <2>1
  <2> QED
    BY <2>2 DEF Front
<1>4. ASSUME NEW n \in Names
      PROVE  Append(s, n) \in Seq(Names) /\ Len(Append(s, n)) >= 1 /\ Append(s, n)[1] = s[1]
  BY <1>1
<1>5. Len(s) = 1 => Last(s) = s[1]
  BY DEF Last
<1> QED
  BY <1>1, <1>2, <1>3, <1>4, <1>5

\* A hit shares a name, or likeness, with a candidate of the same row.
LEMMA HitIsKin ==
    ASSUME CatalogInv, NEW name \in Names, NEW candidates \in SUBSET Candidates,
           NEW aliases \in SUBSET confirmed, NEW row \in Hits(name, candidates, aliases)
    PROVE  \E c \in candidates : c.row = row /\ OneEntity(name, c.label)
<1>1. /\ Enough \in Nat /\ Same \in Nat /\ Enough <= Same
      /\ \A m, n \in Names : Likeness[m][n] \in 0 .. Same
      /\ \A m, n \in Names : Likeness[m][n] = Same <=> m = n
  BY CatalogLikeness
<1>2. /\ \A n \in aliases : n \in Names /\ n \in confirmed /\ FullName[n] \in Names
      /\ \A c \in candidates : c.label \in Names
  BY CatalogFullNames DEF CatalogInv, CatalogTypes, Candidates
<1>3. CASE row \in BestRows(name, candidates, Enough)
  <2>1. PICK c \in candidates : c.row = row /\ Likeness[name][c.label] >= Enough
    BY <1>3 DEF BestRows
  <2> QED
    BY <2>1 DEF OneEntity
<1>4. CASE row \in BestRows(name, Expanded(candidates, aliases), Same)
  <2>1. PICK d \in Expanded(candidates, aliases) : d.row = row /\ Likeness[name][d.label] >= Same
    BY <1>4 DEF BestRows
  <2>2. CASE d \in candidates
    <3>1. name = d.label
      BY <1>1, <1>2, <2>1, <2>2
    <3> QED
      BY <2>1, <2>2, <3>1, KinIsReflexive
  <2>3. ASSUME NEW c \in candidates, NEW n \in aliases, c.label = n,
               d = [row |-> c.row, label |-> FullName[n]]
        PROVE  c.row = row /\ OneEntity(name, c.label)
    <3>1. d.row = c.row /\ d.label = FullName[n] /\ d.label \in Names
      BY <1>2, <2>3
    <3>2. name = FullName[n]
      BY <1>1, <2>1, <3>1
    <3> QED
      BY <1>2, <2>1, <2>3, <3>1, <3>2 DEF OneEntity
  <2>4. ASSUME NEW c \in candidates, NEW n \in aliases, c.label = FullName[n],
               d = [row |-> c.row, label |-> n]
        PROVE  c.row = row /\ OneEntity(name, c.label)
    <3>1. d.row = c.row /\ d.label = n /\ d.label \in Names
      BY <1>2, <2>4
    <3>2. name = n
      BY <1>1, <2>1, <3>1
    <3> QED
      BY <1>2, <2>1, <2>4, <3>1, <3>2 DEF OneEntity
  <2>5. \/ d \in candidates
        \/ \E c \in candidates, n \in aliases : c.label = n /\ d = [row |-> c.row, label |-> FullName[n]]
        \/ \E c \in candidates, n \in aliases : c.label = FullName[n] /\ d = [row |-> c.row, label |-> n]
    BY DEF Expanded
  <2> QED
    BY <2>2, <2>3, <2>4, <2>5
<1> QED
  BY <1>3, <1>4 DEF Hits

LEMMA ExtractionGoesOn ==
    ASSUME CatalogInv, NEW e \in Extractors, NEW state \in Progress,
           extraction' = [extraction EXCEPT ![e] = state],
           catalog \subseteq catalog', confirmed \subseteq confirmed',
           catalog' \subseteq Rows, parent' \in [Rows -> Rows \cup {Nobody}],
           resolution' \in [Names -> {"none", "corroborated", "other"}],
           confirmed' \subseteq {n \in Names : FullName[n] # Nobody},
           lock' \in Extractors \cup {Nobody}, Aliases' \subseteq confirmed',
           \A o \in Extractors \ {e} : lock = o => lock' = o /\ catalog' = catalog,
           ExtractionHangs(e, state)'
    PROVE  CatalogInv'
<1>1. extraction \in [Extractors -> Progress]
  BY DEF CatalogInv, CatalogTypes
<1>2. CatalogTypes'
  BY <1>1 DEF CatalogTypes
<1>3. \A a, b : OneEntity(a, b) => OneEntity(a, b)'
  BY DEF OneEntity
<1>4. ASSUME NEW o \in Extractors PROVE ExtractionHangs(o, extraction[o])'
  <2>1. CASE o = e
    <3>1. extraction'[o] = state
      BY <1>1, <2>1
    <3> QED
      BY <2>1, <3>1 DEF ExtractionHangs, KinOfRows, BoundTo
  <2>2. CASE o # e
    <3>1. PICK other : other = extraction[o]
      OBVIOUS
    <3>2. extraction'[o] = other /\ ExtractionHangs(o, other)
      BY <1>1, <2>2, <3>1 DEF CatalogInv
    <3>3. ExtractionHangs(o, other)'
      BY <1>3, <2>2, <3>2 DEF ExtractionHangs, KinOfRows, BoundTo
    <3> QED
      BY <3>2, <3>3 DEF ExtractionHangs, KinOfRows, BoundTo
  <2> QED
    BY <2>1, <2>2
<1> QED
  BY <1>2, <1>4 DEF CatalogInv

\* An extraction goes on by itself.
LEMMA QuietGoesOn ==
    ASSUME CatalogInv, NEW e \in Extractors, NEW state \in Progress,
           extraction' = [extraction EXCEPT ![e] = state],
           UNCHANGED <<catalog, parent, resolution, confirmed, lock>>,
           ExtractionHangs(e, state)
    PROVE  CatalogInv'
<1>1. ExtractionHangs(e, state)'
  BY DEF ExtractionHangs, KinOfRows, BoundTo, OneEntity, Labelled
<1> QED
  BY <1>1, ExtractionGoesOn DEF CatalogInv, CatalogTypes, Aliases

LEMMA NoProgressTyped == NoProgress \in Progress /\ \A e : ExtractionHangs(e, NoProgress)
<1>1. <<>> \in Seq(Names)
  OBVIOUS
<1> QED
  BY <1>1 DEF NoProgress, Progress, ExtractionHangs, KinOfRows, Naming

\* What is bound goes into the answer, at the head of the path or one name nearer to it.
LEMMA BindHangs ==
    ASSUME CatalogInv, NEW e \in Extractors, NEW row \in Rows, NEW known \in SUBSET Candidates,
           Bind(e, row, known), extraction[e].pc \in Naming,
           catalog \subseteq catalog', UNCHANGED confirmed, KinOfRows(known)', row \in catalog',
           \E c \in Names : OneEntity(Name(e), c) /\ OneEntity(c, Label(row))
    PROVE  \E state \in Progress :
              /\ extraction' = [extraction EXCEPT ![e] = state]
              /\ ExtractionHangs(e, state)'
<1>1. PICK old : old = extraction[e]
  OBVIOUS
<1>2. /\ old \in Progress /\ ExtractionHangs(e, old) /\ old.pc \in Naming
      /\ extraction \in [Extractors -> Progress]
  BY <1>1 DEF CatalogInv, CatalogTypes
<1>3. old.path \in Seq(Names) /\ Len(old.path) >= 1 /\ old.asked \in Names
  BY <1>2 DEF Progress, ExtractionHangs
<1>4. \A a, b : OneEntity(a, b)' <=> OneEntity(a, b)
  BY DEF OneEntity
<1>5. PICK c \in Names : OneEntity(Last(old.path), c) /\ OneEntity(c, Label(row))
  BY <1>1 DEF Name
<1>6. CASE Len(old.path) = 1
  <2>1. PICK state : state = [old EXCEPT !.pc = "bound", !.known = known, !.fresh = {}, !.answer = row]
    OBVIOUS
  <2>2. /\ state \in Progress /\ state.pc = "bound" /\ state.known = known /\ state.answer = row
        /\ state.path = old.path /\ state.asked = old.asked /\ state.aliases = old.aliases
    BY <1>2, <2>1 DEF Progress
  <2>3. extraction' = [extraction EXCEPT ![e] = state]
    BY <1>1, <1>2, <1>6, <2>1 DEF Bind
  <2>4. BoundTo(old.asked, row)
    <3>1. Last(old.path) = old.path[1] /\ old.path[1] \in Names
      BY <1>3, <1>6, PathParts
    <3>2. old.asked = old.path[1] \/ OneEntity(old.asked, old.path[1])
      BY <1>2 DEF ExtractionHangs
    <3> QED
      BY <1>5, <3>1, <3>2 DEF BoundTo
  <2>5. BoundTo(old.asked, row)'
    BY <1>4, <2>4 DEF BoundTo
  <2>6. ExtractionHangs(e, state)'
    BY <1>2, <1>4, <2>2, <2>5 DEF ExtractionHangs, Naming
  <2> QED
    BY <2>2, <2>3, <2>6
<1>7. CASE Len(old.path) # 1
  <2>1. PICK state : state = [old EXCEPT !.pc = "create", !.known = known, !.fresh = {}, !.answer = row,
                                         !.path = Front(old.path), !.above = old.above \cup {row}]
    OBVIOUS
  <2>2. /\ Front(old.path) \in Seq(Names) /\ Len(Front(old.path)) >= 1
        /\ Front(old.path)[1] = old.path[1]
    BY <1>3, <1>7, PathParts
  <2>3. /\ state \in Progress /\ state.pc = "create" /\ state.known = known /\ state.answer = row
        /\ state.path = Front(old.path) /\ state.asked = old.asked /\ state.aliases = old.aliases
    BY <1>2, <2>1, <2>2 DEF Progress
  <2>4. extraction' = [extraction EXCEPT ![e] = state]
    BY <1>1, <1>2, <1>7, <2>1 DEF Bind, Progress
  <2>5. ExtractionHangs(e, state)'
    BY <1>2, <1>4, <2>2, <2>3 DEF ExtractionHangs, Naming
  <2> QED
    BY <2>3, <2>4, <2>5
<1> QED
  BY <1>6, <1>7

\* Nothing is bound.
LEMMA LeaveHangs ==
    ASSUME CatalogInv, NEW e \in Extractors, Leave(e), extraction[e].pc \in Naming
    PROVE  \E state \in Progress :
              /\ extraction' = [extraction EXCEPT ![e] = state]
              /\ ExtractionHangs(e, state)
              /\ state.pc = "bound" /\ state.answer = Nobody
<1>1. PICK old : old = extraction[e]
  OBVIOUS
<1>2. /\ old \in Progress /\ ExtractionHangs(e, old) /\ old.pc \in Naming
      /\ extraction \in [Extractors -> Progress]
  BY <1>1 DEF CatalogInv, CatalogTypes
<1>3. old.path \in Seq(Names) /\ Len(old.path) >= 1 /\ old.asked \in Names
  BY <1>2 DEF Progress, ExtractionHangs
<1>4. PICK head : head = <<Head(old.path)>>
  OBVIOUS
<1>5. head \in Seq(Names) /\ Len(head) >= 1 /\ head[1] = old.path[1]
  BY <1>3, <1>4, PathParts
<1>6. PICK state : state = [old EXCEPT !.pc = "bound", !.fresh = {}, !.path = head, !.answer = Nobody]
  OBVIOUS
<1>7. /\ state \in Progress /\ state.pc = "bound" /\ state.answer = Nobody /\ state.path = head
      /\ state.asked = old.asked /\ state.known = old.known /\ state.aliases = old.aliases
  BY <1>2, <1>5, <1>6 DEF Progress
<1>8. extraction' = [extraction EXCEPT ![e] = state]
  BY <1>1, <1>2, <1>4, <1>6 DEF Leave, Progress
<1>9. ExtractionHangs(e, state)
  BY <1>2, <1>5, <1>7 DEF ExtractionHangs, Naming
<1> QED
  BY <1>7, <1>8, <1>9

LEMMA LoadsKeep ==
    ASSUME CatalogInv, NEW e \in Extractors, LoadCandidates(e) \/ LoadAliases(e)
    PROVE  CatalogInv'
<1>1. PICK old : old = extraction[e]
  OBVIOUS
<1>2. /\ old \in Progress /\ ExtractionHangs(e, old) /\ extraction \in [Extractors -> Progress]
  BY <1>1 DEF CatalogInv, CatalogTypes
<1>3. CASE LoadCandidates(e)
  <2>1. PICK known : known = Labelled(catalog)
    OBVIOUS
  <2>2. PICK state : state = [old EXCEPT !.pc = "candidates", !.known = known]
    OBVIOUS
  <2>3. known \in SUBSET Candidates /\ KinOfRows(known)
    BY <2>1, LabelledKin
  <2>4. /\ state \in Progress /\ state.pc = "candidates" /\ state.known = known
        /\ state.answer = old.answer /\ state.aliases = old.aliases
    BY <1>2, <2>2, <2>3 DEF Progress
  <2>5. extraction' = [extraction EXCEPT ![e] = state]
    BY <1>1, <1>2, <1>3, <2>1, <2>2 DEF LoadCandidates
  <2>6. ExtractionHangs(e, state)
    BY <1>2, <2>3, <2>4 DEF ExtractionHangs, Naming
  <2> QED
    BY <1>3, <2>4, <2>5, <2>6, QuietGoesOn DEF LoadCandidates
<1>4. CASE LoadAliases(e)
  <2>1. PICK aliases : aliases = Aliases
    OBVIOUS
  <2>2. PICK state : state = [old EXCEPT !.pc = "loaded", !.aliases = aliases]
    OBVIOUS
  <2>3. aliases \in SUBSET Names /\ aliases \subseteq confirmed
    BY <2>1 DEF Aliases, CatalogInv
  <2>4. /\ state \in Progress /\ state.pc = "loaded" /\ state.known = old.known
        /\ state.answer = old.answer /\ state.aliases = aliases
    BY <1>2, <2>2, <2>3 DEF Progress
  <2>5. extraction' = [extraction EXCEPT ![e] = state]
    BY <1>1, <1>2, <1>4, <2>1, <2>2 DEF LoadAliases
  <2>6. ExtractionHangs(e, state)
    BY <1>2, <2>3, <2>4 DEF ExtractionHangs, Naming
  <2> QED
    BY <1>4, <2>4, <2>5, <2>6, QuietGoesOn DEF LoadAliases
<1> QED
  BY <1>3, <1>4

LEMMA MentionKeeps ==
    ASSUME CatalogInv, NEW e \in Extractors, MentionName(e)
    PROVE  CatalogInv'
<1>1. PICK old : old = extraction[e]
  OBVIOUS
<1>2. /\ old \in Progress /\ ExtractionHangs(e, old) /\ extraction \in [Extractors -> Progress]
  BY <1>1 DEF CatalogInv, CatalogTypes
<1>3. PICK name \in Names, first \in Names, pc \in {"bound", "unknown", "bind"} :
          /\ extraction' = [extraction EXCEPT ![e] = [old EXCEPT
                 !.asked = name, !.path = <<first>>, !.above = {}, !.answer = Nobody, !.pc = pc]]
          /\ first = name \/ (resolution[name] = "corroborated" /\ first = FullName[name])
          /\ pc = "unknown" => first = name
  <2>1. PICK name \in Names :
            LET tied   == Cardinality(BestRows(name, extraction[e].known, Enough)) > 1
                asking == resolution[name] = "none"
                used   == IF resolution[name] = "corroborated" THEN FullName[name] ELSE name
            IN  extraction' = [extraction EXCEPT ![e] = [@ EXCEPT
                    !.asked = name, !.path = <<IF tied THEN name ELSE used>>,
                    !.above = {}, !.answer = Nobody,
                    !.pc = IF tied THEN "bound" ELSE IF asking THEN "unknown" ELSE "bind"]]
    BY DEF MentionName
  <2> DEFINE tied == Cardinality(BestRows(name, extraction[e].known, Enough)) > 1
             asking == resolution[name] = "none"
             used == IF resolution[name] = "corroborated" THEN FullName[name] ELSE name
  <2>2. used \in Names
    BY CatalogFullNames DEF CatalogInv, CatalogTypes, Aliases
  <2>3. PICK first \in Names, pc \in {"bound", "unknown", "bind"} :
            /\ first = (IF tied THEN name ELSE used)
            /\ pc = (IF tied THEN "bound" ELSE IF asking THEN "unknown" ELSE "bind")
    <3> HIDE DEF tied, asking, used
    <3> QED
      BY <2>2
  <2>4. extraction' = [extraction EXCEPT ![e] = [old EXCEPT
                 !.asked = name, !.path = <<first>>, !.above = {}, !.answer = Nobody, !.pc = pc]]
    <3> HIDE DEF tied, asking, used
    <3>1. extraction' = [extraction EXCEPT ![e] = [@ EXCEPT
                    !.asked = name, !.path = <<IF tied THEN name ELSE used>>,
                    !.above = {}, !.answer = Nobody,
                    !.pc = IF tied THEN "bound" ELSE IF asking THEN "unknown" ELSE "bind"]]
      BY <2>1 DEF tied, asking, used
    <3> QED
      BY <1>1, <1>2, <2>3, <3>1
  <2> QED
    BY <2>3, <2>4
<1>4. PICK state : state = [old EXCEPT
          !.asked = name, !.path = <<first>>, !.above = {}, !.answer = Nobody, !.pc = pc]
  OBVIOUS
<1>5. first \in Names /\ (name = first \/ OneEntity(name, first))
  <2>1. resolution[name] = "corroborated" => name \in confirmed
    BY DEF CatalogInv, Aliases
  <2>2. name \in confirmed => FullName[name] \in Names
    BY CatalogFullNames DEF CatalogInv, CatalogTypes
  <2> QED
    BY <1>3, <2>1, <2>2 DEF OneEntity
<1>6. /\ <<first>> \in Seq(Names) /\ Len(<<first>>) = 1 /\ <<first>>[1] = first
  BY <1>5
<1>7. /\ state \in Progress /\ state.pc = pc /\ state.known = old.known /\ state.path = <<first>>
      /\ state.asked = name /\ state.answer = Nobody /\ state.aliases = old.aliases
  <2>1. PICK path : path = <<first>>
    OBVIOUS
  <2>2. path \in Seq(Names)
    BY <1>6, <2>1
  <2>3. pc \in {"idle", "candidates", "loaded", "unknown", "bind", "create", "locked", "bound"}
    BY <1>3
  <2>4. state = [old EXCEPT !.asked = name, !.path = path, !.above = {}, !.answer = Nobody, !.pc = pc]
    BY <1>4, <2>1
  <2> QED
    BY <1>2, <2>1, <2>2, <2>3, <2>4 DEF Progress
<1>8. ExtractionHangs(e, state)
  BY <1>2, <1>3, <1>5, <1>6, <1>7 DEF ExtractionHangs, Naming
<1> QED
  BY <1>3, <1>4, <1>7, <1>8, QuietGoesOn DEF MentionName

LEMMA NextMentionKeeps ==
    ASSUME CatalogInv, NEW e \in Extractors, NextMention(e)
    PROVE  CatalogInv'
<1>1. PICK old : old = extraction[e]
  OBVIOUS
<1>2. /\ old \in Progress /\ ExtractionHangs(e, old) /\ extraction \in [Extractors -> Progress]
  BY <1>1 DEF CatalogInv, CatalogTypes
<1>3. PICK state : state = [NoProgress EXCEPT !.pc = "loaded", !.known = old.known, !.aliases = old.aliases]
  OBVIOUS
<1>4. state \in Progress
  BY <1>2, <1>3, NoProgressTyped DEF Progress
<1>5. /\ state.pc = "loaded" /\ state.known = old.known /\ state.aliases = old.aliases
      /\ state.answer = Nobody
  BY <1>3 DEF NoProgress
<1>6. ExtractionHangs(e, state)
  BY <1>2, <1>5 DEF ExtractionHangs, Naming
<1> QED
  BY <1>1, <1>3, <1>4, <1>6, QuietGoesOn DEF NextMention

LEMMA ResolveKeeps ==
    ASSUME CatalogInv, NEW e \in Extractors, ResolveName(e)
    PROVE  CatalogInv'
<1>1. PICK old : old = extraction[e]
  OBVIOUS
<1>2. /\ old \in Progress /\ ExtractionHangs(e, old) /\ extraction \in [Extractors -> Progress]
      /\ old.pc = "unknown" /\ old.asked \in Names /\ old.path = <<old.asked>>
  BY <1>1 DEF CatalogInv, CatalogTypes, ResolveName, ExtractionHangs, Naming
<1>3. CASE extraction' = [extraction EXCEPT ![e].pc = "bind"] /\ UNCHANGED <<resolution, confirmed>>
  <2>1. PICK state : state = [old EXCEPT !.pc = "bind"]
    OBVIOUS
  <2>2. /\ state \in Progress /\ state.pc = "bind" /\ state.known = old.known /\ state.path = old.path
        /\ state.asked = old.asked /\ state.answer = old.answer /\ state.aliases = old.aliases
    BY <1>2, <2>1 DEF Progress
  <2>3. ExtractionHangs(e, state)
    BY <1>2, <2>2 DEF ExtractionHangs, Naming
  <2>4. extraction' = [extraction EXCEPT ![e] = state]
    BY <1>1, <1>2, <1>3, <2>1
  <2> QED
    BY <1>3, <2>2, <2>3, <2>4, QuietGoesOn DEF ResolveName
<1>4. CASE \E verdict \in {"corroborated", "other"} :
              /\ Proposed(old.asked)
              /\ resolution' = [resolution EXCEPT ![old.asked] = verdict]
              /\ confirmed' = IF verdict = "corroborated" THEN confirmed \cup {old.asked} ELSE confirmed
              /\ extraction' = [extraction EXCEPT ![e].pc = "bind",
                     ![e].path = <<IF verdict = "corroborated" THEN FullName[old.asked] ELSE old.asked>>]
  <2>1. PICK verdict \in {"corroborated", "other"} :
              /\ Proposed(old.asked)
              /\ resolution' = [resolution EXCEPT ![old.asked] = verdict]
              /\ confirmed' = IF verdict = "corroborated" THEN confirmed \cup {old.asked} ELSE confirmed
              /\ extraction' = [extraction EXCEPT ![e].pc = "bind",
                     ![e].path = <<IF verdict = "corroborated" THEN FullName[old.asked] ELSE old.asked>>]
    BY <1>4
  <2>2. FullName[old.asked] \in Names /\ FullName[old.asked] # Nobody
    BY <1>2, <2>1, CatalogFullNames DEF Proposed
  <2>3. PICK first : first = IF verdict = "corroborated" THEN FullName[old.asked] ELSE old.asked
    OBVIOUS
  <2>4. PICK path : path = <<first>>
    OBVIOUS
  <2>5. path \in Seq(Names) /\ Len(path) = 1 /\ path[1] = first
    BY <1>2, <2>2, <2>3, <2>4
  <2>6. PICK state : state = [old EXCEPT !.pc = "bind", !.path = path]
    OBVIOUS
  <2>7. /\ state \in Progress /\ state.pc = "bind" /\ state.known = old.known /\ state.path = path
        /\ state.asked = old.asked /\ state.answer = old.answer /\ state.aliases = old.aliases
    BY <1>2, <2>5, <2>6 DEF Progress
  <2>8. extraction' = [extraction EXCEPT ![e] = state]
    BY <1>1, <1>2, <2>1, <2>3, <2>4, <2>6
  <2>9. /\ resolution' \in [Names -> {"none", "corroborated", "other"}]
        /\ confirmed \subseteq confirmed'
        /\ confirmed' \subseteq {n \in Names : FullName[n] # Nobody}
        /\ Aliases' \subseteq confirmed'
    <3>1. resolution \in [Names -> {"none", "corroborated", "other"}]
          /\ confirmed \subseteq {n \in Names : FullName[n] # Nobody} /\ Aliases \subseteq confirmed
      BY DEF CatalogInv, CatalogTypes
    <3> QED
      BY <1>2, <2>1, <2>2, <3>1 DEF Aliases
  <2>10. first = old.asked \/ OneEntity(old.asked, first)'
    BY <2>1, <2>3 DEF OneEntity
  <2>11. \A a, b : OneEntity(a, b) => OneEntity(a, b)'
    BY <2>9 DEF OneEntity
  <2>12. KinOfRows(old.known)'
    BY <1>2, <2>11 DEF KinOfRows, ExtractionHangs, ResolveName
  <2>13. UNCHANGED <<catalog, parent, lock>>
    BY DEF ResolveName
  <2>14. ExtractionHangs(e, state)'
    BY <1>2, <2>5, <2>7, <2>9, <2>10, <2>12, <2>13 DEF ExtractionHangs, Naming
  <2> QED
    BY <2>7, <2>8, <2>9, <2>13, <2>14, ExtractionGoesOn DEF CatalogInv, CatalogTypes
<1> QED
  BY <1>1, <1>3, <1>4 DEF ResolveName

LEMMA PlaceKeeps ==
    ASSUME CatalogInv, NEW e \in Extractors, Place(e)
    PROVE  CatalogInv'
<1>1. PICK old : old = extraction[e]
  OBVIOUS
<1>2. /\ old \in Progress /\ ExtractionHangs(e, old) /\ extraction \in [Extractors -> Progress]
      /\ old.pc = "bind" /\ extraction[e].pc \in Naming
  BY <1>1 DEF CatalogInv, CatalogTypes, Place, Naming
<1>3. /\ old.path \in Seq(Names) /\ Len(old.path) >= 1
      /\ Name(e) = Last(old.path) /\ Name(e) \in Names
      /\ old.known \in SUBSET Candidates /\ old.aliases \in SUBSET confirmed
  BY <1>1, <1>2, PathParts DEF Progress, ExtractionHangs, Naming, Name
<1>4. UNCHANGED <<catalog, parent, resolution, confirmed, lock>>
  BY DEF Place
<1>5. ASSUME NEW row \in Hits(Name(e), old.known, old.aliases), Bind(e, row, old.known)
      PROVE  CatalogInv'
  <2>1. PICK c \in old.known : c.row = row /\ OneEntity(Name(e), c.label)
    BY <1>3, HitIsKin
  <2>2. /\ c \in Candidates /\ c.row \in catalog /\ OneEntity(c.label, Label(c.row))
    BY <1>2, <1>3 DEF ExtractionHangs, KinOfRows
  <2>3. row \in Rows /\ row \in catalog /\ c.label \in Names
    BY <2>1, <2>2 DEF Candidates
  <2>4. KinOfRows(old.known)'
    BY <1>2, <1>4 DEF ExtractionHangs, KinOfRows, OneEntity
  <2>5. \E state \in Progress :
              /\ extraction' = [extraction EXCEPT ![e] = state]
              /\ ExtractionHangs(e, state)'
    BY <1>2, <1>3, <1>4, <1>5, <2>1, <2>2, <2>3, <2>4, BindHangs
  <2> QED
    BY <1>4, <2>5, ExtractionGoesOn DEF CatalogInv, CatalogTypes, Aliases
<1>6. ASSUME Leave(e) PROVE CatalogInv'
  BY <1>2, <1>4, <1>6, LeaveHangs, QuietGoesOn
<1>7. ASSUME extraction' = [extraction EXCEPT ![e].pc = "create", ![e].answer = Nobody]
      PROVE  CatalogInv'
  <2>1. PICK state : state = [old EXCEPT !.pc = "create", !.answer = Nobody]
    OBVIOUS
  <2>2. /\ state \in Progress /\ state.pc = "create" /\ state.known = old.known /\ state.path = old.path
        /\ state.asked = old.asked /\ state.answer = Nobody /\ state.aliases = old.aliases
    BY <1>2, <2>1 DEF Progress
  <2>3. ExtractionHangs(e, state)
    BY <1>2, <2>2 DEF ExtractionHangs, Naming
  <2>4. extraction' = [extraction EXCEPT ![e] = state]
    BY <1>1, <1>2, <1>7, <2>1
  <2> QED
    BY <1>4, <2>2, <2>3, <2>4, QuietGoesOn
<1>8. ASSUME NEW above \in Names, extraction' = [extraction EXCEPT ![e].path = Append(@, above)]
      PROVE  CatalogInv'
  <2>1. PICK path : path = Append(old.path, above)
    OBVIOUS
  <2>2. path \in Seq(Names) /\ Len(path) >= 1 /\ path[1] = old.path[1]
    BY <1>3, <2>1, PathParts
  <2>3. PICK state : state = [old EXCEPT !.path = path]
    OBVIOUS
  <2>4. /\ state \in Progress /\ state.pc = old.pc /\ state.known = old.known /\ state.path = path
        /\ state.asked = old.asked /\ state.answer = old.answer /\ state.aliases = old.aliases
    BY <1>2, <2>2, <2>3 DEF Progress
  <2>5. ExtractionHangs(e, state)
    BY <1>2, <2>2, <2>4 DEF ExtractionHangs, Naming
  <2>6. extraction' = [extraction EXCEPT ![e] = state]
    BY <1>1, <1>2, <1>8, <2>1, <2>3
  <2> QED
    BY <1>4, <2>4, <2>5, <2>6, QuietGoesOn
<1> QED
  BY <1>1, <1>5, <1>6, <1>7, <1>8 DEF Place

LEMMA LockKeeps ==
    ASSUME CatalogInv, NEW e \in Extractors, TakeLock(e)
    PROVE  CatalogInv'
<1>1. PICK old : old = extraction[e]
  OBVIOUS
<1>2. /\ old \in Progress /\ ExtractionHangs(e, old) /\ extraction \in [Extractors -> Progress]
      /\ old.pc = "create" /\ lock = Nobody /\ lock' = e
      /\ UNCHANGED <<catalog, parent, resolution, confirmed>>
  BY <1>1 DEF CatalogInv, CatalogTypes, TakeLock, Unlocked
<1>3. PICK fresh : fresh = Labelled(catalog \ old.above)
  OBVIOUS
<1>4. fresh \in SUBSET Candidates
  BY <1>3, LabelledKin
<1>5. PICK state : state = [old EXCEPT !.pc = "locked", !.fresh = fresh]
  OBVIOUS
<1>6. /\ state \in Progress /\ state.pc = "locked" /\ state.known = old.known /\ state.path = old.path
      /\ state.asked = old.asked /\ state.answer = old.answer /\ state.aliases = old.aliases
      /\ state.fresh = fresh /\ state.above = old.above
  BY <1>2, <1>4, <1>5 DEF Progress
<1>7. ExtractionHangs(e, state)'
  <2>1. fresh = Labelled(catalog \ state.above)'
    BY <1>2, <1>3, <1>6 DEF Labelled
  <2>2. KinOfRows(old.known)'
    BY <1>2 DEF ExtractionHangs, KinOfRows, OneEntity
  <2>3. OneEntity(old.asked, old.path[1]) => OneEntity(old.asked, old.path[1])'
    BY <1>2 DEF OneEntity
  <2> QED
    BY <1>2, <1>6, <2>1, <2>2, <2>3 DEF ExtractionHangs, Naming
<1>8. extraction' = [extraction EXCEPT ![e] = state]
  BY <1>1, <1>2, <1>3, <1>5 DEF TakeLock
<1>9. Nobody \notin Extractors
  BY CatalogNobody
<1> QED
  BY <1>2, <1>6, <1>7, <1>8, <1>9, ExtractionGoesOn DEF CatalogInv, CatalogTypes, Aliases

LEMMA CreateKeeps ==
    ASSUME CatalogInv, NEW e \in Extractors, Create(e)
    PROVE  CatalogInv'
<1>1. PICK old : old = extraction[e]
  OBVIOUS
<1>2. /\ old \in Progress /\ ExtractionHangs(e, old) /\ extraction \in [Extractors -> Progress]
      /\ old.pc = "locked" /\ lock = e /\ lock' = Nobody /\ UNCHANGED <<resolution, confirmed>>
      /\ old.fresh = Labelled(catalog \ old.above) /\ extraction[e].pc \in Naming
  BY <1>1 DEF CatalogInv, CatalogTypes, Create, ExtractionHangs, Naming
<1>3. /\ old.path \in Seq(Names) /\ Len(old.path) >= 1
      /\ Name(e) = Last(old.path) /\ Name(e) \in Names
      /\ old.known \in SUBSET Candidates /\ KinOfRows(old.known)
  BY <1>1, <1>2, PathParts DEF Progress, ExtractionHangs, Naming, Name
<1>4. old.fresh \in SUBSET Candidates /\ KinOfRows(old.fresh)
  BY <1>2, LabelledKin
<1>5. Aliases \in SUBSET confirmed
  BY DEF CatalogInv
<1>6. \A a, b : OneEntity(a, b)' <=> OneEntity(a, b)
  BY <1>2 DEF OneEntity
<1>7. \A o \in Extractors \ {e} : lock # o
  BY <1>2
<1>8. Aliases' \subseteq confirmed' /\ Nobody \in Extractors \cup {Nobody}
  BY <1>2, <1>5 DEF Aliases
\* What is bound under the lock is remembered under the name that it was found by.
<1>9. ASSUME NEW row \in Rows, catalog \subseteq catalog', catalog' \subseteq Rows, row \in catalog',
             parent' \in [Rows -> Rows \cup {Nobody}], OneEntity(Name(e), Label(row)),
             Bind(e, row, Remembered(old.known, row, Name(e)))
      PROVE  CatalogInv'
  <2>1. PICK known : known = Remembered(old.known, row, Name(e))
    OBVIOUS
  <2>2. PICK candidate : candidate = [row |-> row, label |-> Name(e)]
    OBVIOUS
  <2>3. candidate \in Candidates /\ candidate.row = row /\ candidate.label = Name(e)
    BY <1>3, <2>2 DEF Candidates
  <2>4. known \in SUBSET Candidates /\ \A c \in known : c \in old.known \/ c = candidate
    BY <1>3, <2>1, <2>2, <2>3 DEF Remembered
  <2>5. \A c \in known : c.row \in catalog' /\ OneEntity(c.label, Label(c.row))
    BY <1>3, <1>9, <2>3, <2>4 DEF KinOfRows
  <2>6. KinOfRows(known)'
    BY <1>6, <2>5 DEF KinOfRows
  <2>7. OneEntity(Name(e), Name(e))
    BY <1>3, KinIsReflexive
  <2>8. \E state \in Progress :
              /\ extraction' = [extraction EXCEPT ![e] = state]
              /\ ExtractionHangs(e, state)'
    BY <1>2, <1>3, <1>9, <2>1, <2>4, <2>6, <2>7, BindHangs
  <2> QED
    BY <1>2, <1>7, <1>8, <1>9, <2>8, ExtractionGoesOn DEF CatalogInv, CatalogTypes
<1>10. ASSUME NEW row \in Hits(Name(e), old.fresh, Aliases), UNCHANGED <<catalog, parent>>,
              Bind(e, row, Remembered(old.known, row, Name(e)))
       PROVE  CatalogInv'
  <2>1. PICK c \in old.fresh : c.row = row /\ OneEntity(Name(e), c.label)
    BY <1>3, <1>4, <1>5, HitIsKin
  <2>2. c.label = Label(row)
    BY <1>2, <2>1 DEF Labelled
  <2>3. row \in catalog /\ row \in Rows
    BY <1>4, <2>1 DEF KinOfRows, CatalogInv, CatalogTypes
  <2> QED
    BY <1>9, <1>10, <2>1, <2>2, <2>3 DEF CatalogInv, CatalogTypes
<1>11. ASSUME Leave(e), UNCHANGED <<catalog, parent>> PROVE CatalogInv'
  <2>1. PICK state \in Progress :
              /\ extraction' = [extraction EXCEPT ![e] = state]
              /\ ExtractionHangs(e, state)
              /\ state.pc = "bound" /\ state.answer = Nobody
    BY <1>2, <1>11, LeaveHangs
  <2>2. ExtractionHangs(e, state)'
    BY <1>2, <1>6, <1>11, <2>1 DEF ExtractionHangs, KinOfRows, Naming
  <2> QED
    BY <1>2, <1>7, <1>8, <1>11, <2>1, <2>2, ExtractionGoesOn DEF CatalogInv, CatalogTypes
<1>12. ASSUME catalog' = catalog \cup {Name(e)}, parent' = [parent EXCEPT ![Name(e)] = old.answer],
              Bind(e, Name(e), Remembered(old.known, Name(e), Name(e)))
       PROVE  CatalogInv'
  <2>1. PICK name : name = Name(e)
    OBVIOUS
  <2>2. name \in Rows /\ Label(name) = name /\ OneEntity(name, name) /\ name \in Names
    BY <1>3, <2>1, LabelTyped, KinIsReflexive
  <2>3. catalog' \subseteq Rows /\ catalog \subseteq catalog' /\ name \in catalog'
    BY <1>12, <2>1, <2>2 DEF CatalogInv, CatalogTypes
  <2>4. parent' \in [Rows -> Rows \cup {Nobody}]
    <3>1. old.answer \in Rows \cup {Nobody}
      BY <1>2 DEF Progress
    <3> QED
      BY <1>12, <3>1 DEF CatalogInv, CatalogTypes
  <2> QED
    BY <1>9, <1>12, <2>1, <2>2, <2>3, <2>4
<1> QED
  BY <1>1, <1>10, <1>11, <1>12 DEF Create

LEMMA EndKeeps ==
    ASSUME CatalogInv, NEW e \in Extractors, EndExtraction(e)
    PROVE  CatalogInv'
<1>1. /\ extraction' = [extraction EXCEPT ![e] = NoProgress]
      /\ lock' = IF lock = e THEN Nobody ELSE lock
      /\ UNCHANGED <<catalog, parent, resolution, confirmed>>
  BY DEF EndExtraction
<1>2. PICK state : state = NoProgress
  OBVIOUS
<1>3. /\ state.pc = "idle" /\ state.known = {} /\ state.aliases = {} /\ state.answer = Nobody
  BY <1>2 DEF NoProgress
<1>4. ExtractionHangs(e, state)'
  BY <1>3 DEF ExtractionHangs, KinOfRows, Naming
<1>5. \A o \in Extractors \ {e} : lock = o => lock' = o
  BY <1>1
<1> QED
  BY <1>1, <1>2, <1>4, <1>5, NoProgressTyped, ExtractionGoesOn DEF CatalogInv, CatalogTypes, Aliases

LEMMA CatalogInvInit == CatalogInit => CatalogInv
<1> SUFFICES ASSUME CatalogInit PROVE CatalogInv
  OBVIOUS
<1>1. CatalogTypes
  BY NoProgressTyped DEF CatalogInit, CatalogTypes, Rows
<1> QED
  BY <1>1, NoProgressTyped DEF CatalogInit, CatalogInv, Aliases

LEMMA CatalogInvStep == CatalogInv /\ [CatalogNext]_catalogVars => CatalogInv'
<1> SUFFICES ASSUME CatalogInv, [CatalogNext]_catalogVars PROVE CatalogInv'
  OBVIOUS
<1>1. ASSUME NEW e \in Extractors, ExtractionStep(e) PROVE CatalogInv'
  BY <1>1, LoadsKeep, MentionKeeps, ResolveKeeps, PlaceKeeps, LockKeeps, CreateKeeps,
     NextMentionKeeps, EndKeeps DEF ExtractionStep
<1>2. CASE UNCHANGED catalogVars
  BY <1>2 DEF catalogVars, CatalogInv, CatalogTypes, Aliases, ExtractionHangs, KinOfRows, BoundTo,
              OneEntity, Labelled
<1> QED
  BY <1>1, <1>2 DEF CatalogNext

LEMMA CatalogInvBound == CatalogInv => CatalogTypeOK /\ BoundByLikeness
<1> SUFFICES ASSUME CatalogInv PROVE CatalogTypeOK /\ BoundByLikeness
  OBVIOUS
<1>1. ASSUME NEW e \in Extractors
      PROVE  extraction[e] \in Progress /\ ExtractionHangs(e, extraction[e])
  BY DEF CatalogInv, CatalogTypes
<1>2. CatalogTypeOK
  BY <1>1 DEF CatalogInv, CatalogTypes, CatalogTypeOK, Progress
<1>3. BoundByLikeness
  BY <1>1 DEF BoundByLikeness, ExtractionHangs, BoundTo
<1> QED
  BY <1>2, <1>3

\* A step of one extraction leaves the others where they are.
LEMMA OneExtractionSteps ==
    ASSUME CatalogInv, NEW e \in Extractors, ExtractionStep(e), NEW o \in Extractors, o # e
    PROVE  extraction'[o] = extraction[o]
<1>1. extraction \in [Extractors -> Progress]
  BY DEF CatalogInv, CatalogTypes
<1>2. \/ \E state : extraction' = [extraction EXCEPT ![e] = state]
      \/ LoadCandidates(e) \/ LoadAliases(e) \/ MentionName(e) \/ ResolveName(e) \/ Place(e)
      \/ TakeLock(e) \/ Create(e)
  BY DEF ExtractionStep, NextMention, EndExtraction
<1>3. Place(e) \/ Create(e) => extraction'[o] = extraction[o]
  BY <1>1 DEF Place, Create, Bind, Leave
<1>4. LoadCandidates(e) \/ LoadAliases(e) \/ TakeLock(e) => extraction'[o] = extraction[o]
  BY <1>1 DEF LoadCandidates, LoadAliases, TakeLock
<1>5. MentionName(e) \/ ResolveName(e) => extraction'[o] = extraction[o]
  BY <1>1 DEF MentionName, ResolveName
<1> QED
  BY <1>1, <1>2, <1>3, <1>4, <1>5

LEMMA CreatedAlone ==
    ASSUME CatalogInv, [CatalogNext]_catalogVars, NEW e \in Extractors, NEW name \in catalog' \ catalog,
           extraction[e].pc = "locked", extraction'[e].pc # "locked"
    PROVE  BestRows(name, Labelled(catalog \ extraction[e].above), Enough) = {}
<1>1. PICK o \in Extractors : ExtractionStep(o)
  BY DEF CatalogNext, catalogVars
<1>2. o = e
  BY <1>1, OneExtractionSteps
<1>3. Create(e)
  BY <1>1, <1>2 DEF ExtractionStep, LoadCandidates, LoadAliases, MentionName, ResolveName, Place,
                    TakeLock, NextMention, EndExtraction
<1>4. name = Name(e) /\ Hits(Name(e), extraction[e].fresh, Aliases) = {}
  BY <1>3 DEF Create
<1>5. extraction[e].fresh = Labelled(catalog \ extraction[e].above)
  BY DEF CatalogInv, ExtractionHangs
<1> QED
  BY <1>4, <1>5 DEF Hits

\* Every mention is bound to a row of an entity with a name like it, and a row with a name like an
\* existing one is created only below a row of that entity, however extractions interleave
\* (resolve_organization_mention and corporate_entity_catalog.py): for every catalog, measure of
\* likeness and number of extractions.
THEOREM NamesBound == CatalogSpec => []CatalogTypeOK /\ NamesAreBound
<1>1. CatalogSpec => []CatalogInv
  BY CatalogInvInit, CatalogInvStep, PTL DEF CatalogSpec
<1>2. CatalogInv /\ [CatalogNext]_catalogVars =>
          [\A e \in Extractors : \A name \in catalog' \ catalog :
             extraction[e].pc = "locked" /\ extraction'[e].pc # "locked" =>
                 BestRows(name, Labelled(catalog \ extraction[e].above), Enough) = {}]_catalogVars
  BY CreatedAlone
<1> QED
  BY <1>1, <1>2, CatalogInvBound, PTL DEF CatalogSpec, NamesAreBound, TwinsAreKin

-----------------------------------------------------------------------------
(* What a post supports by itself: its mentions, names and co-mentions. *)

EdgeKinds == Direct \cup {"co_mention"}
KindsOf(m, p) == OfKinds(EdgeKinds, EdgesOfPost(m, p))

\* Two states of the mentions name the same in a post.
AgreeAt(m, n, p) == m.keymen[p] = n.keymen[p] /\ m.roles[p] = n.roles[p] /\ m.named[p] = n.named[p]

LEMMA KindsWrittenOut ==
    ASSUME NEW m, NEW p
    PROVE  KindsOf(m, p) =
             LET actors == m.keymen[p] \cup m.roles[p] IN
             {Mention(a, p) : a \in actors}
             \cup {CoMention(pair) : pair \in {x \in SUBSET (actors \cap People) : Cardinality(x) = 2}}
             \cup {NamedIn(o, p) : o \in m.named[p]}
<1> DEFINE actors == m.keymen[p] \cup m.roles[p]
           pairs == {x \in SUBSET (actors \cap People) : Cardinality(x) = 2}
           bound == {b \in actors : m.entity[b] # None}
<1>1. EdgesOfPost(m, p) = {Mention(a, p) : a \in actors}
            \cup {Affiliation(a, m.entity[a]) : a \in bound}
            \cup {CoMention(pair) : pair \in pairs}
            \cup {NamedIn(o, p) : o \in m.named[p]}
  BY DEF EdgesOfPost
<1>2. \A a, b : /\ Mention(a, b)[1] = "mention" /\ Affiliation(a, b)[1] = "affiliation"
                /\ CoMention(a)[1] = "co_mention" /\ NamedIn(a, b)[1] = "mention_organization"
  BY DEF Mention, Affiliation, CoMention, NamedIn
<1> HIDE DEF actors, pairs, bound
<1>3. KindsOf(m, p) = {Mention(a, p) : a \in actors}
            \cup {CoMention(pair) : pair \in pairs}
            \cup {NamedIn(o, p) : o \in m.named[p]}
  BY <1>1, <1>2 DEF KindsOf, OfKinds, EdgeKinds, Direct
<1> QED
  BY <1>3 DEF actors, pairs

LEMMA AgreeingKinds ==
    ASSUME NEW m, NEW n, NEW p, AgreeAt(m, n, p)
    PROVE  KindsOf(m, p) = KindsOf(n, p)
BY KindsWrittenOut DEF AgreeAt

\* Keymen are persons.
SomeChanges == {x \in Changes : x.kind = "keymen" => x.actors \subseteq People}

\* A change of one post keeps the shape and leaves other posts as they are; where two states
\* agree it makes them agree.
LEMMA AfterTyped ==
    ASSUME NEW m \in Mentions, NEW p \in Posts, NEW change \in SomeChanges
    PROVE  /\ After(m, p, change) \in Mentions
           /\ \A q \in Posts : q # p => AgreeAt(After(m, p, change), m, q)
<1> DEFINE entity == [a \in Actors |-> IF change.entity[a] = None THEN m.entity[a]
                                       ELSE change.entity[a]]
           kept == (m.keymen[p] \ change.gone) \cup change.actors
<1>1. /\ entity \in Affiliations
      /\ change.kind = "keymen" => kept \in SUBSET People
  BY DEF Mentions, SomeChanges, Changes, Affiliations
<1>2. After(m, p, change) = IF change.kind = "none" THEN m
        ELSE IF change.kind = "keymen"
        THEN [m EXCEPT !.keymen[p] = kept, !.entity = entity]
        ELSE [m EXCEPT !.roles[p] = change.actors, !.named[p] = change.orgs, !.entity = entity]
  BY DEF After, Mentions
<1> HIDE DEF entity, kept
<1>3. change.actors \in SUBSET Actors /\ change.orgs \in SUBSET Orgs
  BY DEF SomeChanges, Changes
<1>4. CASE change.kind = "none"
  BY <1>2, <1>4 DEF AgreeAt
<1>5. CASE change.kind = "keymen"
  <2>1. After(m, p, change) = [m EXCEPT !.keymen[p] = kept, !.entity = entity]
    BY <1>2, <1>5
  <2> DEFINE keymen == [m.keymen EXCEPT ![p] = kept]
  <2>2. keymen \in [Posts -> SUBSET People] /\ \A q \in Posts : q # p => keymen[q] = m.keymen[q]
    BY <1>1, <1>5 DEF Mentions
  <2>3. After(m, p, change) = [m EXCEPT !.keymen = keymen, !.entity = entity]
    BY <2>1 DEF Mentions
  <2> HIDE DEF keymen
  <2>4. /\ m = [keymen |-> m.keymen, roles |-> m.roles, named |-> m.named, entity |-> m.entity]
        /\ m.roles \in [Posts -> SUBSET Actors] /\ m.named \in [Posts -> SUBSET Orgs]
    BY DEF Mentions
  <2>5. After(m, p, change) =
            [keymen |-> keymen, roles |-> m.roles, named |-> m.named, entity |-> entity]
    BY <2>3, <2>4
  <2> QED
    BY <1>1, <2>2, <2>4, <2>5 DEF AgreeAt, Mentions
<1>6. CASE change.kind \notin {"none", "keymen"}
  <2>1. After(m, p, change) =
            [m EXCEPT !.roles[p] = change.actors, !.named[p] = change.orgs, !.entity = entity]
    BY <1>2, <1>6
  <2> DEFINE roles == [m.roles EXCEPT ![p] = change.actors]
             named == [m.named EXCEPT ![p] = change.orgs]
  <2>2. roles \in [Posts -> SUBSET Actors] /\ named \in [Posts -> SUBSET Orgs]
    BY <1>3 DEF Mentions
  <2>3. After(m, p, change) = [m EXCEPT !.roles = roles, !.named = named, !.entity = entity]
    BY <2>1 DEF Mentions
  <2>4. \A q \in Posts : q # p => roles[q] = m.roles[q] /\ named[q] = m.named[q]
    BY DEF Mentions
  <2> HIDE DEF roles, named
  <2>5. m = [keymen |-> m.keymen, roles |-> m.roles, named |-> m.named, entity |-> m.entity]
        /\ m.keymen \in [Posts -> SUBSET People]
    BY DEF Mentions
  <2>6. After(m, p, change) =
            [keymen |-> m.keymen, roles |-> roles, named |-> named, entity |-> entity]
    BY <2>3, <2>5
  <2> QED
    BY <1>1, <2>2, <2>4, <2>5, <2>6 DEF AgreeAt, Mentions
<1> QED
  BY <1>4, <1>5, <1>6

LEMMA AfterAgrees ==
    ASSUME NEW m \in Mentions, NEW n \in Mentions, NEW p \in Posts, NEW change \in SomeChanges,
           AgreeAt(m, n, p)
    PROVE  AgreeAt(After(m, p, change), After(n, p, change), p)
<1>1. ASSUME NEW k \in Mentions
      PROVE  /\ After(k, p, change).keymen[p] = IF change.kind = "keymen"
                      THEN (k.keymen[p] \ change.gone) \cup change.actors ELSE k.keymen[p]
             /\ After(k, p, change).roles[p] = IF change.kind \notin {"none", "keymen"}
                      THEN change.actors ELSE k.roles[p]
             /\ After(k, p, change).named[p] = IF change.kind \notin {"none", "keymen"}
                      THEN change.orgs ELSE k.named[p]
  <2> DEFINE entity == [a \in Actors |-> IF change.entity[a] = None THEN k.entity[a]
                                         ELSE change.entity[a]]
  <2>1. After(k, p, change) = IF change.kind = "none" THEN k
        ELSE IF change.kind = "keymen"
        THEN [k EXCEPT !.keymen[p] = (@ \ change.gone) \cup change.actors, !.entity = entity]
        ELSE [k EXCEPT !.roles[p] = change.actors, !.named[p] = change.orgs, !.entity = entity]
    BY DEF After
  <2> HIDE DEF entity
  <2>2. /\ k = [keymen |-> k.keymen, roles |-> k.roles, named |-> k.named, entity |-> k.entity]
        /\ k.keymen \in [Posts -> SUBSET People] /\ k.roles \in [Posts -> SUBSET Actors]
        /\ k.named \in [Posts -> SUBSET Orgs]
    BY DEF Mentions
  <2>3. CASE change.kind = "none"
    BY <2>1, <2>3
  <2>4. CASE change.kind = "keymen"
    <3> DEFINE keymen == [k.keymen EXCEPT ![p] = (k.keymen[p] \ change.gone) \cup change.actors]
    <3>1. keymen[p] = (k.keymen[p] \ change.gone) \cup change.actors
      BY <2>2
    <3>2. After(k, p, change) = [k EXCEPT !.keymen = keymen, !.entity = entity]
      BY <2>1, <2>2, <2>4
    <3> HIDE DEF keymen
    <3> QED
      BY <2>2, <2>4, <3>1, <3>2
  <2>5. CASE change.kind \notin {"none", "keymen"}
    <3> DEFINE roles == [k.roles EXCEPT ![p] = change.actors]
               named == [k.named EXCEPT ![p] = change.orgs]
    <3>1. roles[p] = change.actors /\ named[p] = change.orgs
      BY <2>2
    <3>2. After(k, p, change) = [k EXCEPT !.roles = roles, !.named = named, !.entity = entity]
      BY <2>1, <2>2, <2>5
    <3> HIDE DEF roles, named
    <3> QED
      BY <2>2, <2>5, <3>1, <3>2
  <2> QED
    BY <2>3, <2>4, <2>5
<1> QED
  BY <1>1 DEF AgreeAt

-----------------------------------------------------------------------------
(* The inductive invariant. *)

EvidenceFor(some, p) == {s[1] : s \in {x \in some : x[2] = p}}
Locked(r) == r.pc \in {"locked", "derived", "registered"}
Holding(r) == r.pc \in {"derived", "registered"}

IsProgress(r) ==
    /\ r = [pc |-> r.pc, post |-> r.post, apart |-> r.apart, change |-> r.change,
            edges |-> r.edges, evidence |-> r.evidence]
    /\ r.pc \in {"idle", "deleted", "graph", "locked", "derived", "registered"}
    /\ r.change \in SomeChanges
    /\ r.post \in Posts \cup {None}
    /\ r.pc # "idle" => r.post \in Posts

\* What a writer has derived and registered is right of posts that are not behind.
RowOK(r, m, late) == LET p == r.post  seen == After(m, r.post, r.change) IN
    /\ Holding(r) /\ p \notin late => OfKinds(EdgeKinds, r.edges) = KindsOf(seen, p)
    /\ r.pc = "registered" =>
           /\ \A s \in r.evidence : s[1] \in r.edges /\ s[2] \in Posts
           /\ p \notin late => OfKinds(EdgeKinds, EvidenceFor(r.evidence, p)) = KindsOf(seen, p)
           /\ \A q \in Posts \ late : q # p =>
                  OfKinds(EdgeKinds, EvidenceFor(r.evidence, q)) \subseteq KindsOf(m, q)

WritersInv ==
    /\ writer = [w \in GraphWriters |-> writer[w]]
    /\ \A w \in GraphWriters : IsProgress(writer[w]) /\ RowOK(writer[w], mentions, behind)

LockInv ==
    /\ \A w \in GraphWriters : w \in locking <=> Locked(writer[w])
    /\ locking \subseteq GraphWriters
    /\ \A v, w \in locking : v = w

EvidenceInv ==
    \A q \in Posts \ behind :
        (\A w \in GraphWriters : ~(Holding(writer[w]) /\ writer[w].post = q)) =>
            OfKinds(EdgeKinds, EvidenceFor(evidence, q)) = KindsOf(mentions, q)

GraphInv ==
    /\ mentions \in Mentions
    /\ WritersInv /\ LockInv /\ EvidenceInv
    /\ \A e \in edges : \E s \in evidence : s[1] = e
    /\ \A s \in evidence : s[1] \in edges /\ s[2] \in Posts
    /\ behind \subseteq Posts

LEMMA NoChangeTyped == NoChange \in SomeChanges
BY DEF NoChange, SomeChanges, Changes, Affiliations, Unbound

LEMMA GraphInvInit == GraphInit => GraphInv
<1> SUFFICES ASSUME GraphInit PROVE GraphInv
  OBVIOUS
<1>1. mentions \in Mentions
  BY DEF GraphInit, Mentions, Affiliations, Unbound
<1>2. /\ writer = [w \in GraphWriters |-> Rest] /\ evidence = {} /\ edges = {} /\ locking = {}
      /\ behind = {}
      /\ Rest.pc = "idle" /\ IsProgress(Rest)
  BY NoChangeTyped DEF GraphInit, Rest, IsProgress
<1>3. WritersInv /\ LockInv
  BY <1>2 DEF WritersInv, LockInv, RowOK, Holding, Locked
<1>4. EvidenceInv
  <2> SUFFICES ASSUME NEW q \in Posts
               PROVE  OfKinds(EdgeKinds, EvidenceFor(evidence, q)) = KindsOf(mentions, q)
    BY DEF EvidenceInv
  <2>1. OfKinds(EdgeKinds, EvidenceFor(evidence, q)) = {}
    BY <1>2 DEF OfKinds, EvidenceFor
  <2>2. /\ mentions.keymen[q] = {} /\ mentions.roles[q] = {} /\ mentions.named[q] = {}
    BY DEF GraphInit
  <2>3. {x \in SUBSET (({} \cup {}) \cap People) : Cardinality(x) = 2} = {}
    <3>1. \A x \in SUBSET (({} \cup {}) \cap People) : x = {}
      OBVIOUS
    <3> QED
      BY <3>1, FS_EmptySet
  <2>4. KindsOf(mentions, q) = {}
    BY <2>2, <2>3, KindsWrittenOut
  <2> QED
    BY <2>1, <2>4
<1> QED
  BY <1>1, <1>2, <1>3, <1>4 DEF GraphInv

\* What is known of a writer that is at work.
LEMMA AtWork ==
    ASSUME GraphInv, NEW w \in GraphWriters
    PROVE  /\ IsProgress(writer[w]) /\ RowOK(writer[w], mentions, behind)
           /\ writer[w].change \in SomeChanges
           /\ writer[w].pc # "idle" => writer[w].post \in Posts
BY DEF GraphInv, WritersInv, IsProgress

\* A writer proceeds, mentions of posts that are not behind stay, and evidence is as it was.
LEMMA Passing ==
    ASSUME GraphInv, NEW w \in GraphWriters, NEW r, writer' = [writer EXCEPT ![w] = r], IsProgress(r),
           UNCHANGED <<edges, evidence>>, mentions' \in Mentions,
           \A q \in Posts \ behind' : AgreeAt(mentions', mentions, q),
           \A q \in Posts \ behind' : q \notin behind \/ (Holding(r) /\ r.post = q),
           behind \subseteq behind' \/ \A v \in GraphWriters \ {w} : ~Holding(writer[v]),
           Holding(writer[w]) => \/ Holding(r) /\ r.post = writer[w].post
                                 \/ writer[w].post \in behind',
           RowOK(r, mentions', behind'), LockInv', behind' \subseteq Posts
    PROVE  GraphInv'
<1>1. writer' = [v \in GraphWriters |-> IF v = w THEN r ELSE writer[v]]
  BY DEF GraphInv, WritersInv
<1>2. ASSUME NEW v \in GraphWriters PROVE IsProgress(writer'[v]) /\ RowOK(writer'[v], mentions', behind')
  <2>1. CASE v = w
    BY <1>1, <2>1
  <2>2. CASE v # w
    <3> DEFINE x == writer[v]
    <3>1. writer'[v] = x /\ IsProgress(x) /\ RowOK(x, mentions, behind) /\ mentions \in Mentions
      BY <1>1, <2>2 DEF GraphInv, WritersInv
    <3>2. CASE ~Holding(x)
      <4>1. x.pc # "registered"
        BY <3>2 DEF Holding
      <4>2. RowOK(x, mentions', behind')
        <5> HIDE DEF x
        <5> QED
          BY <3>2, <4>1, Zenon DEF RowOK
      <4> QED
        BY <3>1, <4>2
    <3>3. CASE Holding(x)
      <4>1. behind \subseteq behind' /\ x.post \in Posts /\ x.change \in SomeChanges
        BY <2>2, <3>1, <3>3 DEF IsProgress, Holding
      <4>2. x.post \notin behind' =>
                KindsOf(After(mentions', x.post, x.change), x.post) =
                KindsOf(After(mentions, x.post, x.change), x.post)
        BY <3>1, <4>1, AfterAgrees, AgreeingKinds
      <4>3. \A q \in Posts \ behind' : KindsOf(mentions', q) = KindsOf(mentions, q)
        BY AgreeingKinds
      <4> HIDE DEF x
      <4> QED
        BY <3>1, <4>1, <4>2, <4>3 DEF RowOK
    <3> QED
      BY <3>2, <3>3
  <2> QED
    BY <2>1, <2>2
<1>3. WritersInv'
  <2>1. writer' = [v \in GraphWriters |-> writer'[v]]
    BY <1>1
  <2> QED
    BY <1>2, <2>1 DEF WritersInv, IsProgress, RowOK, Holding
<1>4. EvidenceInv'
  <2> SUFFICES ASSUME NEW q \in Posts \ behind',
                      \A v \in GraphWriters : ~(Holding(writer'[v]) /\ writer'[v].post = q)
               PROVE  OfKinds(EdgeKinds, EvidenceFor(evidence, q)) = KindsOf(mentions', q)
    BY DEF EvidenceInv, Holding, EvidenceFor
  <2>1. q \notin behind
    BY <1>1
  <2>2. \A v \in GraphWriters : ~(Holding(writer[v]) /\ writer[v].post = q)
    BY <1>1
  <2>3. OfKinds(EdgeKinds, EvidenceFor(evidence, q)) = KindsOf(mentions, q)
    BY <2>1, <2>2 DEF GraphInv, EvidenceInv
  <2>4. KindsOf(mentions', q) = KindsOf(mentions, q)
    BY AgreeingKinds
  <2> QED
    BY <2>3, <2>4
<1>5. /\ \A e \in edges' : \E s \in evidence' : s[1] = e
      /\ \A s \in evidence' : s[1] \in edges' /\ s[2] \in Posts
  BY DEF GraphInv
<1> QED
  BY <1>3, <1>4, <1>5 DEF GraphInv

-----------------------------------------------------------------------------
(* One lemma per action. *)

\* A writer that holds no lock proceeds without one.
LEMMA GoesUnlocked ==
    ASSUME LockInv, WritersInv, NEW w \in GraphWriters, ~Locked(writer[w]),
           NEW r, ~Locked(r), writer' = [writer EXCEPT ![w] = r], locking' = locking
    PROVE  LockInv'
<1>1. \A v \in GraphWriters : writer'[v] = IF v = w THEN r ELSE writer[v]
  BY DEF WritersInv
<1> QED
  BY <1>1 DEF LockInv, Locked

\* A writer that is not deriving edges proceeds, and mentions stay.
LEMMA Preparing ==
    ASSUME GraphInv, NEW w \in GraphWriters, ~Locked(writer[w]),
           NEW r, IsProgress(r), ~Locked(r), writer' = [writer EXCEPT ![w] = r],
           UNCHANGED <<mentions, edges, evidence, locking, behind>>
    PROVE  GraphInv'
<1>1. LockInv'
  BY GoesUnlocked DEF GraphInv
<1>2. RowOK(r, mentions', behind')
  BY DEF RowOK, Holding, Locked
<1>3. ~Holding(writer[w])
  BY DEF Holding, Locked
<1>4. \A q \in Posts : AgreeAt(mentions', mentions, q)
  BY DEF AgreeAt
<1>5. mentions' \in Mentions /\ behind' \subseteq Posts
  BY DEF GraphInv
<1> QED
  BY <1>1, <1>2, <1>3, <1>4, <1>5, Passing

\* A record that is written out is the progress of a writer.
LEMMA ProgressWrittenOut ==
    ASSUME NEW r, NEW pc \in {"idle", "deleted", "graph", "locked", "derived", "registered"},
           NEW of \in Posts, NEW apart, NEW change \in SomeChanges, NEW some, NEW pairs,
           r = [pc |-> pc, post |-> of, apart |-> apart, change |-> change,
                edges |-> some, evidence |-> pairs]
    PROVE  /\ IsProgress(r) /\ r.pc = pc /\ r.post = of /\ r.change = change
           /\ r.edges = some /\ r.evidence = pairs
BY DEF IsProgress

LEMMA WithChange ==
    ASSUME NEW x, IsProgress(x), NEW pc, NEW change, NEW r,
           r = [x EXCEPT !.pc = pc, !.change = change]
    PROVE  r = [pc |-> pc, post |-> x.post, apart |-> x.apart, change |-> change,
                edges |-> x.edges, evidence |-> x.evidence]
BY DEF IsProgress

LEMMA WithEdges ==
    ASSUME NEW x, IsProgress(x), NEW pc, NEW some, NEW r, r = [x EXCEPT !.pc = pc, !.edges = some]
    PROVE  r = [pc |-> pc, post |-> x.post, apart |-> x.apart, change |-> x.change,
                edges |-> some, evidence |-> x.evidence]
BY DEF IsProgress

LEMMA WithEvidence ==
    ASSUME NEW x, IsProgress(x), NEW pc, NEW pairs, NEW r, r = [x EXCEPT !.pc = pc, !.evidence = pairs]
    PROVE  r = [pc |-> pc, post |-> x.post, apart |-> x.apart, change |-> x.change,
                edges |-> x.edges, evidence |-> pairs]
BY DEF IsProgress

LEMMA DeleteKeymenKeeps ==
    ASSUME GraphInv, NEW w \in GraphWriters, DeleteKeymen(w)
    PROVE  GraphInv'
<1>1. PICK p \in Posts, apart \in BOOLEAN :
          writer' = [writer EXCEPT ![w] = [Rest EXCEPT
           !.pc = "deleted", !.post = p, !.apart = apart,
           !.change = [NoChange EXCEPT !.kind = "keymen", !.gone = mentions.keymen[p]]]]
  BY DEF DeleteKeymen
<1> DEFINE change == [NoChange EXCEPT !.kind = "keymen", !.gone = mentions.keymen[p]]
           r == [Rest EXCEPT !.pc = "deleted", !.post = p, !.apart = apart, !.change = change]
<1>2. change \in SomeChanges
  <2>1. mentions.keymen[p] \in SUBSET People
    BY DEF GraphInv, Mentions
  <2> QED
    BY <2>1 DEF NoChange, SomeChanges, Changes, Affiliations, Unbound
<1>3. writer' = [writer EXCEPT ![w] = r]
  BY <1>1
<1> HIDE DEF change
<1>7. r = [Rest EXCEPT !.pc = "deleted", !.post = p, !.apart = apart, !.change = change]
  OBVIOUS
<1> HIDE DEF r
<1>4. r = [pc |-> "deleted", post |-> p, apart |-> apart, change |-> change, edges |-> {}, evidence |-> {}]
  BY <1>7 DEF Rest
<1>5. IsProgress(r) /\ ~Locked(r)
  BY <1>2, <1>4, ProgressWrittenOut DEF Locked
<1>6. ~Locked(writer[w]) /\ UNCHANGED <<mentions, edges, evidence, locking, behind>>
  BY DEF DeleteKeymen, Locked
<1> QED
  BY <1>3, <1>5, <1>6, Preparing

LEMMA ReplaceRolesKeeps ==
    ASSUME GraphInv, NEW w \in GraphWriters, ReplaceRoles(w)
    PROVE  GraphInv'
<1>1. PICK p \in Posts, found \in Summaries :
          writer' = [writer EXCEPT ![w] = [Rest EXCEPT !.pc = "graph", !.post = p, !.change =
           [kind |-> "summary", gone |-> {}, actors |-> found.actors, orgs |-> found.orgs,
            entity |-> found.entity]]]
  BY DEF ReplaceRoles
<1> DEFINE change == [kind |-> "summary", gone |-> {}, actors |-> found.actors, orgs |-> found.orgs,
                      entity |-> found.entity]
           r == [Rest EXCEPT !.pc = "graph", !.post = p, !.change = change]
<1>2. change \in SomeChanges
  BY GraphInputs DEF SomeChanges, Changes
<1>3. writer' = [writer EXCEPT ![w] = r]
  BY <1>1
<1> HIDE DEF change
<1>7. r = [Rest EXCEPT !.pc = "graph", !.post = p, !.change = change]
  OBVIOUS
<1> HIDE DEF r
<1>4. r = [pc |-> "graph", post |-> p, apart |-> FALSE, change |-> change, edges |-> {}, evidence |-> {}]
  BY <1>7 DEF Rest
<1>5. IsProgress(r) /\ ~Locked(r)
  BY <1>2, <1>4, ProgressWrittenOut DEF Locked
<1>6. ~Locked(writer[w]) /\ UNCHANGED <<mentions, edges, evidence, locking, behind>>
  BY DEF ReplaceRoles, Locked
<1> QED
  BY <1>3, <1>5, <1>6, Preparing

LEMMA WriteKeymenKeeps ==
    ASSUME GraphInv, NEW w \in GraphWriters, WriteKeymen(w)
    PROVE  GraphInv'
<1> DEFINE x == writer[w]
           p == x.post
<1>1. PICK found \in Extractions :
          LET change == [x.change EXCEPT !.actors = found.actors, !.entity = found.entity] IN
          IF x.apart
          THEN /\ mentions' = After(mentions, p, change)
               /\ behind' = behind \cup {p}
               /\ writer' = [writer EXCEPT ![w].pc = "graph", ![w].change = NoChange]
          ELSE /\ writer' = [writer EXCEPT ![w].pc = "graph", ![w].change = change]
               /\ UNCHANGED <<mentions, behind>>
  BY DEF WriteKeymen
<1>2. /\ x.pc = "deleted" /\ UNCHANGED <<edges, evidence, locking>>
      /\ IsProgress(x) /\ p \in Posts /\ x.change \in SomeChanges
  BY AtWork DEF WriteKeymen
<1> DEFINE change == [x.change EXCEPT !.actors = found.actors, !.entity = found.entity]
<1>3. change \in SomeChanges
  <2>1. found.actors \in SUBSET People /\ People \subseteq Actors /\ found.entity \in Affiliations
    BY GraphInputs DEF Actors
  <2> QED
    BY <1>2, <2>1 DEF SomeChanges, Changes
<1>4. CASE ~x.apart
  <2> DEFINE r == [x EXCEPT !.pc = "graph", !.change = change]
  <2>1. writer' = [writer EXCEPT ![w] = r] /\ UNCHANGED <<mentions, behind>>
    BY <1>1, <1>4 DEF GraphInv, WritersInv
  <2>8. r = [x EXCEPT !.pc = "graph", !.change = change]
    OBVIOUS
  <2> HIDE DEF change, x, r
  <2>2. r = [pc |-> "graph", post |-> p, apart |-> x.apart, change |-> change,
             edges |-> x.edges, evidence |-> x.evidence]
    BY <1>2, <2>8, WithChange
  <2>3. IsProgress(r) /\ ~Locked(r)
    BY <1>2, <1>3, <2>2, ProgressWrittenOut DEF Locked
  <2>4. ~Locked(writer[w])
    BY <1>2 DEF Locked, x
  <2> QED
    BY <1>2, <2>1, <2>3, <2>4, Preparing
<1>5. CASE x.apart
  <2> DEFINE r == [x EXCEPT !.pc = "graph", !.change = NoChange]
  <2>1. /\ writer' = [writer EXCEPT ![w] = r] /\ mentions' = After(mentions, p, change)
        /\ behind' = behind \cup {p}
    BY <1>1, <1>5 DEF GraphInv, WritersInv
  <2>8. r = [x EXCEPT !.pc = "graph", !.change = NoChange]
    OBVIOUS
  <2> HIDE DEF change, x, r
  <2>2. r = [pc |-> "graph", post |-> p, apart |-> x.apart, change |-> NoChange,
             edges |-> x.edges, evidence |-> x.evidence]
    BY <1>2, <2>8, WithChange
  <2>3. IsProgress(r) /\ ~Locked(r)
    BY <1>2, <2>2, NoChangeTyped, ProgressWrittenOut DEF Locked
  <2>4. ~Locked(writer[w])
    BY <1>2 DEF Locked, x
  <2>5. LockInv'
    BY <1>2, <2>1, <2>3, <2>4, GoesUnlocked DEF GraphInv
  <2>6. /\ mentions' \in Mentions /\ behind' \subseteq Posts
        /\ \A q \in Posts \ behind' : AgreeAt(mentions', mentions, q)
    BY <1>2, <1>3, <2>1, AfterTyped DEF GraphInv
  <2>7. RowOK(r, mentions', behind') /\ ~Holding(writer[w])
    BY <2>3, <2>4 DEF RowOK, Holding, Locked
  <2> QED
    BY <1>2, <2>1, <2>3, <2>5, <2>6, <2>7, Passing
<1> QED
  BY <1>4, <1>5

LEMMA FailWriterKeeps ==
    ASSUME GraphInv, NEW w \in GraphWriters, FailWriter(w)
    PROVE  GraphInv'
<1>1. /\ writer' = [writer EXCEPT ![w] = Rest] /\ locking' = locking \ {w}
      /\ behind' = IF Holding(writer[w]) THEN behind \cup {writer[w].post} ELSE behind
      /\ UNCHANGED <<mentions, edges, evidence>>
  BY DEF FailWriter, Holding
<1>2. IsProgress(Rest) /\ Rest.pc = "idle"
  BY NoChangeTyped DEF IsProgress, Rest
<1>3. LockInv'
  <2>1. \A v \in GraphWriters : writer'[v] = IF v = w THEN Rest ELSE writer[v]
    BY <1>1 DEF GraphInv, WritersInv
  <2> QED
    BY <1>1, <1>2, <2>1 DEF GraphInv, LockInv, Locked
<1>4. RowOK(Rest, mentions', behind')
  BY <1>2 DEF RowOK, Holding
<1>5. /\ mentions' \in Mentions /\ behind' \subseteq Posts
      /\ \A q \in Posts : AgreeAt(mentions', mentions, q)
  BY <1>1, AtWork DEF GraphInv, AgreeAt, Holding
<1> QED
  BY <1>1, <1>2, <1>3, <1>4, <1>5, Passing

LEMMA LockProjectionKeeps ==
    ASSUME GraphInv, NEW w \in GraphWriters, LockProjection(w)
    PROVE  GraphInv'
<1> DEFINE x == writer[w]
           r == [x EXCEPT !.pc = "locked"]
<1>1. /\ x.pc = "graph" /\ locking = {} /\ locking' = {w}
      /\ UNCHANGED <<mentions, edges, evidence, behind>>
  BY DEF LockProjection, MayProject
<1>2. writer' = [writer EXCEPT ![w] = r] /\ IsProgress(x)
  BY DEF LockProjection, GraphInv, WritersInv
<1>3. IsProgress(r) /\ r.pc = "locked"
  BY <1>1, <1>2 DEF IsProgress
<1>4. LockInv'
  <2>1. \A v \in GraphWriters : writer'[v] = IF v = w THEN r ELSE writer[v]
    BY <1>2 DEF GraphInv, WritersInv
  <2> QED
    BY <1>1, <1>3, <2>1 DEF GraphInv, LockInv, Locked
<1>5. RowOK(r, mentions', behind') /\ ~Holding(writer[w])
  BY <1>1, <1>3 DEF RowOK, Holding
<1>6. /\ mentions' \in Mentions /\ behind' \subseteq Posts
      /\ \A q \in Posts : AgreeAt(mentions', mentions, q)
  BY <1>1 DEF GraphInv, AgreeAt
<1> QED
  BY <1>1, <1>2, <1>3, <1>4, <1>5, <1>6, Passing

\* Only the holder of the lock holds derived edges.
LEMMA HoldsAlone ==
    ASSUME GraphInv, NEW w \in GraphWriters, Locked(writer[w])
    PROVE  \A v \in GraphWriters \ {w} : ~Locked(writer[v]) /\ ~Holding(writer[v])
BY DEF GraphInv, LockInv, Locked, Holding

\* The holder proceeds and keeps the lock.
LEMMA HolderGoesOn ==
    ASSUME LockInv, WritersInv, NEW w \in GraphWriters, Locked(writer[w]),
           NEW r, Locked(r), writer' = [writer EXCEPT ![w] = r], locking' = locking
    PROVE  LockInv'
<1>1. \A v \in GraphWriters : writer'[v] = IF v = w THEN r ELSE writer[v]
  BY DEF WritersInv
<1> QED
  BY <1>1 DEF LockInv, Locked

LEMMA DeriveEdgesKeeps ==
    ASSUME GraphInv, NEW w \in GraphWriters, DeriveEdges(w)
    PROVE  GraphInv'
<1> DEFINE x == writer[w]
           p == x.post
           derived == EdgesOfPost(Seen(w), p)
           r == [x EXCEPT !.pc = "derived", !.edges = derived]
<1>1. /\ x.pc = "locked" /\ behind' = behind \ {p} /\ UNCHANGED <<mentions, edges, evidence, locking>>
      /\ IsProgress(x) /\ p \in Posts /\ x.change \in SomeChanges
  BY AtWork DEF DeriveEdges
<1>2. writer' = [writer EXCEPT ![w] = r]
  BY DEF DeriveEdges, GraphInv, WritersInv
<1> HIDE DEF derived
<1>11. r = [x EXCEPT !.pc = "derived", !.edges = derived]
  OBVIOUS
<1> HIDE DEF r
<1>3. r = [pc |-> "derived", post |-> p, apart |-> x.apart, change |-> x.change,
           edges |-> derived, evidence |-> x.evidence]
  <2> HIDE DEF x
  <2> QED
    BY <1>1, <1>11, WithEdges
<1>4. IsProgress(r) /\ r.pc = "derived" /\ r.post = p /\ r.change = x.change /\ r.edges = derived
  BY <1>1, <1>3, ProgressWrittenOut
<1>5. RowOK(r, mentions', behind')
  BY <1>1, <1>4 DEF RowOK, Holding, derived, KindsOf, Seen
<1>6. LockInv'
  <2>1. Locked(writer[w]) /\ Locked(r) /\ locking' = locking /\ LockInv /\ WritersInv
    BY <1>1, <1>4 DEF GraphInv, Locked
  <2> HIDE DEF x
  <2> QED
    BY <1>2, <2>1, HolderGoesOn
<1>7. \A v \in GraphWriters \ {w} : ~Holding(writer[v])
  BY <1>1, HoldsAlone DEF Locked
<1>8. ~Holding(writer[w]) /\ Holding(r)
  BY <1>1, <1>4 DEF Holding
<1>9. /\ mentions' \in Mentions /\ behind' \subseteq Posts
      /\ \A q \in Posts : AgreeAt(mentions', mentions, q)
  BY <1>1 DEF GraphInv, AgreeAt
<1>10. \A q \in Posts \ behind' : q \notin behind \/ (Holding(r) /\ r.post = q)
  BY <1>1, <1>4, <1>8
<1> HIDE DEF x
<1> QED
  BY <1>1, <1>2, <1>4, <1>5, <1>6, <1>7, <1>8, <1>9, <1>10, Passing

LEMMA RegisterEvidenceKeeps ==
    ASSUME GraphInv, NEW w \in GraphWriters, RegisterEvidence(w)
    PROVE  GraphInv'
<1> DEFINE x == writer[w]
           p == x.post
           seen == Seen(w)
           found == (OfKinds(Direct, x.edges) \X {p})
                    \cup {s \in x.edges \X Posts : s[1] \in EdgesOfPost(seen, s[2])}
           r == [x EXCEPT !.pc = "registered", !.evidence = found]
<1>1. /\ x.pc = "derived" /\ UNCHANGED <<mentions, edges, evidence, locking, behind>>
      /\ IsProgress(x) /\ p \in Posts /\ x.change \in SomeChanges /\ RowOK(x, mentions, behind)
      /\ seen = After(mentions, p, x.change)
  BY AtWork DEF RegisterEvidence, Seen
<1>2. writer' = [writer EXCEPT ![w] = r]
  BY DEF RegisterEvidence, GraphInv, WritersInv
<1> HIDE DEF seen
<1>3. p \notin behind => OfKinds(EdgeKinds, x.edges) = KindsOf(seen, p)
  BY <1>1 DEF RowOK, Holding
<1>4. \A q \in Posts : \A e : e \in EvidenceFor(found, q) <=>
          e \in x.edges /\ (e \in EdgesOfPost(seen, q) \/ (q = p /\ e[1] \in Direct))
  <2> SUFFICES ASSUME NEW q \in Posts, NEW e
               PROVE  e \in EvidenceFor(found, q) <=>
                        e \in x.edges /\ (e \in EdgesOfPost(seen, q) \/ (q = p /\ e[1] \in Direct))
    OBVIOUS
  <2>1. e \in EvidenceFor(found, q) <=> \E s \in found : s[2] = q /\ s[1] = e
    BY DEF EvidenceFor
  <2>2. (\E s \in found : s[2] = q /\ s[1] = e) <=> <<e, q>> \in found
    OBVIOUS
  <2>3. <<e, q>> \in found <=>
          e \in x.edges /\ (e \in EdgesOfPost(seen, q) \/ (q = p /\ e[1] \in Direct))
    BY DEF OfKinds
  <2> QED
    BY <2>1, <2>2, <2>3
<1> HIDE DEF found, x
<1>5. p \notin behind => OfKinds(EdgeKinds, EvidenceFor(found, p)) = KindsOf(seen, p)
  BY <1>1, <1>3, <1>4 DEF OfKinds, KindsOf
<1>6. ASSUME NEW q \in Posts \ behind, q # p
      PROVE  OfKinds(EdgeKinds, EvidenceFor(found, q)) \subseteq KindsOf(mentions, q)
  <2>1. AgreeAt(seen, mentions, q)
    BY <1>1, <1>6, AfterTyped DEF GraphInv
  <2>2. KindsOf(seen, q) = KindsOf(mentions, q)
    BY <2>1, AgreeingKinds
  <2>3. OfKinds(EdgeKinds, EvidenceFor(found, q)) \subseteq KindsOf(seen, q)
    BY <1>4, <1>6 DEF OfKinds, KindsOf
  <2> QED
    BY <2>2, <2>3
<1>13. r = [x EXCEPT !.pc = "registered", !.evidence = found]
  OBVIOUS
<1> HIDE DEF r
<1>7. r = [pc |-> "registered", post |-> p, apart |-> x.apart, change |-> x.change,
           edges |-> x.edges, evidence |-> found]
  BY <1>1, <1>13, WithEvidence
<1>8. /\ IsProgress(r) /\ r.pc = "registered" /\ r.post = p /\ r.change = x.change
      /\ r.edges = x.edges /\ r.evidence = found
  BY <1>1, <1>7, ProgressWrittenOut
<1>9. RowOK(r, mentions', behind')
  <2>1. \A s \in found : s[1] \in x.edges /\ s[2] \in Posts
    BY <1>1 DEF found, OfKinds
  <2> QED
    BY <1>1, <1>3, <1>5, <1>6, <1>8, <2>1 DEF RowOK, Holding
<1>10. LockInv'
  <2>1. Locked(writer[w]) /\ Locked(r) /\ locking' = locking /\ LockInv /\ WritersInv
    BY <1>1, <1>8 DEF GraphInv, Locked, x
  <2> QED
    BY <1>2, <2>1, HolderGoesOn
<1>11. /\ mentions' \in Mentions /\ behind' \subseteq Posts
      /\ \A q \in Posts : AgreeAt(mentions', mentions, q)
  BY <1>1 DEF GraphInv, AgreeAt
<1>12. Holding(r) /\ writer[w].post = r.post
  BY <1>8 DEF Holding, x
<1> QED
  BY <1>1, <1>2, <1>8, <1>9, <1>10, <1>11, <1>12, Passing

LEMMA CommitEdgesKeeps ==
    ASSUME GraphInv, NEW w \in GraphWriters, CommitEdges(w)
    PROVE  GraphInv'
<1> DEFINE x == writer[w]
           p == x.post
           kept == {s \in evidence : s[2] # p} \cup x.evidence
<1>1. /\ x.pc = "registered" /\ mentions' = Seen(w) /\ evidence' = kept
      /\ edges' = Supported(edges \cup x.edges, kept, p)
      /\ locking' = locking \ {w} /\ writer' = [writer EXCEPT ![w] = Rest] /\ behind' = behind
  BY DEF CommitEdges
<1>2. /\ IsProgress(x) /\ p \in Posts /\ x.change \in SomeChanges /\ RowOK(x, mentions, behind)
      /\ Seen(w) = After(mentions, p, x.change)
  BY <1>1, AtWork DEF Seen
<1>3. /\ mentions' \in Mentions
      /\ \A q \in Posts : q # p => AgreeAt(mentions', mentions, q)
  BY <1>1, <1>2, AfterTyped DEF GraphInv
<1>4. IsProgress(Rest) /\ Rest.pc = "idle"
  BY NoChangeTyped DEF IsProgress, Rest
<1>5. writer' = [v \in GraphWriters |-> IF v = w THEN Rest ELSE writer[v]]
  BY <1>1 DEF GraphInv, WritersInv
<1>6. \A v \in GraphWriters \ {w} : ~Locked(writer[v]) /\ ~Holding(writer[v])
  BY <1>1, HoldsAlone DEF Locked
<1>7. \A v \in GraphWriters : IsProgress(writer'[v]) /\ ~Holding(writer'[v])
  BY <1>4, <1>5, <1>6 DEF GraphInv, WritersInv, Holding
<1>8. WritersInv'
  <2>1. writer' = [v \in GraphWriters |-> writer'[v]]
    BY <1>5
  <2>2. \A v \in GraphWriters : RowOK(writer'[v], mentions', behind')
    BY <1>7 DEF RowOK, Holding
  <2> QED
    BY <1>7, <2>1, <2>2 DEF WritersInv, IsProgress, RowOK, Holding
<1>9. LockInv'
  BY <1>1, <1>4, <1>5 DEF GraphInv, LockInv, Locked
<1>10. \A e \in edges' : \E s \in evidence' : s[1] = e
  BY <1>1 DEF Supported
<1>11. EvidenceInv'
  <2> SUFFICES ASSUME NEW q \in Posts \ behind
               PROVE  OfKinds(EdgeKinds, EvidenceFor(evidence', q)) = KindsOf(mentions', q)
    BY <1>1 DEF EvidenceInv, Holding, EvidenceFor
  <2>1. CASE q = p
    <3>1. EvidenceFor(evidence', p) = EvidenceFor(x.evidence, p)
      BY <1>1 DEF EvidenceFor
    <3>2. OfKinds(EdgeKinds, EvidenceFor(x.evidence, p)) = KindsOf(Seen(w), p)
      BY <1>1, <1>2, <2>1 DEF RowOK
    <3> QED
      BY <1>1, <2>1, <3>1, <3>2
  <2>2. CASE q # p
    <3>1. EvidenceFor(evidence', q) = EvidenceFor(evidence, q) \cup EvidenceFor(x.evidence, q)
      BY <1>1, <2>2 DEF EvidenceFor
    <3>2. OfKinds(EdgeKinds, EvidenceFor(x.evidence, q)) \subseteq KindsOf(mentions, q)
      BY <1>1, <1>2, <2>2 DEF RowOK
    <3>3. OfKinds(EdgeKinds, EvidenceFor(evidence, q)) = KindsOf(mentions, q)
      BY <1>6, <2>2 DEF GraphInv, EvidenceInv
    <3>4. KindsOf(mentions', q) = KindsOf(mentions, q)
      BY <1>3, <2>2, AgreeingKinds
    <3> QED
      BY <3>1, <3>2, <3>3, <3>4 DEF OfKinds
  <2> QED
    BY <2>1, <2>2
<1>12. /\ \A s \in evidence' : s[1] \in edges' /\ s[2] \in Posts
       /\ behind' \subseteq Posts
  BY <1>1, <1>2 DEF GraphInv, RowOK, Supported
<1> QED
  BY <1>3, <1>8, <1>9, <1>10, <1>11, <1>12 DEF GraphInv

LEMMA GraphInvStep == GraphInv /\ [GraphNext]_graphVars => GraphInv'
<1> SUFFICES ASSUME GraphInv, [GraphNext]_graphVars PROVE GraphInv'
  OBVIOUS
<1>1. CASE UNCHANGED graphVars
  <2>1. /\ mentions' = mentions /\ edges' = edges /\ evidence' = evidence /\ locking' = locking
        /\ writer' = writer /\ behind' = behind
    BY <1>1 DEF graphVars
  <2>2. WritersInv' /\ LockInv' /\ EvidenceInv'
    BY <2>1 DEF GraphInv, WritersInv, LockInv, EvidenceInv
  <2> QED
    BY <2>1, <2>2 DEF GraphInv
<1>2. ASSUME NEW w \in GraphWriters, WriterStep(w) PROVE GraphInv'
  BY <1>2, DeleteKeymenKeeps, WriteKeymenKeeps, ReplaceRolesKeeps, FailWriterKeeps,
     LockProjectionKeeps, DeriveEdgesKeeps, RegisterEvidenceKeeps, CommitEdgesKeeps DEF WriterStep
<1> QED
  BY <1>1, <1>2 DEF GraphNext

\* Between two derivations the graph shows of each post what its mentions support, no more and no
\* less, and no edge without evidence, whatever other posts are projected at the same time: for
\* every set of posts, actors and writers (persist_edges_for_post).
THEOREM EvidenceCurrent == GraphSpec => [](GraphTypeOK /\ EvidenceIsCurrent)
<1>1. GraphInv => GraphTypeOK
  <2>1. GraphInv => \A w \in GraphWriters :
            writer[w].post \in Posts \cup {None} /\ writer[w].change \in Changes
    BY DEF GraphInv, WritersInv, IsProgress, SomeChanges
  <2> QED
    BY <2>1 DEF GraphTypeOK, GraphInv, LockInv
<1>2. GraphInv => EvidenceIsCurrent
  <2> SUFFICES ASSUME GraphInv PROVE EvidenceIsCurrent
    OBVIOUS
  <2>1. ASSUME NEW p \in Projected
        PROVE  OfKinds(EdgeKinds, Evident(p)) = OfKinds(EdgeKinds, EdgesOfPost(mentions, p))
    BY DEF GraphInv, EvidenceInv, Projected, Holding, Evident, EvidenceFor, KindsOf
  <2> QED
    BY <2>1 DEF EvidenceIsCurrent, EdgeKinds, GraphInv
<1> QED
  BY <1>1, <1>2, GraphInvInit, GraphInvStep, PTL DEF GraphSpec

-----------------------------------------------------------------------------
(* Period reports. *)

RowSets == UNION {[groups -> Reports] : groups \in SUBSET Groups}
Scorings == [pc : {"new", "scoring", "writing", "committing", "done"}, period : Periods,
             bank : Banks \cup {NoReport}, fresh : Banks \cup {NoReport}, kind : Nat,
             scored : RowSets, written : RowSets]
Readings == [pc : {"idle", "headers", "members", "shown"}, period : Periods \cup {Nearest(Periods)},
             header : RowSets, listed : RowSets, shown : RowSets, disturbed : BOOLEAN]

ReportTypes ==
    /\ member \in [Groups -> SUBSET Evaluated] /\ open \subseteq Evaluated
    /\ bank \in [Periods -> Banks \cup {NoReport}]
    /\ report \in [Groups \X Periods -> Reports \cup {NoReport}]
    /\ moves \in 0 .. MaxMoves
    /\ rebuild \in [Reporters -> Scorings]
    /\ reading \in [Viewers -> Readings]

\* All that a rebuild has scored is on its bank, which is stored, or new and its own.
ScoredOnOne(r, state) ==
    /\ \A rows \in {state.scored, state.written} : \A g \in DOMAIN rows :
          rows[g].by = r /\ rows[g].bank = state.bank /\ state.bank # NoReport
    /\ state.bank # NoReport =>
          /\ state.bank.period <= state.period
          /\ bank[state.bank.period] # NoReport \/ state.fresh = state.bank
    /\ state.fresh # NoReport => state.fresh.period = state.period
    /\ state.pc = "new" => state = Fresh(state.period)

\* A row is of an ended rebuild and on a stored bank.
RowStands(p, any) ==
    /\ any.bank.period <= p
    /\ bank[any.bank.period] # NoReport
    /\ rebuild[any.by].pc = "done"

\* What a reader has received is what is there, unless a rebuild has ended since.
ReadAsIs(state) ==
    state.pc \in {"headers", "members"} =>
        /\ state.period \in Periods
        /\ ~state.disturbed =>
              /\ state.header = RowsNow(state.period, Groups)
              /\ state.pc = "members" => state.listed = RowsNow(state.period, DOMAIN state.header)

ReportInv ==
    /\ ReportTypes
    /\ \A p \in Periods : bank[p] # NoReport => bank[p].period = p
    /\ \A r \in Reporters : ScoredOnOne(r, rebuild[r])
    /\ \A p \in Periods, g \in Groups : report[<<g, p>>] # NoReport => RowStands(p, report[<<g, p>>])
    /\ \A p \in Periods : \A g, h \in Groups :
          report[<<g, p>>] # NoReport /\ report[<<h, p>>] # NoReport /\ report[<<h, p>>].by = report[<<g, p>>].by
              => report[<<h, p>>].bank = report[<<g, p>>].bank
    /\ \A v \in Viewers : ReadAsIs(reading[v])
    /\ ShownPopulationIsVisible

LEMMA RowsOfSets ==
    ASSUME NEW rows \in RowSets PROVE IsRows(rows)
BY DEF RowSets, IsRows

LEMMA RowSetMade ==
    ASSUME NEW groups \in SUBSET Groups, NEW rows \in [groups -> Reports]
    PROVE  rows \in RowSets
BY DEF RowSets

LEMMA ReportTyped == ReportTypes => ReportTypeOK
<1> SUFFICES ASSUME ReportTypes PROVE ReportTypeOK
  OBVIOUS
<1>1. \A r \in Reporters : rebuild[r] \in Scorings
  BY DEF ReportTypes
<1>2. \A v \in Viewers : reading[v] \in Readings
  BY DEF ReportTypes
<1> QED
  BY <1>1, <1>2, RowsOfSets DEF ReportTypes, ReportTypeOK, Scorings, Readings

LEMMA NothingTyped == Nothing \in RowSets /\ DOMAIN Nothing = {}
BY DEF Nothing, RowSets

LEMMA FreshTyped ==
    ASSUME NEW period \in Periods
    PROVE  /\ Fresh(period) \in Scorings
           /\ [Fresh(period) EXCEPT !.pc = "done"] \in Scorings
BY NothingTyped DEF Fresh, Scorings

\* The nearest of periods up to some time is one of them.
LEMMA NearestIsOne ==
    ASSUME NEW T \in SUBSET Nat, T # {}, NEW top \in Nat, \A q \in T : q <= top
    PROVE  Nearest(T) \in T
<1> DEFINE D == {top - q : q \in T}
           R == {pair \in Nat \X Nat : pair[1] < pair[2]}
<1>1. D \in SUBSET Nat /\ D # {}
  <2>1. \A q \in T : top - q \in Nat
    OBVIOUS
  <2>2. PICK q \in T : top - q \in D
    OBVIOUS
  <2> QED
    BY <2>1, <2>2
<1>2. PICK least \in D : \A other \in D : ~(<<other, least>> \in R)
  <2>1. IsWellFoundedOn(R, Nat)
    BY NatLessThanWellFounded, Zenon DEF OpToRel
  <2> HIDE DEF R, D
  <2> QED
    BY <1>1, <2>1, WFMin
<1>3. \A other \in D : ~(other < least)
  BY <1>1, <1>2
<1>4. PICK t \in T : least = top - t
  OBVIOUS
<1>5. \A q \in T : q <= t
  BY <1>3, <1>4
<1> QED
  BY <1>5 DEF Nearest

LEMMA PeriodsAreNat == Periods \subseteq Nat
BY ReportConstants DEF Periods

LEMMA BankForTyped ==
    ASSUME ReportInv, NEW period \in Periods
    PROVE  /\ BankFor(period) \in Banks \cup {NoReport}
           /\ BankFor(period) # NoReport =>
                 BankFor(period).period <= period /\ bank[BankFor(period).period] # NoReport
<1> DEFINE earlier == {p \in {q \in Periods : bank[q] # NoReport} : p < period}
<1>1. BankFor(period) = IF earlier # {} THEN bank[Nearest(earlier)] ELSE bank[period]
  BY DEF BankFor
<1>2. /\ bank \in [Periods -> Banks \cup {NoReport}]
      /\ \A p \in Periods : bank[p] # NoReport => bank[p].period = p
  BY DEF ReportInv, ReportTypes
<1>3. CASE earlier # {}
  <2>1. earlier \in SUBSET Nat /\ period \in Nat /\ \A q \in earlier : q <= period
    <3>1. \A q \in earlier : q \in Periods /\ q < period
      OBVIOUS
    <3>2. period \in Nat
      BY PeriodsAreNat
    <3>3. ASSUME NEW q \in earlier PROVE q \in Nat /\ q <= period
      <4>1. q \in Nat /\ q < period
        BY <3>1, PeriodsAreNat
      <4> QED
        BY <3>2, <4>1
    <3> HIDE DEF earlier
    <3> QED
      BY <3>2, <3>3
  <2>2. Nearest(earlier) \in earlier
    <3> HIDE DEF earlier
    <3> QED
      BY <1>3, <2>1, NearestIsOne
  <2> QED
    BY <1>1, <1>2, <1>3, <2>1, <2>2
<1>4. CASE earlier = {}
  BY <1>1, <1>2, <1>4, PeriodsAreNat
<1> QED
  BY <1>3, <1>4

LEMMA BaseForTyped ==
    ASSUME ReportInv, NEW period \in Periods, NEW g \in Groups
    PROVE  BaseFor(g, period) \in Banks \cup {NoReport}
<1> DEFINE earlier == {p \in Periods : p < period /\ report[<<g, p>>] # NoReport}
<1>1. BaseFor(g, period) = IF earlier = {} THEN NoReport ELSE report[<<g, Nearest(earlier)>>].bank
  BY DEF BaseFor
<1>2. report \in [Groups \X Periods -> Reports \cup {NoReport}]
  BY DEF ReportInv, ReportTypes
<1>3. CASE earlier # {}
  <2>1. earlier \in SUBSET Nat /\ period \in Nat /\ \A q \in earlier : q <= period
    <3>1. \A q \in earlier : q \in Periods /\ q < period
      OBVIOUS
    <3>2. period \in Nat
      BY PeriodsAreNat
    <3>3. ASSUME NEW q \in earlier PROVE q \in Nat /\ q <= period
      <4>1. q \in Nat /\ q < period
        BY <3>1, PeriodsAreNat
      <4> QED
        BY <3>2, <4>1
    <3> HIDE DEF earlier
    <3> QED
      BY <3>2, <3>3
  <2>2. Nearest(earlier) \in earlier
    <3> HIDE DEF earlier
    <3> QED
      BY <1>3, <2>1, NearestIsOne
  <2>3. report[<<g, Nearest(earlier)>>] \in Reports
    BY <1>2, <2>2
  <2> QED
    BY <1>1, <1>3, <2>3 DEF Reports
<1> QED
  BY <1>1, <1>3

\* A rebuild goes on without storing anything.
LEMMA RebuildGoesOn ==
    ASSUME ReportInv, NEW r \in Reporters, NEW state \in Scorings, ScoredOnOne(r, state),
           rebuild[r].pc = "done" => state.pc = "done",
           Rebuilds(r, state), UNCHANGED <<member, open, bank, report, reading, moves>>
    PROVE  ReportInv'
<1>1. rebuild' = [rebuild EXCEPT ![r] = state] /\ rebuild \in [Reporters -> Scorings]
  BY DEF Rebuilds, ReportInv, ReportTypes
<1>2. \A other \in Reporters : rebuild'[other] = IF other = r THEN state ELSE rebuild[other]
  BY <1>1
<1>3. ReportTypes'
  BY <1>1 DEF ReportInv, ReportTypes
<1>4. \A other \in Reporters : ScoredOnOne(other, rebuild[other])'
  <2> SUFFICES ASSUME NEW other \in Reporters PROVE ScoredOnOne(other, rebuild[other])'
    OBVIOUS
  <2>1. ScoredOnOne(other, rebuild'[other])
    BY <1>2 DEF ReportInv
  <2> QED
    BY <2>1 DEF ScoredOnOne
<1>5. \A p \in Periods, g \in Groups : report'[<<g, p>>] # NoReport => RowStands(p, report[<<g, p>>])'
  <2> SUFFICES ASSUME NEW p \in Periods, NEW g \in Groups, report[<<g, p>>] # NoReport
               PROVE  RowStands(p, report[<<g, p>>])'
    OBVIOUS
  <2>1. report[<<g, p>>].by \in Reporters
    BY DEF ReportInv, ReportTypes, Reports
  <2> QED
    BY <1>2, <2>1 DEF ReportInv, RowStands
<1>6. \A v \in Viewers : ReadAsIs(reading[v])'
  BY DEF ReportInv, ReadAsIs, RowsNow
<1> QED
  BY <1>3, <1>4, <1>5, <1>6 DEF ReportInv, ShownPopulationIsVisible

LEMMA LoadBankKeeps ==
    ASSUME ReportInv, NEW r \in Reporters, LoadBank(r) PROVE ReportInv'
<1> DEFINE state == [rebuild[r] EXCEPT !.pc = "scoring", !.bank = BankFor(rebuild[r].period)]
<1>1. /\ rebuild[r] \in Scorings /\ rebuild[r].period \in Periods /\ rebuild[r].pc = "new"
      /\ rebuild[r] = Fresh(rebuild[r].period)
  BY DEF ReportInv, ReportTypes, Scorings, ScoredOnOne, LoadBank
<1>2. state \in Scorings
  BY <1>1, BankForTyped DEF Scorings
<1>3. /\ DOMAIN rebuild[r].scored = {} /\ DOMAIN rebuild[r].written = {}
      /\ rebuild[r].fresh = NoReport
  BY <1>1, NothingTyped DEF Fresh
<1>4. /\ state.bank = BankFor(rebuild[r].period) /\ state.scored = rebuild[r].scored
      /\ state.written = rebuild[r].written /\ state.fresh = rebuild[r].fresh
      /\ state.pc = "scoring" /\ state.period = rebuild[r].period
  BY <1>1 DEF Scorings
<1>5. ScoredOnOne(r, state)
  <2> HIDE DEF state
  <2> QED
    BY <1>1, <1>3, <1>4, BankForTyped DEF ScoredOnOne
<1>6. Rebuilds(r, state) /\ UNCHANGED <<member, open, bank, report, reading, moves>>
  BY DEF LoadBank
<1> QED
  <2> HIDE DEF state
  <2> QED
    BY <1>1, <1>2, <1>5, <1>6, RebuildGoesOn

LEMMA ScoreKindKeeps ==
    ASSUME ReportInv, NEW r \in Reporters, ScoreKind(r) PROVE ReportInv'
<1> DEFINE old == rebuild[r]
           groups == GroupsOf(old.kind, old.period)
           fresh == groups # {} /\ old.bank = NoReport
           used == IF fresh THEN [period |-> old.period, by |-> r, kind |-> old.kind] ELSE old.bank
           NewRow(g, pairs) == [bank |-> used, base |-> BaseFor(g, old.period),
                                of |-> MembersIn(g, old.period), pairs |-> pairs, by |-> r]
<1>1. /\ old \in Scorings /\ old.period \in Periods /\ old.pc = "scoring" /\ ScoredOnOne(r, old)
      /\ old.scored \in RowSets /\ old.written \in RowSets
  BY DEF ReportInv, ReportTypes, Scorings, ScoreKind
<1>2. PICK pairs \in [groups -> SUBSET Evaluated] :
          Rebuilds(r, [old EXCEPT !.pc = "writing", !.bank = used,
                                  !.fresh = IF fresh THEN used ELSE @,
                                  !.scored = [g \in groups |-> NewRow(g, pairs[g])]])
  BY DEF ScoreKind, BankCarried
<1> DEFINE scored == [g \in groups |-> NewRow(g, pairs[g])]
           newest == IF fresh THEN used ELSE old.fresh
           state == [old EXCEPT !.pc = "writing", !.bank = used,
                                !.fresh = newest, !.scored = scored]
<1>3. groups \subseteq Groups /\ \A g \in groups : Kind[g] = old.kind
  BY DEF GroupsOf
<1>4. /\ used \in Banks \cup {NoReport}
      /\ groups # {} => used \in Banks
      /\ fresh => used \in Banks /\ used.period = old.period
  <2>1. CASE fresh
    <3>1. old.kind \in Kinds
      BY <1>3, <2>1 DEF Kinds
    <3> QED
      BY <1>1, <2>1, <3>1 DEF Banks
  <2>2. CASE ~fresh
    BY <1>1, <2>2 DEF Scorings
  <2> QED
    BY <2>1, <2>2
<1>5. \A g \in groups : scored[g] \in Reports /\ scored[g].by = r /\ scored[g].bank = used
  <2> SUFFICES ASSUME NEW g \in groups
               PROVE  scored[g] \in Reports /\ scored[g].by = r /\ scored[g].bank = used
    OBVIOUS
  <2>1. BaseFor(g, old.period) \in Banks \cup {NoReport}
    BY <1>1, <1>3, BaseForTyped
  <2>2. MembersIn(g, old.period) \subseteq Evaluated
    BY <1>3 DEF MembersIn, ReportInv, ReportTypes
  <2> DEFINE base == BaseFor(g, old.period)
             of == MembersIn(g, old.period)
             some == pairs[g]
  <2>3. scored[g] = [bank |-> used, base |-> base, of |-> of, pairs |-> some, by |-> r]
    OBVIOUS
  <2>4. some \in SUBSET Evaluated
    OBVIOUS
  <2>5. used \in Banks
    <3> HIDE DEF used, fresh
    <3> QED
      BY <1>4
  <2> HIDE DEF groups, scored, used, base, of, some
  <2> QED
    BY <2>1, <2>2, <2>3, <2>4, <2>5 DEF Reports, base, of
<1>6. scored \in RowSets /\ DOMAIN scored = groups
  <2>1. scored \in [groups -> Reports]
    <3> HIDE DEF groups, NewRow
    <3> QED
      BY <1>5
  <2> QED
    BY <1>3, <2>1, RowSetMade
<1>7. state \in Scorings
  <2>1. newest \in Banks \cup {NoReport}
    BY <1>1, <1>4 DEF Scorings
  <2> HIDE DEF scored, used, fresh, newest, old
  <2> QED
    BY <1>1, <1>4, <1>6, <2>1 DEF Scorings
<1>8. /\ state.pc = "writing" /\ state.bank = used /\ state.scored = scored
      /\ state.written = old.written /\ state.period = old.period
      /\ state.fresh = IF fresh THEN used ELSE old.fresh
  BY <1>1 DEF Scorings
<1>9. ScoredOnOne(r, state)
  <2>1. CASE fresh
    <3>1. DOMAIN old.written = {}
      BY <1>1, <2>1 DEF ScoredOnOne
    <3>2. used \in Banks /\ used.period = old.period /\ old.period \in Nat
      BY <1>1, <1>4, <2>1, PeriodsAreNat
    <3>3. used # NoReport /\ used.period <= old.period
      <4> HIDE DEF used, old
      <4> QED
        BY <3>2, ReportNothing
    <3> HIDE DEF used, scored, state, fresh, groups
    <3> QED
      BY <1>4, <1>5, <1>6, <1>8, <2>1, <3>1, <3>3 DEF ScoredOnOne
  <2>2. CASE ~fresh
    <3>1. used = old.bank /\ (groups # {} => used # NoReport)
      BY <2>2
    <3> HIDE DEF used, scored, state, fresh, groups
    <3> QED
      BY <1>1, <1>5, <1>6, <1>8, <2>2, <3>1 DEF ScoredOnOne
  <2> QED
    BY <2>1, <2>2
<1>10. Rebuilds(r, state) /\ UNCHANGED <<member, open, bank, report, reading, moves>>
  BY <1>2 DEF ScoreKind
<1> QED
  <2> HIDE DEF state
  <2> QED
    BY <1>1, <1>7, <1>9, <1>10, RebuildGoesOn

LEMMA WriteKindKeeps ==
    ASSUME ReportInv, NEW r \in Reporters, WriteKind(r) PROVE ReportInv'
<1> DEFINE old == rebuild[r]
           both == DOMAIN old.written \cup DOMAIN old.scored
           written == [g \in both |-> IF g \in DOMAIN old.scored THEN old.scored[g] ELSE old.written[g]]
           next == IF old.kind = LastKind THEN "committing" ELSE "scoring"
           state == [old EXCEPT !.pc = next, !.kind = @ + 1, !.scored = Nothing, !.written = written]
<1>1. /\ old \in Scorings /\ old.pc = "writing" /\ ScoredOnOne(r, old)
      /\ old.scored \in RowSets /\ old.written \in RowSets
  BY DEF ReportInv, ReportTypes, Scorings, WriteKind
<1>2. written \in RowSets /\ DOMAIN written = both
  <2>1. both \in SUBSET Groups /\ written \in [both -> Reports]
    BY <1>1, RowsOfSets DEF IsRows
  <2> QED
    BY <2>1, RowSetMade
<1>3. state \in Scorings
  <2>1. next \in {"committing", "scoring"} /\ old.kind + 1 \in Nat
    BY <1>1 DEF Scorings
  <2> HIDE DEF written, next, old
  <2> QED
    BY <1>1, <1>2, <2>1, NothingTyped DEF Scorings
<1>4. /\ state.pc # "new" /\ state.bank = old.bank /\ state.scored = Nothing
      /\ state.written = written /\ state.period = old.period /\ state.fresh = old.fresh
  BY <1>1 DEF Scorings
<1>5. ScoredOnOne(r, state)
  <2>1. \A g \in both : written[g].by = r /\ written[g].bank = old.bank /\ old.bank # NoReport
    BY <1>1 DEF ScoredOnOne
  <2> HIDE DEF written, both, state
  <2> QED
    BY <1>1, <1>2, <1>4, <2>1, NothingTyped DEF ScoredOnOne
<1>6. Rebuilds(r, state) /\ UNCHANGED <<member, open, bank, report, reading, moves>>
  BY DEF WriteKind
<1> QED
  <2> HIDE DEF state
  <2> QED
    BY <1>1, <1>3, <1>5, <1>6, RebuildGoesOn

LEMMA EndTyped ==
    ASSUME ReportInv, NEW r \in Reporters
    PROVE  End(rebuild[r]) \in Scorings /\ End(rebuild[r]).pc = "done" /\ ScoredOnOne(r, End(rebuild[r]))
<1>1. rebuild[r].period \in Periods
  BY DEF ReportInv, ReportTypes, Scorings
<1>2. End(rebuild[r]) \in Scorings
  BY <1>1, FreshTyped DEF End
<1> QED
  BY <1>2, NothingTyped DEF End, Fresh, ScoredOnOne

LEMMA UnusableKeeps ==
    ASSUME ReportInv, NEW r \in Reporters, Unusable(r) PROVE ReportInv'
BY EndTyped, RebuildGoesOn DEF Unusable

LEMMA CommitKeeps ==
    ASSUME ReportInv, NEW r \in Reporters, Commit(r) PROVE ReportInv'
<1> DEFINE old == rebuild[r]
<1>1. /\ rebuild \in [Reporters -> Scorings] /\ old \in Scorings /\ old.pc = "committing"
      /\ old.period \in Periods /\ old.written \in RowSets /\ old.fresh \in Banks \cup {NoReport}
      /\ ScoredOnOne(r, old)
  BY DEF ReportInv, ReportTypes, Scorings, Commit
<1>2. /\ bank \in [Periods -> Banks \cup {NoReport}]
      /\ report \in [Groups \X Periods -> Reports \cup {NoReport}]
      /\ reading \in [Viewers -> Readings]
  BY DEF ReportInv, ReportTypes
<1>3. \A g \in DOMAIN old.written :
          /\ g \in Groups /\ old.written[g] \in Reports /\ old.written[g].by = r
          /\ old.written[g].bank = old.bank /\ old.bank # NoReport
  BY <1>1, RowsOfSets DEF IsRows, ScoredOnOne
<1>4. \A p \in Periods : bank'[p] = IF old.fresh # NoReport /\ p = old.period THEN old.fresh ELSE bank[p]
  BY <1>1, <1>2 DEF Commit
<1>5. \A g \in Groups, p \in Periods :
          report'[<<g, p>>] = IF p = old.period /\ g \in DOMAIN old.written THEN old.written[g]
                              ELSE report[<<g, p>>]
  BY <1>2 DEF Commit
<1>6. /\ rebuild'[r] = End(old)
      /\ \A o \in Reporters : rebuild'[o] \in {rebuild[o], End(rebuild[o])}
      /\ DOMAIN rebuild' = Reporters /\ rebuild' = [o \in Reporters |-> rebuild'[o]]
  BY DEF Commit
<1>7. /\ reading' = [v \in Viewers |-> reading'[v]]
      /\ \A v \in Viewers : reading'[v] =
             IF reading[v].pc \in {"headers", "members"} /\ reading[v].period = old.period
             THEN [reading[v] EXCEPT !.disturbed = TRUE] ELSE reading[v]
      /\ UNCHANGED <<member, open, moves>>
  BY DEF Commit
<1>8. bank' \in [Periods -> Banks \cup {NoReport}]
  BY <1>1, <1>2 DEF Commit
<1>9. report' \in [Groups \X Periods -> Reports \cup {NoReport}]
  <2>1. report' = [gp \in Groups \X Periods |->
          IF gp[2] = old.period /\ gp[1] \in DOMAIN old.written THEN old.written[gp[1]] ELSE report[gp]]
    BY DEF Commit
  <2> HIDE DEF old
  <2> QED
    BY <1>2, <1>3, <2>1
<1>10. \A o \in Reporters : rebuild'[o] \in Scorings /\ (rebuild[o].pc = "done" => rebuild'[o].pc = "done")
  BY <1>1, <1>6, EndTyped
<1>11. \A v \in Viewers : reading'[v] \in Readings
  BY <1>2, <1>7 DEF Readings
<1>12. ReportTypes'
  <2>1. rebuild' \in [Reporters -> Scorings] /\ reading' \in [Viewers -> Readings]
    BY <1>6, <1>7, <1>10, <1>11
  <2> QED
    BY <1>7, <1>8, <1>9, <2>1 DEF ReportInv, ReportTypes
<1>13. \A p \in Periods : /\ bank[p] # NoReport => bank'[p] # NoReport
                          /\ bank'[p] # NoReport => bank'[p].period = p
  <2>1. old.fresh # NoReport => old.fresh.period = old.period
    BY <1>1 DEF ScoredOnOne
  <2> QED
    BY <1>4, <2>1 DEF ReportInv
<1>14. \A any \in Banks : any.period \in Periods
  BY DEF Banks
<1>15. \A o \in Reporters : ScoredOnOne(o, rebuild[o])'
  <2> SUFFICES ASSUME NEW o \in Reporters PROVE ScoredOnOne(o, rebuild[o])'
    OBVIOUS
  <2>1. ScoredOnOne(o, rebuild'[o])
    BY <1>6, EndTyped DEF ReportInv
  <2>2. rebuild'[o].bank # NoReport => rebuild'[o].bank \in Banks
    BY <1>10 DEF Scorings
  <2> QED
    BY <1>13, <1>14, <2>1, <2>2 DEF ScoredOnOne
<1>16. old.bank # NoReport =>
           old.bank \in Banks /\ old.bank.period <= old.period /\ bank'[old.bank.period] # NoReport
  <2>1. old.bank # NoReport => old.bank \in Banks
    BY <1>1 DEF Scorings
  <2>2. old.fresh # NoReport => bank'[old.period] # NoReport
    BY <1>1, <1>4
  <2>3. old.bank # NoReport => old.bank.period <= old.period
          /\ (bank[old.bank.period] # NoReport \/ (old.fresh = old.bank /\ old.bank.period = old.period))
    BY <1>1 DEF ScoredOnOne
  <2> HIDE DEF old
  <2> QED
    BY <1>13, <1>14, <2>1, <2>2, <2>3
<1>17. \A p \in Periods, g \in Groups : report'[<<g, p>>] # NoReport => RowStands(p, report[<<g, p>>])'
  <2> SUFFICES ASSUME NEW p \in Periods, NEW g \in Groups, report'[<<g, p>>] # NoReport
               PROVE  RowStands(p, report[<<g, p>>])'
    OBVIOUS
  <2>1. CASE p = old.period /\ g \in DOMAIN old.written
    <3>1. report'[<<g, p>>] = old.written[g]
      BY <1>5, <2>1
    <3>2. rebuild'[r].pc = "done"
      BY <1>6, EndTyped
    <3> HIDE DEF old
    <3> QED
      BY <1>3, <1>16, <2>1, <3>1, <3>2 DEF RowStands
  <2>2. CASE ~(p = old.period /\ g \in DOMAIN old.written)
    <3>1. report'[<<g, p>>] = report[<<g, p>>]
      BY <1>5, <2>2
    <3>2. report[<<g, p>>] \in Reports /\ RowStands(p, report[<<g, p>>])
      BY <1>2, <3>1 DEF ReportInv
    <3>3. report[<<g, p>>].by \in Reporters /\ report[<<g, p>>].bank \in Banks
      BY <3>2 DEF Reports
    <3> QED
      BY <1>10, <1>13, <1>14, <3>1, <3>2, <3>3 DEF RowStands
  <2> QED
    BY <2>1, <2>2
<1>18. ASSUME NEW p \in Periods, NEW g \in Groups, NEW h \in Groups,
              report'[<<g, p>>] # NoReport, report'[<<h, p>>] # NoReport,
              report'[<<h, p>>].by = report'[<<g, p>>].by
       PROVE  report'[<<h, p>>].bank = report'[<<g, p>>].bank
  <2>1. \A k \in Groups : report[<<k, p>>] # NoReport => report[<<k, p>>].by # r
    BY <1>1 DEF ReportInv, RowStands
  <2> HIDE DEF old
  <2> QED
    BY <1>3, <1>5, <1>18, <2>1 DEF ReportInv
<1>19. \A v \in Viewers : ReadAsIs(reading[v])'
  <2> SUFFICES ASSUME NEW v \in Viewers PROVE ReadAsIs(reading[v])'
    OBVIOUS
  <2>1. reading[v] \in Readings /\ ReadAsIs(reading[v])
    BY <1>2 DEF ReportInv
  <2>2. CASE reading[v].pc \in {"headers", "members"} /\ reading[v].period = old.period
    <3>1. reading'[v] = [reading[v] EXCEPT !.disturbed = TRUE]
      BY <1>7, <2>2
    <3>2. reading'[v].disturbed /\ reading'[v].period = reading[v].period /\ reading'[v].pc = reading[v].pc
      BY <2>1, <3>1 DEF Readings
    <3> QED
      BY <2>1, <3>2 DEF ReadAsIs
  <2>3. CASE ~(reading[v].pc \in {"headers", "members"} /\ reading[v].period = old.period)
    <3>1. reading'[v] = reading[v]
      BY <1>7, <2>3
    <3>2. CASE reading[v].pc \in {"headers", "members"}
      <4>1. reading[v].period \in Periods /\ reading[v].period # old.period
        BY <2>1, <2>3, <3>2 DEF ReadAsIs
      <4>2. \A g \in Groups : report'[<<g, reading[v].period>>] = report[<<g, reading[v].period>>]
        BY <1>5, <4>1
      <4>3. ASSUME NEW groups \in SUBSET Groups
            PROVE  RowsNow(reading[v].period, groups)' = RowsNow(reading[v].period, groups)
        BY <3>1, <4>2, <4>3 DEF RowsNow
      <4>4. DOMAIN reading[v].header \in SUBSET Groups
        BY <2>1, RowsOfSets DEF Readings, IsRows
      <4> QED
        BY <2>1, <3>1, <4>1, <4>3, <4>4 DEF ReadAsIs
    <3>3. CASE reading[v].pc \notin {"headers", "members"}
      BY <3>1, <3>3 DEF ReadAsIs
    <3> QED
      BY <3>2, <3>3
  <2> QED
    BY <2>2, <2>3
<1>20. ShownPopulationIsVisible'
  <2> SUFFICES ASSUME NEW v \in Viewers, reading'[v].pc = "shown", ~reading'[v].disturbed,
                      NEW g \in DOMAIN reading'[v].shown
               PROVE  reading'[v].shown[g].of \cup reading'[v].shown[g].pairs \subseteq open'
    BY DEF ShownPopulationIsVisible
  <2>1. reading'[v] = reading[v]
    BY <1>2, <1>7 DEF Readings
  <2> QED
    BY <1>7, <2>1 DEF ReportInv, ShownPopulationIsVisible
<1> QED
  BY <1>12, <1>13, <1>15, <1>17, <1>18, <1>19, <1>20 DEF ReportInv

\* A reader goes on.
LEMMA ReaderGoesOn ==
    ASSUME ReportInv, NEW v \in Viewers, NEW state \in Readings, Reads(v, state), ReadAsIs(state),
           state.pc = "shown" /\ ~state.disturbed =>
               \A g \in DOMAIN state.shown : state.shown[g].of \cup state.shown[g].pairs \subseteq open
    PROVE  ReportInv'
<1>1. reading' = [reading EXCEPT ![v] = state] /\ reading \in [Viewers -> Readings]
      /\ UNCHANGED <<member, open, bank, report, rebuild, moves>>
  BY DEF Reads, ReportInv, ReportTypes
<1>2. \A w \in Viewers : reading'[w] = IF w = v THEN state ELSE reading[w]
  BY <1>1
<1>3. ReportTypes'
  BY <1>1 DEF ReportInv, ReportTypes
<1>4. \A r \in Reporters : ScoredOnOne(r, rebuild[r])'
  BY <1>1 DEF ReportInv, ScoredOnOne
<1>5. \A p \in Periods, g \in Groups : report'[<<g, p>>] # NoReport => RowStands(p, report[<<g, p>>])'
  BY <1>1 DEF ReportInv, RowStands
<1>6. \A w \in Viewers : ReadAsIs(reading[w])'
  <2> SUFFICES ASSUME NEW w \in Viewers PROVE ReadAsIs(reading[w])'
    OBVIOUS
  <2>1. ReadAsIs(reading'[w])
    BY <1>2 DEF ReportInv
  <2> QED
    BY <1>1, <2>1 DEF ReadAsIs, RowsNow
<1>7. ShownPopulationIsVisible'
  BY <1>1, <1>2 DEF ReportInv, ShownPopulationIsVisible
<1> QED
  BY <1>1, <1>3, <1>4, <1>5, <1>6, <1>7 DEF ReportInv

LEMMA RowsNowTyped ==
    ASSUME ReportInv, NEW period \in Periods, NEW groups \in SUBSET Groups
    PROVE  /\ RowsNow(period, groups) \in RowSets
           /\ \A g \in DOMAIN RowsNow(period, groups) :
                  g \in groups /\ RowsNow(period, groups)[g] = report[<<g, period>>]
<1> DEFINE there == {h \in groups : report[<<h, period>>] # NoReport}
<1>1. report \in [Groups \X Periods -> Reports \cup {NoReport}]
  BY DEF ReportInv, ReportTypes
<1>2. RowsNow(period, groups) = [g \in there |-> report[<<g, period>>]] /\ there \in SUBSET Groups
  BY DEF RowsNow
<1>3. \A g \in there : report[<<g, period>>] \in Reports
  BY <1>1
<1>4. RowsNow(period, groups) \in [there -> Reports]
  <2> HIDE DEF there
  <2> QED
    BY <1>2, <1>3
<1> QED
  BY <1>2, <1>4, RowSetMade

LEMMA ReadersKeep ==
    ASSUME ReportInv, NEW v \in Viewers, ReadStep(v) PROVE ReportInv'
<1> DEFINE old == reading[v]
<1>1. old \in Readings /\ ReadAsIs(old)
  BY DEF ReportInv, ReportTypes
<1>2. CASE ReadHeaders(v)
  <2>1. PICK period \in Periods :
            Reads(v, [old EXCEPT !.pc = "headers", !.period = period, !.header = RowsNow(period, Groups)])
    BY <1>2 DEF ReadHeaders
  <2> DEFINE rows == RowsNow(period, Groups)
             state == [old EXCEPT !.pc = "headers", !.period = period, !.header = rows]
  <2>2. rows \in RowSets
    BY RowsNowTyped
  <2>3. /\ state \in Readings /\ state.pc = "headers" /\ state.period = period /\ state.header = rows
    <3> HIDE DEF rows, old
    <3> QED
      BY <1>1, <2>2 DEF Readings
  <2>4. ReadAsIs(state)
    BY <2>3 DEF ReadAsIs
  <2> HIDE DEF state
  <2> QED
    BY <2>1, <2>3, <2>4, ReaderGoesOn DEF state
<1>3. CASE ReadMembers(v)
  <2> DEFINE rows == RowsNow(old.period, DOMAIN old.header)
             state == [old EXCEPT !.pc = "members", !.listed = rows]
  <2>1. old.pc = "headers" /\ Reads(v, state)
    BY <1>3 DEF ReadMembers
  <2>2. rows \in RowSets
    <3>1. old.period \in Periods /\ DOMAIN old.header \in SUBSET Groups
      BY <1>1, <2>1, RowsOfSets DEF ReadAsIs, Readings, IsRows
    <3> QED
      BY <3>1, RowsNowTyped
  <2>3. /\ state \in Readings /\ state.pc = "members" /\ state.period = old.period
        /\ state.header = old.header /\ state.listed = rows /\ state.disturbed = old.disturbed
    <3> HIDE DEF rows, old
    <3> QED
      BY <1>1, <2>2 DEF Readings
  <2>4. ReadAsIs(state)
    BY <1>1, <2>1, <2>3 DEF ReadAsIs
  <2> HIDE DEF state
  <2> QED
    BY <2>1, <2>3, <2>4, ReaderGoesOn
<1>4. CASE ReadPairs(v)
  <2> DEFINE visible == {h \in DOMAIN old.header :
                            FullyVisible(old.listed[h].of, report[<<h, old.period>>].pairs)}
             rows == [g \in visible |-> old.header[g]]
             state == [old EXCEPT !.pc = "shown", !.listed = Nothing, !.header = Nothing, !.shown = rows]
  <2>1. old.pc = "members" /\ Reads(v, state)
    BY <1>4 DEF ReadPairs
  <2>2. rows \in RowSets
    <3>1. visible \in SUBSET Groups /\ \A g \in visible : old.header[g] \in Reports
      BY <1>1, RowsOfSets DEF Readings, IsRows
    <3>2. rows \in [visible -> Reports]
      <4> HIDE DEF visible
      <4> QED
        BY <3>1
    <3> QED
      BY <3>1, <3>2, RowSetMade
  <2>3. /\ state \in Readings /\ state.pc = "shown" /\ state.shown = rows
        /\ state.disturbed = old.disturbed
    <3> HIDE DEF rows, old
    <3> QED
      BY <1>1, <2>2, NothingTyped DEF Readings
  <2>4. ASSUME ~old.disturbed, NEW g \in visible
        PROVE  old.header[g].of \cup old.header[g].pairs \subseteq open
    <3>1. /\ old.period \in Periods /\ DOMAIN old.header \in SUBSET Groups
          /\ old.header = RowsNow(old.period, Groups)
          /\ old.listed = RowsNow(old.period, DOMAIN old.header)
      BY <1>1, <2>1, <2>4, RowsOfSets DEF ReadAsIs, Readings, IsRows
    <3>2. old.header[g] = report[<<g, old.period>>] /\ report[<<g, old.period>>] # NoReport /\ g \in Groups
      BY <3>1 DEF RowsNow
    <3>3. old.listed[g] = report[<<g, old.period>>]
      BY <3>1, <3>2 DEF RowsNow
    <3> QED
      BY <3>2, <3>3 DEF FullyVisible
  <2>5. ReadAsIs(state)
    BY <2>3 DEF ReadAsIs
  <2>6. ~state.disturbed => \A g \in DOMAIN state.shown :
            state.shown[g].of \cup state.shown[g].pairs \subseteq open
    <3>1. DOMAIN rows = visible /\ \A g \in visible : rows[g] = old.header[g]
      OBVIOUS
    <3> HIDE DEF state, rows, visible, old
    <3> QED
      BY <2>3, <2>4, <3>1
  <2> HIDE DEF state
  <2> QED
    BY <2>1, <2>3, <2>5, <2>6, ReaderGoesOn
<1>5. CASE LeaveReports(v)
  <2> DEFINE state == [old EXCEPT !.pc = "idle", !.shown = Nothing, !.disturbed = FALSE]
  <2>1. Reads(v, state)
    BY <1>5 DEF LeaveReports
  <2>2. state \in Readings /\ state.pc = "idle"
    BY <1>1, NothingTyped DEF Readings
  <2>3. ReadAsIs(state)
    BY <2>2 DEF ReadAsIs
  <2> HIDE DEF state
  <2> QED
    BY <2>1, <2>2, <2>3, ReaderGoesOn
<1> QED
  BY <1>2, <1>3, <1>4, <1>5 DEF ReadStep

LEMMA MoveKeeps ==
    ASSUME ReportInv, NEW g \in Groups, NEW p \in Evaluated, Move(g, p) PROVE ReportInv'
<1>1. UNCHANGED <<open, bank, report, rebuild, reading>>
  BY DEF Move
<1>2. ReportTypes'
  BY ReportConstants DEF Move, ReportInv, ReportTypes
<1>3. \A r \in Reporters : ScoredOnOne(r, rebuild[r])'
  BY <1>1 DEF ReportInv, ScoredOnOne
<1>4. \A q \in Periods, h \in Groups : report'[<<h, q>>] # NoReport => RowStands(q, report[<<h, q>>])'
  BY <1>1 DEF ReportInv, RowStands
<1>5. \A v \in Viewers : ReadAsIs(reading[v])'
  BY <1>1 DEF ReportInv, ReadAsIs, RowsNow
<1> QED
  BY <1>1, <1>2, <1>3, <1>4, <1>5 DEF ReportInv, ShownPopulationIsVisible

LEMMA ReportInvInit == ReportInit => ReportInv
<1> SUFFICES ASSUME ReportInit PROVE ReportInv
  OBVIOUS
<1>1. /\ \A r \in Reporters : \E p \in Periods : rebuild[r] = Fresh(p)
      /\ rebuild \in [Reporters -> {Fresh(p) : p \in Periods}]
      /\ \A v \in Viewers : reading[v] = NotReading
      /\ reading = [v \in Viewers |-> NotReading]
  BY DEF ReportInit
<1>2. NotReading \in Readings /\ NotReading.pc = "idle"
  BY NothingTyped DEF NotReading, Readings
<1>3. ReportTypes
  <2>1. rebuild \in [Reporters -> Scorings]
    BY <1>1, FreshTyped
  <2>2. reading \in [Viewers -> Readings]
    BY <1>1, <1>2
  <2> QED
    BY <2>1, <2>2, ReportConstants DEF ReportInit, ReportTypes
<1>4. ASSUME NEW r \in Reporters PROVE ScoredOnOne(r, rebuild[r])
  BY <1>1, NothingTyped DEF ScoredOnOne, Fresh
<1>5. /\ \A p \in Periods : bank[p] = NoReport
      /\ \A p \in Periods, g \in Groups : report[<<g, p>>] = NoReport
  BY DEF ReportInit
<1>6. \A v \in Viewers : ReadAsIs(reading[v])
  BY <1>1, <1>2 DEF ReadAsIs
<1>7. ShownPopulationIsVisible
  BY <1>1, <1>2 DEF ShownPopulationIsVisible
<1> QED
  BY <1>3, <1>4, <1>5, <1>6, <1>7 DEF ReportInv

LEMMA ReportInvStep == ReportInv /\ [ReportNext]_reportVars => ReportInv'
<1> SUFFICES ASSUME ReportInv, [ReportNext]_reportVars PROVE ReportInv'
  OBVIOUS
<1>1. ASSUME NEW r \in Reporters, RebuildStep(r) PROVE ReportInv'
  BY <1>1, LoadBankKeeps, ScoreKindKeeps, WriteKindKeeps, CommitKeeps, UnusableKeeps
     DEF RebuildStep
<1>2. ASSUME NEW v \in Viewers, ReadStep(v) PROVE ReportInv'
  BY <1>2, ReadersKeep
<1>3. ASSUME NEW g \in Groups, NEW p \in Evaluated, Move(g, p) PROVE ReportInv'
  BY <1>3, MoveKeeps
<1>4. CASE UNCHANGED reportVars
  <2>1. UNCHANGED <<member, open, bank, report, rebuild, reading, moves>>
    BY <1>4 DEF reportVars
  <2>2. ReportTypes'
    BY <2>1 DEF ReportInv, ReportTypes
  <2>3. \A r \in Reporters : ScoredOnOne(r, rebuild[r])'
    BY <2>1 DEF ReportInv, ScoredOnOne
  <2>4. \A q \in Periods, h \in Groups : report'[<<h, q>>] # NoReport => RowStands(q, report[<<h, q>>])'
    BY <2>1 DEF ReportInv, RowStands
  <2>5. \A v \in Viewers : ReadAsIs(reading[v])'
    BY <2>1 DEF ReportInv, ReadAsIs, RowsNow
  <2> QED
    BY <2>1, <2>2, <2>3, <2>4, <2>5 DEF ReportInv, ShownPopulationIsVisible
<1> QED
  BY <1>1, <1>2, <1>3, <1>4 DEF ReportNext

LEMMA ReportInvSound == ReportInv => ReportTypeOK /\ OneMetricPerRebuild /\ ShownPopulationIsVisible
BY ReportTyped DEF ReportInv, RowStands, OneMetricPerRebuild

\* The reports of one rebuild are measured on one scale, and no statistic is shown through posts
\* that its reader may not see, however rebuilds, membership and readers interleave
\* (process_unit_analysis.py, period reports of backend/app/main.py): for every number of groups,
\* posts, periods, rebuilds and readers.
THEOREM ReportsSound == ReportSpec => [](ReportTypeOK /\ ReportsAreSound)
<1>1. ReportSpec => []ReportInv
  BY ReportInvInit, ReportInvStep, PTL DEF ReportSpec
<1> QED
  BY <1>1, ReportInvSound, PTL DEF ReportsAreSound

-----------------------------------------------------------------------------
(* The composition: every step is one of its components, the others stutter. *)

LEMMA RecordStepsProject ==
    [RecordsNext]_<<part, revisionVars, catalogVars, graphVars, reportVars>> =>
        /\ [RevisionNext]_revisionVars /\ [CatalogNext]_catalogVars
        /\ [GraphNext]_graphVars /\ [ReportNext]_reportVars
BY DEF RecordsNext, RevisionsTurn, CatalogTurn, GraphTurn, ReportsTurn

LEMMA RecordsImplementParts == RecordsSpec => RevisionSpec /\ CatalogSpec /\ GraphSpec /\ ReportSpec
<1>1. RecordsInit => RevisionInit /\ CatalogInit /\ GraphInit /\ ReportInit
  BY DEF RecordsInit
<1> QED
  BY <1>1, RecordStepsProject, PTL DEF RecordsSpec, RevisionSpec, CatalogSpec, GraphSpec, ReportSpec

\* What is kept of posts, organizations, persons and evaluations stays sound whatever else is
\* written meanwhile: all variables are of their types, the graph shows what mentions support,
\* reports are comparable and disclose nothing, history is kept and names are bound.
THEOREM RecordsSound ==
    RecordsSpec => /\ [](RecordsTypeOK /\ EvidenceIsCurrent /\ ReportsAreSound)
                   /\ HistoryIsKept /\ NamesAreBound
BY RecordsImplementParts, HistoryKept, NamesBound, EvidenceCurrent, ReportsSound, PTL DEF RecordsTypeOK
=============================================================================
