------------------------------ MODULE UnitProofs ------------------------------
(* Theorems about ContentUnits for every body, batch size and number of consumers. *)
EXTENDS ContentUnits, SequenceTheorems, FiniteSetTheorems, TLAPS

-----------------------------------------------------------------------------
(* The keys of a unit and of its panels. *)

\* A finite set can be enumerated.
LEMMA Enumerable ==
    ASSUME NEW S, IsFiniteSet(S)
    PROVE  \E s \in [1 .. Cardinality(S) -> S] : Listed(s) = S
<1>1. PICK s : s \in Bijection(1 .. Cardinality(S), S)
  BY FS_CardinalityType DEF ExistsBijection
<1>2. s \in [1 .. Cardinality(S) -> S] /\ \A e \in S : \E i \in 1 .. Cardinality(S) : s[i] = e
  BY <1>1 DEF Bijection, Surjection, Injection
<1> QED
  BY <1>2 DEF Listed

\* What a consumer holds, as a record.
IsWork(x) ==
    x = [pc |-> x.pc, by |-> x.by, of |-> x.of, budget |-> x.budget, attempt |-> x.attempt,
         pictures |-> x.pictures, source |-> x.source, todo |-> x.todo, model |-> x.model,
         vectors |-> x.vectors]

\* Pictures of a body, described as one attempt may.
PicturesOK(state) ==
    /\ state.of \in Drafts
    /\ state.pictures \in [PicturePieces(state.of) -> Outcomes]

KeysOf(state) == {key \in Nat \X Nat : Described(state, key)}

\* A panel is one of the first MaxRegions.
LEMMA RegionsAreFew ==
    ASSUME NEW outcome \in Outcomes
    PROVE  /\ DOMAIN outcome.regions \subseteq 1 .. MaxRegions
           /\ \A r \in DOMAIN outcome.regions : outcome.regions[r] \in BOOLEAN
<1>1. PICK whole \in BOOLEAN, crops \in UNION {[1 .. n -> BOOLEAN] : n \in 0 .. MaxRegions} :
          outcome = [status |-> IF whole \/ \E r \in DOMAIN crops : crops[r] THEN "described"
                                                                           ELSE "failed",
                     regions |-> IF whole \/ \E r \in DOMAIN crops : crops[r] THEN crops ELSE <<>>]
  BY DEF Outcomes
<1>2. PICK n \in 0 .. MaxRegions : crops \in [1 .. n -> BOOLEAN]
  OBVIOUS
<1>3. outcome.regions = crops \/ outcome.regions = <<>>
  BY <1>1
<1> QED
  BY <1>2, <1>3, UnitBounds

\* What is embedded are units and described panels.
LEMMA KeysAreDescribed ==
    ASSUME NEW state, PicturesOK(state)
    PROVE  Keys(state) \in Seq(KeysOf(state))
<1> DEFINE d == state.of
           units == [i \in DOMAIN Pieces[d] |-> <<i, 0>>]
           panels == UNION {{i} \X Panels(state, i) : i \in PicturePieces(d)}
           place == CHOOSE s \in [1 .. Cardinality(panels) -> panels] : Listed(s) = panels
<1>1. d \in Drafts /\ Pieces[d] \in Seq([kind : {"text", "picture"}, indent : Nat])
  BY UnitPieces DEF PicturesOK
<1>2. Len(Pieces[d]) \in Nat /\ DOMAIN Pieces[d] = 1 .. Len(Pieces[d])
  BY <1>1, LenProperties
<1>3. units \in Seq(KeysOf(state))
  <2>1. \A i \in 1 .. Len(Pieces[d]) : <<i, 0>> \in KeysOf(state)
    BY <1>2 DEF KeysOf, Described
  <2>2. units \in [1 .. Len(Pieces[d]) -> KeysOf(state)]
    BY <1>2, <2>1
  <2> QED
    BY <1>2, <2>2
<1>4. panels \subseteq KeysOf(state) /\ panels \subseteq (1 .. Len(Pieces[d])) \X (1 .. MaxRegions)
  <2> SUFFICES ASSUME NEW i \in PicturePieces(d), NEW r \in Panels(state, i)
               PROVE  <<i, r>> \in KeysOf(state) /\ <<i, r>> \in (1 .. Len(Pieces[d])) \X (1 .. MaxRegions)
    OBVIOUS
  <2>1. i \in 1 .. Len(Pieces[d])
    BY <1>2 DEF PicturePieces
  <2>2. state.pictures[i] \in Outcomes /\ i \in DOMAIN state.pictures
    BY DEF PicturesOK
  <2>3. r \in 1 .. MaxRegions /\ state.pictures[i].regions[r]
    BY <2>2, RegionsAreFew DEF Panels
  <2> QED
    BY <1>2, <2>1, <2>2, <2>3, UnitBounds DEF KeysOf, Described
<1>5. IsFiniteSet(panels) /\ Cardinality(panels) \in Nat
  <2> DEFINE pieces == 1 .. Len(Pieces[d])
             regions == 1 .. MaxRegions
  <2>3. IsFiniteSet(pieces) /\ IsFiniteSet(regions)
    BY <1>2, UnitBounds, FS_Interval
  <2>1. IsFiniteSet(pieces \X regions)
    <3> HIDE DEF pieces, regions
    <3> QED
      BY <2>3, FS_Product
  <2>2. IsFiniteSet(panels)
    BY <1>4, <2>1, FS_Subset
  <2> QED
    BY <2>2, FS_CardinalityType
<1>6. place \in Seq(KeysOf(state))
  <2>1. place \in [1 .. Cardinality(panels) -> panels]
    <3> HIDE DEF panels
    <3> QED
      BY <1>5, Enumerable
  <2>2. place \in [1 .. Cardinality(panels) -> KeysOf(state)]
    <3> HIDE DEF panels, place
    <3> QED
      BY <1>4, <2>1
  <2> QED
    <3> HIDE DEF panels, place
    <3> QED
      BY <1>5, <2>2
<1>7. Keys(state) = units \o place
  BY DEF Keys
<1> HIDE DEF units, place
<1> QED
  BY <1>3, <1>6, <1>7, ConcatProperties

\* A batch and what remains are of the list.
LEMMA BatchesOfList ==
    ASSUME NEW S, NEW list \in Seq(S)
    PROVE  Listed(Taken(list)) \subseteq S /\ Remaining(list) \in Seq(S)
<1> DEFINE n == IF Len(list) < BatchSize THEN Len(list) ELSE BatchSize
<1>1. Len(list) \in Nat /\ n \in 0 .. Len(list) /\ \A i \in 1 .. Len(list) : list[i] \in S
  BY LenProperties, ElementOfSeq, UnitBounds
<1>2. Taken(list) \in Seq(S) /\ Len(Taken(list)) = n
  BY <1>1, SubSeqProperties DEF Taken
<1>3. Listed(Taken(list)) \subseteq S
  BY <1>2, LenProperties, ElementOfSeq DEF Listed
<1>4. Remaining(list) \in Seq(S)
  BY <1>1, <1>2, SubSeqProperties DEF Remaining
<1> QED
  BY <1>3, <1>4

-----------------------------------------------------------------------------
(* The inductive invariant. *)

Computing == {"pictures", "structure", "vectors", "replace"}
Judging == {"check", "succeed", "retry"}

\* What one consumer or script holds: once pictures are described, evidence about pieces of its
\* own body; only consumers have a claim.
WriterOK(s) ==
    /\ IsWork(s)
    /\ s.budget \in Nat /\ s.attempt \in Nat
    /\ s.pc \in Computing \cup Judging \cup {"idle", "record"}
    /\ s.by = "job" <=> s.budget > 0
    /\ s.pc \in Judging => s.by = "job"
    /\ s.pc # "idle" => s.of \in Drafts
    /\ s.pc = "pictures" => s.vectors = {}
    /\ s.pc \in {"structure", "vectors", "replace"} =>
           /\ PicturesOK(s)
           /\ DOMAIN s.source = TextPieces(s.of)
           /\ \A i \in TextPieces(s.of) : s.source[i] = "explicit" <=> i \in Explicit(s.of)
           /\ s.vectors \subseteq KeysOf(s)
           /\ s.vectors # {} => s.model # NoModel
    /\ s.pc = "vectors" => s.todo \in Seq(KeysOf(s))

\* A claim that the row has given out; numbers compare within one budget.
GivenOut(claim) ==
    /\ claim.budget <= ledger.budget
    /\ claim.budget = ledger.budget => claim.attempt <= ledger.attempts

SameClaim(a, b) == a.budget = b.budget /\ a.attempt = b.attempt

LedgerRows == [status : LedgerStatuses, digest : Drafts \cup {NoDraft},
               attempts : 0 .. MaxClaims, budget : 1 .. MaxBudgets]

UnitsTypes ==
    /\ draft \in Drafts /\ persisted.of \in Drafts \cup {NoDraft}
    /\ ledger \in LedgerRows /\ glance.of \in Drafts \cup {NoDraft}
    /\ author.budget \in Nat /\ author.attempt \in Nat /\ GivenOut(author)
    /\ judge.budget \in Nat /\ judge.budget <= ledger.budget

WritersOK ==
    /\ writing = [w \in Writers |-> writing[w]]
    /\ \A w \in Writers : WriterOK(writing[w]) /\ GivenOut(writing[w])

\* No two consumers hold the same claim; one that persisted its units before anybody replaced
\* them judges those; and after a success of the present budget nobody holds the present claim.
ClaimsInOrder ==
    /\ \A v, w \in Writers : v # w /\ writing[v].budget > 0 => ~SameClaim(writing[v], writing[w])
    /\ \A w \in Writers : writing[w].budget > 0 /\ writing[w].pc \in Computing => ~SameClaim(author, writing[w])
    /\ \A w \in Writers : writing[w].pc \in {"check", "succeed"} /\ SameClaim(author, writing[w]) =>
           persisted.of = writing[w].of
    /\ \A w \in Writers : writing[w].pc = "succeed" /\ SameClaim(author, writing[w]) => Complete(persisted, NoModel)
    /\ ledger.status = "absent" => judge.budget = 0
    /\ ledger.status = "succeeded" /\ judge.budget = ledger.budget =>
           \A w \in Writers : ~SameClaim(writing[w], Holder)

UnitsInv == UnitsTypes /\ WritersOK /\ ClaimsInOrder /\ SucceededIsStored /\ EvidenceHangsTogether

\* Records that are written out have the fields they name.
LEMMA WrittenOut ==
    ASSUME NEW x, NEW pc, NEW by, NEW of, NEW budget, NEW number, NEW pictures, NEW source, NEW todo,
           NEW model, NEW vectors,
           x = [pc |-> pc, by |-> by, of |-> of, budget |-> budget, attempt |-> number,
                pictures |-> pictures, source |-> source, todo |-> todo, model |-> model,
                vectors |-> vectors]
    PROVE  /\ IsWork(x) /\ x.pc = pc /\ x.by = by /\ x.of = of /\ x.budget = budget
           /\ x.attempt = number /\ x.pictures = pictures /\ x.source = source /\ x.todo = todo
           /\ x.model = model /\ x.vectors = vectors
BY DEF IsWork

LEMMA NobodyAtWork ==
    WriterOK(NotAtWork) /\ NotAtWork.pc = "idle" /\ NotAtWork.budget = 0 /\ NotAtWork.attempt = 0
<1>1. /\ IsWork(NotAtWork) /\ NotAtWork.pc = "idle" /\ NotAtWork.by = "none"
      /\ NotAtWork.budget = 0 /\ NotAtWork.attempt = 0
  BY DEF NotAtWork, IsWork
<1> QED
  BY <1>1 DEF WriterOK, Computing, Judging

LEMMA UnitsInvInit == UnitsInit => UnitsInv
<1> SUFFICES ASSUME UnitsInit PROVE UnitsInv
  OBVIOUS
<1>1. /\ ledger.budget = 1 /\ ledger.attempts = 0 /\ ledger.status = "absent" /\ ledger \in LedgerRows
      /\ author.budget = 0 /\ author.attempt = 0 /\ judge.budget = 0
  BY UnitBounds DEF UnitsInit, LedgerRows, LedgerStatuses, Active, NoClaim, NoJudge
<1>2. UnitsTypes
  BY <1>1 DEF UnitsInit, UnitsTypes, NothingStored, NoGlance, GivenOut
<1>3. \A w \in Writers : writing[w] = NotAtWork
  BY DEF UnitsInit
<1>4. WritersOK
  <2>1. writing = [w \in Writers |-> writing[w]]
    BY <1>3 DEF UnitsInit
  <2>2. \A w \in Writers : WriterOK(writing[w]) /\ GivenOut(writing[w])
    BY <1>1, <1>3, NobodyAtWork DEF GivenOut
  <2> QED
    BY <2>1, <2>2 DEF WritersOK
<1>5. ClaimsInOrder
  BY <1>1, <1>3, NobodyAtWork DEF ClaimsInOrder, Computing
<1>6. SucceededIsStored
  BY <1>1 DEF SucceededIsStored
<1>7. EvidenceHangsTogether
  BY DEF UnitsInit, EvidenceHangsTogether, NothingStored
<1> QED
  BY <1>2, <1>4, <1>5, <1>6, <1>7 DEF UnitsInv

-----------------------------------------------------------------------------
(* What several actions have in common. *)

\* The ledger moves and no writer does.
LEMMA LedgerMoves ==
    ASSUME UnitsInv, UNCHANGED <<draft, persisted, writing, author, judge>>,
           glance'.of \in Drafts \cup {NoDraft}, ledger' \in LedgerRows,
           \/ ledger'.budget = ledger.budget /\ ledger'.attempts = ledger.attempts
           \/ ledger'.budget = ledger.budget + 1 /\ ledger'.status = "queued",
           ledger'.status = "succeeded" => ledger.status = "succeeded" \/ judge.budget = 0,
           ledger'.status = "absent" => ledger.status = "absent"
    PROVE  UnitsInv'
<1>1. ledger.budget \in Nat \ {0} /\ ledger.attempts \in Nat /\ ledger'.budget \in Nat \ {0}
  BY DEF UnitsInv, UnitsTypes, LedgerRows
<1>2. ASSUME NEW c, c.budget \in Nat, c.attempt \in Nat, GivenOut(c)
      PROVE  /\ c.budget <= ledger'.budget
             /\ c.budget = ledger'.budget => c.attempt <= ledger'.attempts
  BY <1>1, <1>2 DEF GivenOut
<1>3. UnitsTypes'
  BY <1>1, <1>2 DEF UnitsInv, UnitsTypes, GivenOut
<1>4. WritersOK'
  <2>1. \A w \in Writers : WriterOK(writing[w]) /\ GivenOut(writing[w])
    BY DEF UnitsInv, WritersOK
  <2>2. \A w \in Writers : (WriterOK(writing[w]) /\ GivenOut(writing[w]))'
    <3> SUFFICES ASSUME NEW w \in Writers PROVE (WriterOK(writing[w]) /\ GivenOut(writing[w]))'
      OBVIOUS
    <3>1. writing[w].budget \in Nat /\ writing[w].attempt \in Nat
      BY <2>1 DEF WriterOK
    <3> QED
      BY <1>2, <2>1, <3>1 DEF GivenOut, WriterOK, IsWork
  <2> QED
    BY <2>2 DEF UnitsInv, WritersOK
<1>5. ClaimsInOrder'
  BY <1>1 DEF UnitsInv, UnitsTypes, ClaimsInOrder, Holder, SameClaim, Complete, Panels
<1>6. SucceededIsStored'
  <2>1. CASE ledger'.status = "succeeded" /\ judge.budget = ledger'.budget
    <3>1. ledger.status = "succeeded" /\ Holder' = Holder /\ judge.budget = ledger.budget
      BY <1>1, <2>1 DEF Holder
    <3> QED
      BY <3>1 DEF UnitsInv, SucceededIsStored, Complete, Panels
  <2> QED
    BY <2>1 DEF SucceededIsStored
<1>7. EvidenceHangsTogether'
  BY DEF UnitsInv, EvidenceHangsTogether, Described
<1> QED
  BY <1>3, <1>4, <1>5, <1>6, <1>7 DEF UnitsInv

\* A writer goes on with the claim it has, or with none, and the ledger stays.
LEMMA GoesOn ==
    ASSUME UnitsInv, NEW w \in Writers, NEW s, Continues(w, s),
           UNCHANGED <<draft, persisted, ledger, glance, author, judge>>,
           WriterOK(s), SameClaim(s, writing[w]), s.pc # "check",
           s.pc \in Computing => writing[w].pc \in Computing,
           s.pc = "succeed" =>
               writing[w].pc = "check" /\ s.of = writing[w].of /\ Complete(persisted, NoModel)
    PROVE  UnitsInv'
<1>1. writing' = [v \in Writers |-> IF v = w THEN s ELSE writing[v]]
  BY DEF UnitsInv, WritersOK, Continues
<1>2. UnitsTypes'
  BY DEF UnitsInv, UnitsTypes, GivenOut
<1>3. WritersOK'
  <2>1. writing' = [v \in Writers |-> writing'[v]]
    BY <1>1
  <2>2. ASSUME NEW v \in Writers PROVE WriterOK(writing'[v]) /\ (GivenOut(writing[v]))'
    BY <1>1 DEF UnitsInv, WritersOK, GivenOut, SameClaim
  <2> QED
    BY <2>1, <2>2 DEF WritersOK, WriterOK, IsWork
<1>4. ClaimsInOrder'
  <2>1. \A v \in Writers : SameClaim(writing'[v], writing[v])
    BY <1>1 DEF SameClaim
  <2>2. \A v \in Writers : writing'[v] = IF v = w THEN s ELSE writing[v]
    BY <1>1
  <2>3. \A u, v \in Writers : u # v /\ writing'[u].budget > 0 => ~SameClaim(writing'[u], writing'[v])
    BY <2>1 DEF UnitsInv, ClaimsInOrder, SameClaim
  <2>4. \A v \in Writers : writing'[v].budget > 0 /\ writing'[v].pc \in Computing => ~SameClaim(author, writing'[v])
    BY <2>1, <2>2 DEF UnitsInv, ClaimsInOrder, SameClaim
  <2>5. \A v \in Writers : writing'[v].pc \in {"check", "succeed"} /\ SameClaim(author, writing'[v]) =>
           persisted.of = writing'[v].of
    BY <2>1, <2>2 DEF UnitsInv, ClaimsInOrder, SameClaim
  <2>6. \A v \in Writers : writing'[v].pc = "succeed" /\ SameClaim(author, writing'[v]) => Complete(persisted, NoModel)
    BY <2>1, <2>2 DEF UnitsInv, ClaimsInOrder, SameClaim
  <2>7. ledger.status = "succeeded" /\ judge.budget = ledger.budget =>
           \A v \in Writers : ~SameClaim(writing'[v], Holder)
    BY <2>1 DEF UnitsInv, ClaimsInOrder, SameClaim
  <2>8. ledger.status = "absent" => judge.budget = 0
    BY DEF UnitsInv, ClaimsInOrder
  <2> QED
    BY <2>3, <2>4, <2>5, <2>6, <2>7, <2>8 DEF ClaimsInOrder, SameClaim, Holder, Complete, Panels
<1>5. SucceededIsStored' /\ EvidenceHangsTogether'
  BY DEF UnitsInv, SucceededIsStored, Holder, EvidenceHangsTogether, Complete, Described, Panels
<1> QED
  BY <1>2, <1>3, <1>4, <1>5 DEF UnitsInv

\* A writer ends; the row may be settled, as succeeded by a claim of its budget only if that
\* claim is the present one and has found its units complete.
LEMMA Settles ==
    ASSUME UnitsInv, NEW w \in Writers, Continues(w, NotAtWork),
           UNCHANGED <<draft, persisted, glance, author>>, ledger' \in LedgerRows,
           ledger'.budget = ledger.budget, ledger'.attempts = ledger.attempts,
           judge'.budget \in Nat, judge'.budget <= ledger.budget,
           ledger'.status = "absent" => judge'.budget = 0,
           ledger'.status = "succeeded" /\ judge'.budget = ledger.budget =>
               \/ ledger.status = "succeeded" /\ judge' = judge
               \/ /\ SameClaim(writing[w], Holder) /\ writing[w].pc = "succeed"
                  /\ judge'.of = writing[w].of
    PROVE  UnitsInv'
<1> DEFINE Declared == ledger'.status = "succeeded" /\ judge'.budget = ledger.budget
<1>1. writing' = [v \in Writers |-> IF v = w THEN NotAtWork ELSE writing[v]]
  BY DEF UnitsInv, WritersOK, Continues
<1>2. UnitsTypes'
  BY DEF UnitsInv, UnitsTypes, GivenOut
<1>3. ledger.budget \in Nat \ {0} /\ Holder' = Holder
  BY DEF UnitsInv, UnitsTypes, LedgerRows, Holder
<1>4. \A v \in Writers : writing'[v] = IF v = w THEN NotAtWork ELSE writing[v]
  BY <1>1
<1>5. WritersOK'
  <2>1. writing' = [v \in Writers |-> writing'[v]]
    BY <1>1
  <2>2. ASSUME NEW v \in Writers PROVE WriterOK(writing'[v]) /\ (GivenOut(writing[v]))'
    <3>1. WriterOK(writing[v]) /\ GivenOut(writing[v])
      BY DEF UnitsInv, WritersOK
    <3>2. CASE v = w
      BY <1>3, <1>4, <3>2, NobodyAtWork DEF GivenOut
    <3>3. CASE v # w
      BY <1>4, <3>1, <3>3 DEF GivenOut
    <3> QED
      BY <3>2, <3>3
  <2> QED
    BY <2>1, <2>2 DEF WritersOK, WriterOK, IsWork
<1>6. Declared => \A v \in Writers : ~SameClaim(writing'[v], Holder)
  <2> SUFFICES ASSUME Declared, NEW v \in Writers PROVE ~SameClaim(writing'[v], Holder)
    OBVIOUS
  <2>1. CASE v = w
    BY <1>3, <1>4, <2>1, NobodyAtWork DEF SameClaim, Holder
  <2>2. CASE v # w /\ ledger.status = "succeeded" /\ judge' = judge
    BY <1>4, <2>2 DEF UnitsInv, ClaimsInOrder
  <2>3. CASE v # w /\ SameClaim(writing[w], Holder)
    <3>1. writing[w].budget > 0 /\ writing'[v] = writing[v]
      BY <1>3, <1>4, <2>3 DEF SameClaim, Holder
    <3>2. ~SameClaim(writing[w], writing[v])
      BY <2>3, <3>1 DEF UnitsInv, ClaimsInOrder
    <3> QED
      BY <2>3, <3>1, <3>2 DEF SameClaim
  <2> QED
    BY <2>1, <2>2, <2>3
<1>7. ClaimsInOrder'
  <2>1. \A u, v \in Writers : u # v /\ writing'[u].budget > 0 => ~SameClaim(writing'[u], writing'[v])
    BY <1>4, NobodyAtWork DEF UnitsInv, ClaimsInOrder, SameClaim
  <2>2. \A v \in Writers : writing'[v].budget > 0 /\ writing'[v].pc \in Computing => ~SameClaim(author, writing'[v])
    BY <1>4, NobodyAtWork DEF UnitsInv, ClaimsInOrder
  <2>3. \A v \in Writers : writing'[v].pc \in {"check", "succeed"} /\ SameClaim(author, writing'[v]) =>
           persisted.of = writing'[v].of
    BY <1>4, NobodyAtWork DEF UnitsInv, ClaimsInOrder
  <2>4. \A v \in Writers : writing'[v].pc = "succeed" /\ SameClaim(author, writing'[v]) => Complete(persisted, NoModel)
    BY <1>4, NobodyAtWork DEF UnitsInv, ClaimsInOrder
  <2> QED
    BY <1>3, <1>6, <2>1, <2>2, <2>3, <2>4 DEF ClaimsInOrder, SameClaim, Complete, Panels
<1>8. SucceededIsStored'
  <2> SUFFICES ASSUME Declared, author = Holder
               PROVE  persisted.of = judge'.of /\ Complete(persisted, NoModel)
    BY <1>3 DEF SucceededIsStored, Complete, Panels
  <2>1. CASE ledger.status = "succeeded" /\ judge' = judge
    BY <2>1 DEF UnitsInv, SucceededIsStored
  <2>2. CASE /\ SameClaim(writing[w], Holder) /\ writing[w].pc = "succeed"
             /\ judge'.of = writing[w].of
    <3>1. SameClaim(author, writing[w])
      BY <2>2 DEF SameClaim
    <3> QED
      BY <2>2, <3>1 DEF UnitsInv, ClaimsInOrder
  <2> QED
    BY <2>1, <2>2
<1>9. EvidenceHangsTogether'
  BY DEF UnitsInv, EvidenceHangsTogether, Described
<1> QED
  BY <1>2, <1>5, <1>7, <1>8, <1>9 DEF UnitsInv

\* A writer begins, with the claim that the row gives out now, or as a script without one.
LEMMA BeginsWell ==
    ASSUME UnitsInv, NEW w \in Writers, NEW s, Continues(w, s), draft' \in Drafts,
           UNCHANGED <<persisted, glance, author, judge>>, ledger' \in LedgerRows,
           WriterOK(s), s.pc = "pictures", ledger'.budget = ledger.budget,
           \/ ledger' = ledger /\ s.budget = 0
           \/ /\ ledger'.attempts = ledger.attempts + 1 /\ ledger'.status = "running"
              /\ s.budget = ledger.budget /\ s.attempt = ledger'.attempts
    PROVE  UnitsInv'
<1>1. writing' = [v \in Writers |-> IF v = w THEN s ELSE writing[v]]
  BY DEF UnitsInv, WritersOK, Continues
<1>2. ledger.budget \in Nat \ {0} /\ ledger.attempts \in Nat /\ s.budget \in Nat /\ s.attempt \in Nat
  BY DEF UnitsInv, UnitsTypes, LedgerRows, WriterOK
<1>3. \A v \in Writers : writing'[v] = IF v = w THEN s ELSE writing[v]
  BY <1>1
<1>4. \A v \in Writers : /\ WriterOK(writing[v]) /\ GivenOut(writing[v])
                        /\ writing[v].budget \in Nat /\ writing[v].attempt \in Nat
  BY DEF UnitsInv, WritersOK, WriterOK
<1>5. UnitsTypes'
  BY <1>2 DEF UnitsInv, UnitsTypes, GivenOut
<1>6. WritersOK'
  <2>1. writing' = [v \in Writers |-> writing'[v]]
    BY <1>1
  <2>2. ASSUME NEW v \in Writers PROVE WriterOK(writing'[v]) /\ (GivenOut(writing[v]))'
    <3>1. CASE v = w
      BY <1>2, <1>3, <3>1 DEF GivenOut
    <3>2. CASE v # w
      BY <1>2, <1>3, <1>4, <3>2 DEF GivenOut
    <3> QED
      BY <3>1, <3>2
  <2> QED
    BY <2>1, <2>2 DEF WritersOK, WriterOK, IsWork
<1>7. ASSUME NEW c, c.budget \in Nat, c.attempt \in Nat, GivenOut(c), s.budget > 0
      PROVE  ~SameClaim(c, s) /\ ~SameClaim(s, c)
  BY <1>2, <1>7 DEF GivenOut, SameClaim
<1>8. ClaimsInOrder'
  <2>1. \A u, v \in Writers : u # v /\ writing'[u].budget > 0 => ~SameClaim(writing'[u], writing'[v])
    <3> SUFFICES ASSUME NEW u \in Writers, NEW v \in Writers, u # v, writing'[u].budget > 0
                 PROVE  ~SameClaim(writing'[u], writing'[v])
      OBVIOUS
    <3>1. CASE u = w
      BY <1>3, <1>4, <1>7, <3>1
    <3>2. CASE v = w
      <4>1. s.budget = 0 => writing'[u].budget # s.budget
        BY <1>4, <1>3, <3>2
      <4>2. s.budget > 0 => ~SameClaim(writing[u], s)
        BY <1>4, <1>7
      <4> QED
        BY <1>2, <1>3, <3>2, <4>1, <4>2 DEF SameClaim
    <3>3. CASE u # w /\ v # w
      BY <1>3, <3>3 DEF UnitsInv, ClaimsInOrder
    <3> QED
      BY <3>1, <3>2, <3>3
  <2>2. \A v \in Writers : writing'[v].budget > 0 /\ writing'[v].pc \in Computing => ~SameClaim(author, writing'[v])
    <3>1. s.budget > 0 => ~SameClaim(author, s)
      BY <1>7 DEF UnitsInv, UnitsTypes
    <3> QED
      BY <1>3, <3>1 DEF UnitsInv, ClaimsInOrder
  <2>3. \A v \in Writers : writing'[v].pc \in {"check", "succeed"} /\ SameClaim(author, writing'[v]) =>
           persisted.of = writing'[v].of
    BY <1>3 DEF UnitsInv, ClaimsInOrder
  <2>4. \A v \in Writers : writing'[v].pc = "succeed" /\ SameClaim(author, writing'[v]) => Complete(persisted, NoModel)
    BY <1>3 DEF UnitsInv, ClaimsInOrder
  <2>5. ledger'.status = "absent" => judge.budget = 0
    BY DEF UnitsInv, ClaimsInOrder
  <2>6. ledger'.status = "succeeded" /\ judge.budget = ledger'.budget =>
           \A v \in Writers : ~SameClaim(writing'[v], Holder')
    <3> SUFFICES ASSUME ledger'.status = "succeeded", judge.budget = ledger'.budget, NEW v \in Writers
                 PROVE  ~SameClaim(writing'[v], Holder')
      OBVIOUS
    <3>1. ledger' = ledger /\ s.budget = 0 /\ Holder' = Holder
      BY DEF Holder
    <3>2. CASE v = w
      BY <1>2, <1>3, <3>1, <3>2 DEF SameClaim, Holder
    <3>3. CASE v # w
      BY <1>3, <3>1, <3>3 DEF UnitsInv, ClaimsInOrder
    <3> QED
      BY <3>2, <3>3
  <2> QED
    BY <2>1, <2>2, <2>3, <2>4, <2>5, <2>6 DEF ClaimsInOrder, SameClaim, Complete, Panels
<1>9. SucceededIsStored' /\ EvidenceHangsTogether'
  BY DEF UnitsInv, SucceededIsStored, Holder, EvidenceHangsTogether, Complete, Described, Panels
<1> QED
  BY <1>5, <1>6, <1>8, <1>9 DEF UnitsInv

-----------------------------------------------------------------------------
(* One lemma per action, or for a few of a kind. *)

LEMMA LedgerRow ==
    ASSUME UnitsInv
    PROVE  /\ ledger.status \in LedgerStatuses /\ ledger.digest \in Drafts \cup {NoDraft}
           /\ ledger.attempts \in 0 .. MaxClaims /\ ledger.budget \in 1 .. MaxBudgets
           /\ ledger = [status |-> ledger.status, digest |-> ledger.digest,
                        attempts |-> ledger.attempts, budget |-> ledger.budget]
BY DEF UnitsInv, UnitsTypes, LedgerRows

\* Another status, or with it another body.
LEMMA OtherStatus ==
    ASSUME UnitsInv, NEW status \in LedgerStatuses, ledger' = [ledger EXCEPT !.status = status]
    PROVE  /\ ledger' \in LedgerRows /\ ledger'.status = status
           /\ ledger'.budget = ledger.budget /\ ledger'.attempts = ledger.attempts
BY LedgerRow DEF LedgerRows

LEMMA OtherBody ==
    ASSUME UnitsInv, NEW status \in LedgerStatuses, NEW d \in Drafts \cup {NoDraft},
           ledger' = [ledger EXCEPT !.status = status, !.digest = d]
    PROVE  /\ ledger' \in LedgerRows /\ ledger'.status = status
           /\ ledger'.budget = ledger.budget /\ ledger'.attempts = ledger.attempts
BY LedgerRow DEF LedgerRows

LEMMA RequeueMoves ==
    ASSUME UnitsInv, Requeue
    PROVE  /\ ledger' \in LedgerRows /\ ledger'.status = "queued"
           /\ ledger'.budget = ledger.budget + 1
<1>1. glance.of \in Drafts \cup {NoDraft}
  BY DEF UnitsInv, UnitsTypes
<1> QED
  BY <1>1, LedgerRow, UnitBounds DEF Requeue, LedgerRows, LedgerStatuses, Active

LEMMA LooksKeep ==
    ASSUME UnitsInv, Look \/ Ensure \/ RequeueFailed
    PROVE  UnitsInv'
<1>1. UNCHANGED <<draft, persisted, writing, author, judge>>
  BY DEF Look, Ensure, RequeueFailed
<1>2. glance'.of \in Drafts \cup {NoDraft}
  <2>1. glance.of \in Drafts \cup {NoDraft} /\ draft \in Drafts
    BY DEF UnitsInv, UnitsTypes
  <2>2. CASE Look
    <3>1. CASE glance' = [of |-> draft, complete |-> "unread"]
      BY <2>1, <3>1
    <3>2. CASE glance' = [glance EXCEPT !.complete = IF Complete(persisted, NoModel) THEN "yes" ELSE "no"]
      BY <2>1, <3>2
    <3> QED
      BY <2>2, <3>1, <3>2 DEF Look
  <2>3. CASE glance' = NoGlance
    BY <2>3 DEF NoGlance
  <2> QED
    BY <2>2, <2>3 DEF Ensure, RequeueFailed
<1>3. CASE UNCHANGED ledger
  BY <1>1, <1>2, <1>3, LedgerMoves DEF UnitsInv, UnitsTypes
<1>4. CASE Requeue
  BY <1>1, <1>2, <1>4, RequeueMoves, LedgerMoves
<1>5. CASE /\ ledger.status = "absent"
           /\ ledger' = [ledger EXCEPT !.status = IF glance.complete = "yes" THEN "succeeded" ELSE "queued",
                                       !.digest = glance.of]
  <2> DEFINE status == IF glance.complete = "yes" THEN "succeeded" ELSE "queued"
  <2>1. status \in LedgerStatuses /\ status # "absent" /\ glance.of \in Drafts \cup {NoDraft}
    BY DEF LedgerStatuses, Active, UnitsInv, UnitsTypes
  <2> HIDE DEF status
  <2>2. ledger' = [ledger EXCEPT !.status = status, !.digest = glance.of]
    BY <1>5 DEF status
  <2>3. /\ ledger' \in LedgerRows /\ ledger'.status = status
        /\ ledger'.budget = ledger.budget /\ ledger'.attempts = ledger.attempts
    BY <2>1, <2>2, OtherBody
  <2>4. judge.budget = 0
    BY <1>5 DEF UnitsInv, ClaimsInOrder
  <2> QED
    BY <1>1, <1>2, <2>1, <2>3, <2>4, LedgerMoves
<1> QED
  BY <1>3, <1>4, <1>5 DEF Look, Ensure, RequeueFailed

LEMMA RefuseExhaustedKeeps ==
    ASSUME UnitsInv, RefuseExhausted
    PROVE  UnitsInv'
<1>1. /\ ledger' \in LedgerRows /\ ledger'.status = "failed"
      /\ ledger'.budget = ledger.budget /\ ledger'.attempts = ledger.attempts
  BY OtherStatus DEF RefuseExhausted, LedgerStatuses
<1> QED
  BY <1>1, LedgerMoves DEF RefuseExhausted, UnitsInv, UnitsTypes

\* What begins is a record whose pictures are still to be described.
LEMMA ClaimedIsOK ==
    ASSUME NEW by, NEW d \in Drafts, NEW budget \in Nat, NEW number \in Nat, NEW model, NEW s,
           by = "job" <=> budget > 0,
           s = [pc |-> "pictures", by |-> by, of |-> d, budget |-> budget, attempt |-> number,
                pictures |-> <<>>, source |-> <<>>, todo |-> <<>>, model |-> model, vectors |-> {}]
    PROVE  /\ WriterOK(s) /\ s.pc = "pictures" /\ s.budget = budget /\ s.attempt = number
<1>1. /\ IsWork(s) /\ s.pc = "pictures" /\ s.by = by /\ s.of = d /\ s.budget = budget
      /\ s.attempt = number /\ s.vectors = {}
  BY DEF IsWork
<1> QED
  BY <1>1 DEF WriterOK, Computing, Judging

LEMMA TakeLeaseKeeps ==
    ASSUME UnitsInv, NEW w \in Writers, TakeLease(w)
    PROVE  UnitsInv'
<1> DEFINE claim == [budget |-> ledger.budget, attempt |-> ledger.attempts + 1]
           s == [NotAtWork EXCEPT !.pc = "pictures", !.by = "job", !.of = draft, !.budget = claim.budget,
                                  !.attempt = claim.attempt, !.model = NoModel]
<1>1. /\ ledger.budget \in Nat \ {0} /\ ledger.attempts \in Nat /\ ledger.attempts < MaxClaims
      /\ ledger.attempts + 1 \in 0 .. MaxClaims
  BY LedgerRow, UnitBounds DEF TakeLease
<1>2. claim.budget = ledger.budget /\ claim.attempt = ledger.attempts + 1
  OBVIOUS
<1>3. Continues(w, s)
  BY DEF TakeLease, Begins
<1>4. draft \in Drafts /\ UNCHANGED <<draft, persisted, glance, author, judge>>
  BY DEF TakeLease, UnitsInv, UnitsTypes
<1>5. /\ ledger' \in LedgerRows /\ ledger'.status = "running"
      /\ ledger'.budget = ledger.budget /\ ledger'.attempts = ledger.attempts + 1
  BY <1>1, LedgerRow DEF TakeLease, LedgerRows, LedgerStatuses, Active
<1> HIDE DEF claim
<1>6. WriterOK(s) /\ s.pc = "pictures" /\ s.budget = ledger.budget /\ s.attempt = ledger.attempts + 1
  <2> DEFINE budget == ledger.budget
             number == ledger.attempts + 1
  <2>1. s = [NotAtWork EXCEPT !.pc = "pictures", !.by = "job", !.of = draft, !.budget = budget,
                              !.attempt = number, !.model = NoModel]
    BY <1>2
  <2>2. budget \in Nat /\ number \in Nat /\ budget > 0
    BY <1>1
  <2> HIDE DEF s, budget, number
  <2>3. s = [pc |-> "pictures", by |-> "job", of |-> draft, budget |-> budget, attempt |-> number,
             pictures |-> <<>>, source |-> <<>>, todo |-> <<>>, model |-> NoModel, vectors |-> {}]
    BY <2>1 DEF NotAtWork
  <2>4. WriterOK(s) /\ s.pc = "pictures" /\ s.budget = budget /\ s.attempt = number
    BY <1>4, <2>2, <2>3, ClaimedIsOK
  <2> QED
    BY <2>4 DEF budget, number
<1> HIDE DEF s
<1> QED
  BY <1>3, <1>4, <1>5, <1>6, BeginsWell

\* The import of a post, and the backfill.
LEMMA ScriptsKeep ==
    ASSUME UnitsInv, NEW w \in Writers, ImportPost(w) \/ Backfill(w)
    PROVE  UnitsInv'
<1>1. /\ UNCHANGED <<persisted, ledger, glance, author, judge>>
      /\ \E by \in {"import", "backfill"}, model \in Models \cup {NoModel} :
            draft' \in Drafts /\ Begins(w, by, draft', NoClaim, model)
  BY DEF ImportPost, Backfill, UnitsInv, UnitsTypes
<1>2. PICK by \in {"import", "backfill"}, model \in Models \cup {NoModel} :
          draft' \in Drafts /\ Begins(w, by, draft', NoClaim, model)
  BY <1>1
<1> DEFINE s == [NotAtWork EXCEPT !.pc = "pictures", !.by = by, !.of = draft', !.budget = NoClaim.budget,
                                  !.attempt = NoClaim.attempt, !.model = model]
<1>3. Continues(w, s)
  BY <1>2 DEF Begins
<1>4. NoClaim.budget = 0 /\ NoClaim.attempt = 0
  BY DEF NoClaim
<1>5. WriterOK(s) /\ s.pc = "pictures" /\ s.budget = 0
  <2> DEFINE d == draft'
  <2>1. s = [NotAtWork EXCEPT !.pc = "pictures", !.by = by, !.of = d, !.budget = 0,
                              !.attempt = 0, !.model = model]
    BY <1>4
  <2>2. d \in Drafts /\ (by = "job" <=> 0 > 0)
    BY <1>2
  <2> HIDE DEF s, d
  <2>3. s = [pc |-> "pictures", by |-> by, of |-> d, budget |-> 0, attempt |-> 0,
             pictures |-> <<>>, source |-> <<>>, todo |-> <<>>, model |-> model, vectors |-> {}]
    BY <2>1 DEF NotAtWork
  <2> QED
    BY <2>2, <2>3, ClaimedIsOK
<1> HIDE DEF s
<1> QED
  BY <1>1, <1>2, <1>3, <1>5, BeginsWell DEF UnitsInv, UnitsTypes

LEMMA WithKeys ==
    ASSUME NEW x, IsWork(x), NEW todo, NEW s, s = [x EXCEPT !.pc = "vectors", !.todo = todo]
    PROVE  s = [pc |-> "vectors", by |-> x.by, of |-> x.of, budget |-> x.budget,
                attempt |-> x.attempt, pictures |-> x.pictures,
                source |-> x.source, todo |-> todo, model |-> x.model, vectors |-> x.vectors]
BY DEF IsWork

LEMMA WithSource ==
    ASSUME NEW x, IsWork(x), NEW todo, NEW source, NEW s,
           s = [x EXCEPT !.todo = todo, !.source = source]
    PROVE  s = [pc |-> x.pc, by |-> x.by, of |-> x.of, budget |-> x.budget,
                attempt |-> x.attempt, pictures |-> x.pictures,
                source |-> source, todo |-> todo, model |-> x.model, vectors |-> x.vectors]
BY DEF IsWork

LEMMA DescribeKeeps ==
    ASSUME UnitsInv, NEW w \in Writers, Describe(w)
    PROVE  UnitsInv'
<1> DEFINE d == writing[w].of
           sources == [i \in TextPieces(d) |-> IF i \in Explicit(d) THEN "explicit" ELSE "unresolved"]
<1>1. writing[w].pc = "pictures" /\ WriterOK(writing[w])
  BY DEF Describe, UnitsInv, WritersOK
<1>2. PICK found \in [PicturePieces(d) -> Outcomes] :
          Continues(w, [writing[w] EXCEPT !.pc = "structure", !.pictures = found,
                !.todo = ToAdjudicate(d), !.source = sources])
  BY DEF Describe
<1> DEFINE s == [writing[w] EXCEPT !.pc = "structure", !.pictures = found,
                 !.todo = ToAdjudicate(d), !.source = sources]
<1>3. /\ DOMAIN sources = TextPieces(d)
      /\ \A i \in TextPieces(d) : sources[i] = "explicit" <=> i \in Explicit(d)
  OBVIOUS
<1> HIDE DEF sources
<1>4. /\ IsWork(s) /\ s.pc = "structure" /\ s.of = d /\ s.pictures = found /\ s.source = sources
      /\ s.vectors = {} /\ d \in Drafts
      /\ s.by = writing[w].by /\ s.budget = writing[w].budget /\ s.attempt = writing[w].attempt
  <2>1. s = [writing[w] EXCEPT !.pc = "structure", !.pictures = found,
             !.todo = ToAdjudicate(d), !.source = sources]
    OBVIOUS
  <2>2. IsWork(writing[w]) /\ d \in Drafts /\ writing[w].vectors = {}
    BY <1>1 DEF WriterOK
  <2> DEFINE state == writing[w]
             todo == ToAdjudicate(d)
  <2>3. s = [state EXCEPT !.pc = "structure", !.pictures = found, !.todo = todo, !.source = sources]
    BY <2>1
  <2>4. IsWork(state) /\ state.of = d /\ state.vectors = {}
    BY <2>2
  <2> HIDE DEF s, state, todo
  <2>5. s = [pc |-> "structure", by |-> state.by, of |-> state.of,
             budget |-> state.budget, attempt |-> state.attempt, pictures |-> found,
             source |-> sources, todo |-> todo, model |-> state.model, vectors |-> state.vectors]
    BY <2>3, <2>4 DEF IsWork
  <2>6. /\ IsWork(s) /\ s.pc = "structure" /\ s.of = state.of /\ s.pictures = found
        /\ s.source = sources /\ s.vectors = state.vectors /\ s.by = state.by /\ s.budget = state.budget /\ s.attempt = state.attempt
    BY <2>5, WrittenOut
  <2> QED
    BY <2>2, <2>4, <2>6 DEF state
<1> HIDE DEF s
<1>5. WriterOK(s)
  BY <1>1, <1>2, <1>3, <1>4 DEF WriterOK, PicturesOK, Computing, Judging
<1>6. Continues(w, s)
  BY <1>2 DEF s
<1>7. SameClaim(s, writing[w]) /\ writing[w].pc \in Computing /\ s.pc \notin {"check", "succeed"}
  BY <1>1, <1>4 DEF SameClaim, Computing
<1> QED
  BY <1>5, <1>6, <1>7, GoesOn DEF Describe

LEMMA StructureKeeps ==
    ASSUME UnitsInv, NEW w \in Writers, Structure(w)
    PROVE  UnitsInv'
<1> DEFINE state == writing[w]
           batch == Listed(Taken(state.todo))
<1>1. state.pc = "structure" /\ WriterOK(state)
  BY DEF Structure, UnitsInv, WritersOK
<1>2. CASE state.todo = <<>>
  <2> DEFINE s == [state EXCEPT !.pc = "vectors", !.todo = Keys(state)]
  <2>1. Keys(state) \in Seq(KeysOf(state))
    BY <1>1, KeysAreDescribed DEF WriterOK
  <2>2. /\ IsWork(s) /\ s.pc = "vectors" /\ s.of = state.of /\ s.pictures = state.pictures
        /\ s.source = state.source /\ s.vectors = state.vectors /\ s.model = state.model
        /\ s.by = state.by /\ s.budget = state.budget /\ s.attempt = state.attempt /\ s.todo = Keys(state)
    <3>1. s = [state EXCEPT !.pc = "vectors", !.todo = Keys(state)] /\ IsWork(state)
      BY <1>1 DEF WriterOK
    <3> HIDE DEF s, state
    <3>2. s = [pc |-> "vectors", by |-> state.by, of |-> state.of,
             budget |-> state.budget, attempt |-> state.attempt, pictures |-> state.pictures,
               source |-> state.source, todo |-> Keys(state), model |-> state.model, vectors |-> state.vectors]
      BY <3>1, WithKeys
    <3> QED
      BY <3>2, WrittenOut
  <2>3. Continues(w, s)
    BY <1>2 DEF Structure
  <2> HIDE DEF s
  <2>4. KeysOf(s) = KeysOf(state)
    BY <2>2 DEF KeysOf, Described
  <2>5. WriterOK(s)
    BY <1>1, <2>1, <2>2, <2>4 DEF WriterOK, PicturesOK, Computing, Judging
  <2>6. SameClaim(s, writing[w]) /\ writing[w].pc \in Computing /\ s.pc \notin {"check", "succeed"}
    BY <1>1, <2>2 DEF SameClaim, Computing
  <2> QED
    BY <2>3, <2>5, <2>6, GoesOn DEF Structure
<1>3. CASE state.todo # <<>>
  <2>1. PICK answered \in SUBSET TextPieces(state.of) :
            Continues(w, [state EXCEPT !.todo = Remaining(@),
                 !.source = [i \in DOMAIN @ |-> IF i \in Accepted(state.of, answered, batch) THEN "llm" ELSE @[i]]])
    BY <1>3 DEF Structure
  <2> DEFINE sources == [i \in DOMAIN state.source |->
                 IF i \in Accepted(state.of, answered, batch) THEN "llm" ELSE state.source[i]]
             s == [state EXCEPT !.todo = Remaining(state.todo), !.source = sources]
  <2>2. /\ DOMAIN sources = TextPieces(state.of)
        /\ \A i \in TextPieces(state.of) : sources[i] = "explicit" <=> i \in Explicit(state.of)
    BY <1>1 DEF WriterOK, Accepted
  <2>3. Continues(w, s)
    BY <1>1, <2>1 DEF WriterOK, IsWork
  <2> HIDE DEF sources
  <2>4. /\ IsWork(s) /\ s.pc = "structure" /\ s.of = state.of /\ s.pictures = state.pictures
        /\ s.source = sources /\ s.vectors = state.vectors /\ s.model = state.model
        /\ s.by = state.by /\ s.budget = state.budget /\ s.attempt = state.attempt
    <3>1. /\ s = [state EXCEPT !.todo = Remaining(state.todo), !.source = sources]
          /\ IsWork(state) /\ state.pc = "structure"
      BY <1>1 DEF WriterOK
    <3> HIDE DEF s, state
    <3>2. s = [pc |-> state.pc, by |-> state.by, of |-> state.of,
             budget |-> state.budget, attempt |-> state.attempt, pictures |-> state.pictures,
               source |-> sources, todo |-> Remaining(state.todo), model |-> state.model,
               vectors |-> state.vectors]
      BY <3>1, WithSource
    <3> QED
      BY <3>1, <3>2, WrittenOut
  <2> HIDE DEF s
  <2>5. KeysOf(s) = KeysOf(state)
    BY <2>4 DEF KeysOf, Described
  <2>6. WriterOK(s)
    BY <1>1, <2>2, <2>4, <2>5 DEF WriterOK, PicturesOK, Computing, Judging
  <2>7. SameClaim(s, writing[w]) /\ writing[w].pc \in Computing /\ s.pc \notin {"check", "succeed"}
    BY <1>1, <2>4 DEF SameClaim, Computing
  <2> QED
    BY <2>3, <2>6, <2>7, GoesOn DEF Structure
<1> QED
  BY <1>2, <1>3

LEMMA EmbedKeeps ==
    ASSUME UnitsInv, NEW w \in Writers, Embed(w)
    PROVE  UnitsInv'
<1> DEFINE state == writing[w]
<1>1. state.pc = "vectors" /\ WriterOK(state) /\ state.todo \in Seq(KeysOf(state))
  BY DEF Embed, UnitsInv, WritersOK, WriterOK
<1>2. CASE state.todo = <<>>
  <2> DEFINE s == [state EXCEPT !.pc = "replace"]
  <2>1. /\ IsWork(s) /\ s.pc = "replace" /\ s.of = state.of /\ s.pictures = state.pictures
        /\ s.source = state.source /\ s.vectors = state.vectors /\ s.model = state.model
        /\ s.by = state.by /\ s.budget = state.budget /\ s.attempt = state.attempt
    BY <1>1 DEF WriterOK, IsWork
  <2>2. Continues(w, s)
    BY <1>2 DEF Embed
  <2> HIDE DEF s
  <2>3. KeysOf(s) = KeysOf(state)
    BY <2>1 DEF KeysOf, Described
  <2>4. WriterOK(s)
    BY <1>1, <2>1, <2>3 DEF WriterOK, PicturesOK, Computing, Judging
  <2>5. SameClaim(s, writing[w]) /\ writing[w].pc \in Computing /\ s.pc \notin {"check", "succeed"}
    BY <1>1, <2>1 DEF SameClaim, Computing
  <2> QED
    BY <2>2, <2>4, <2>5, GoesOn DEF Embed
<1>3. CASE state.todo # <<>>
  <2>1. PICK model \in Models \cup {NoModel}, whole \in BOOLEAN :
            LET bound == model # NoModel /\ state.model \in {NoModel, model} IN
            Continues(w, [state EXCEPT !.todo = Remaining(@), !.model = IF bound THEN model ELSE @,
                 !.vectors = IF bound /\ whole THEN @ \cup Listed(Taken(state.todo)) ELSE @])
    BY <1>3 DEF Embed
  <2> DEFINE bound == model # NoModel /\ state.model \in {NoModel, model}
             binds == IF bound THEN model ELSE state.model
             found == IF bound /\ whole THEN state.vectors \cup Listed(Taken(state.todo)) ELSE state.vectors
             s == [state EXCEPT !.todo = Remaining(state.todo), !.model = binds, !.vectors = found]
  <2>2. Continues(w, s)
    BY <1>1, <2>1 DEF WriterOK, IsWork
  <2>3. Listed(Taken(state.todo)) \subseteq KeysOf(state) /\ Remaining(state.todo) \in Seq(KeysOf(state))
    BY <1>1, BatchesOfList
  <2>4. found \subseteq KeysOf(state) /\ (found # {} => binds # NoModel)
    BY <1>1, <2>3 DEF WriterOK
  <2> HIDE DEF found, binds, bound
  <2>5. /\ IsWork(s) /\ s.pc = "vectors" /\ s.of = state.of /\ s.pictures = state.pictures
        /\ s.source = state.source /\ s.vectors = found /\ s.model = binds
        /\ s.by = state.by /\ s.budget = state.budget /\ s.attempt = state.attempt /\ s.todo = Remaining(state.todo)
    <3>1. /\ s = [state EXCEPT !.todo = Remaining(state.todo), !.model = binds, !.vectors = found]
          /\ IsWork(state) /\ state.pc = "vectors"
      BY <1>1 DEF WriterOK
    <3> DEFINE rest == Remaining(state.todo)
    <3>2. s = [state EXCEPT !.todo = rest, !.model = binds, !.vectors = found]
      BY <3>1
    <3> HIDE DEF s, state, rest
    <3>3. s = [pc |-> state.pc, by |-> state.by, of |-> state.of,
             budget |-> state.budget, attempt |-> state.attempt, pictures |-> state.pictures,
               source |-> state.source, todo |-> rest, model |-> binds, vectors |-> found]
      BY <3>1, <3>2 DEF IsWork
    <3>4. /\ IsWork(s) /\ s.pc = state.pc /\ s.of = state.of /\ s.pictures = state.pictures
          /\ s.source = state.source /\ s.vectors = found /\ s.model = binds
          /\ s.by = state.by /\ s.budget = state.budget /\ s.attempt = state.attempt /\ s.todo = rest
      BY <3>3, WrittenOut
    <3> QED
      BY <3>1, <3>4 DEF rest
  <2> HIDE DEF s
  <2>6. KeysOf(s) = KeysOf(state)
    BY <2>5 DEF KeysOf, Described
  <2>7. WriterOK(s)
    BY <1>1, <2>3, <2>4, <2>5, <2>6 DEF WriterOK, PicturesOK, Computing, Judging
  <2>8. SameClaim(s, writing[w]) /\ writing[w].pc \in Computing /\ s.pc \notin {"check", "succeed"}
    BY <1>1, <2>5 DEF SameClaim, Computing
  <2> QED
    BY <2>2, <2>7, <2>8, GoesOn DEF Embed
<1> QED
  BY <1>2, <1>3

LEMMA Staged ==
    ASSUME NEW x, NEW pc, NEW s, s = Stage(x, pc)
    PROVE  /\ IsWork(s) /\ s.pc = pc /\ s.by = x.by /\ s.of = x.of /\ s.budget = x.budget
           /\ s.attempt = x.attempt
<1> DEFINE model == IF pc = "check" THEN x.model ELSE NoModel
<1>1. s = [pc |-> pc, by |-> x.by, of |-> x.of, budget |-> x.budget, attempt |-> x.attempt,
           pictures |-> <<>>, source |-> <<>>, todo |-> <<>>, model |-> model, vectors |-> {}]
  BY DEF Stage, NotAtWork
<1> QED
  BY <1>1 DEF IsWork

LEMMA AttemptFailsKeeps ==
    ASSUME UnitsInv, NEW w \in Writers, AttemptFails(w)
    PROVE  UnitsInv'
<1> DEFINE x == writing[w]
           s == Stage(x, "retry")
<1>1. WriterOK(x) /\ x.by = "job" /\ x.pc # "idle" /\ Continues(w, s)
  BY DEF AttemptFails, UnitsInv, WritersOK
<1> HIDE DEF s
<1>2. /\ IsWork(s) /\ s.pc = "retry" /\ s.by = x.by /\ s.of = x.of /\ s.budget = x.budget
      /\ s.attempt = x.attempt
  BY Staged DEF s
<1>3. WriterOK(s)
  BY <1>1, <1>2 DEF WriterOK, Computing, Judging
<1>4. SameClaim(s, writing[w]) /\ s.pc \notin Computing
  BY <1>2 DEF SameClaim, Computing
<1> QED
  BY <1>1, <1>2, <1>3, <1>4, GoesOn DEF AttemptFails

LEMMA CheckKeeps ==
    ASSUME UnitsInv, NEW w \in Writers, Check(w)
    PROVE  UnitsInv'
<1> DEFINE x == writing[w]
           verdict == IF Complete(persisted, x.model) THEN "succeed" ELSE "retry"
           s == Stage(x, verdict)
<1>1. WriterOK(x) /\ x.pc = "check" /\ Continues(w, s)
  BY DEF Check, UnitsInv, WritersOK
<1>2. verdict \in {"succeed", "retry"} /\ (verdict = "succeed" => Complete(persisted, NoModel))
  BY DEF Complete
<1> HIDE DEF verdict
<1> HIDE DEF s
<1>3. /\ IsWork(s) /\ s.pc = verdict /\ s.by = x.by /\ s.of = x.of /\ s.budget = x.budget
      /\ s.attempt = x.attempt
  BY Staged DEF s
<1>4. WriterOK(s)
  BY <1>1, <1>2, <1>3 DEF WriterOK, Computing, Judging
<1>5. SameClaim(s, writing[w]) /\ s.pc \notin Computing /\ s.pc # "check"
  BY <1>2, <1>3 DEF SameClaim, Computing
<1> QED
  BY <1>1, <1>2, <1>3, <1>4, <1>5, GoesOn DEF Check

\* The transaction makes its claim the author of what is persisted.
LEMMA ReplaceKeeps ==
    ASSUME UnitsInv, NEW w \in Writers, Replace(w)
    PROVE  UnitsInv'
<1> DEFINE state == writing[w]
           s == CASE state.by = "job" -> Stage(state, "check")
                  [] state.by = "backfill" -> Stage(state, "record")
                  [] OTHER -> NotAtWork
<1>1. state.pc = "replace" /\ WriterOK(state) /\ GivenOut(state)
  BY DEF Replace, UnitsInv, WritersOK
<1>2. writing' = [v \in Writers |-> IF v = w THEN s ELSE writing[v]]
  BY DEF Replace, Continues, UnitsInv, WritersOK
<1>3. /\ WriterOK(s) /\ s.pc \in {"check", "record", "idle"} /\ s.budget \in {0, state.budget}
      /\ s.budget > 0 => s.attempt = state.attempt
      /\ s.pc = "check" => s.of = state.of
      /\ s.pc # "check" => s.budget = 0
  <2>1. CASE state.by = "job"
    <3>1. s = Stage(state, "check")
      BY <2>1
    <3> HIDE DEF s
    <3>2. /\ IsWork(s) /\ s.pc = "check" /\ s.by = "job" /\ s.of = state.of /\ s.budget = state.budget
          /\ s.attempt = state.attempt
      BY <2>1, <3>1, Staged
    <3> QED
      BY <1>1, <2>1, <3>2 DEF WriterOK, Computing, Judging
  <2>2. CASE state.by = "backfill"
    <3>1. s = Stage(state, "record")
      BY <2>2
    <3> HIDE DEF s
    <3>2. /\ IsWork(s) /\ s.pc = "record" /\ s.by = "backfill" /\ s.of = state.of
          /\ s.budget = state.budget /\ s.attempt = state.attempt
      BY <2>2, <3>1, Staged
    <3>3. state.budget = 0
      BY <1>1, <2>2 DEF WriterOK
    <3> QED
      BY <1>1, <3>2, <3>3 DEF WriterOK, Computing, Judging
  <2>3. CASE state.by # "job" /\ state.by # "backfill"
    <3>1. s = NotAtWork
      BY <2>3
    <3> QED
      BY <3>1, NobodyAtWork
  <2> HIDE DEF s
  <2> QED
    BY <2>1, <2>2, <2>3
<1> HIDE DEF s
<1>4. /\ persisted'.of = state.of /\ persisted'.pictures = state.pictures
      /\ persisted'.source = state.source /\ persisted'.model = state.model
      /\ persisted'.vectors = state.vectors
      /\ author'.budget = state.budget /\ author'.attempt = state.attempt
      /\ UNCHANGED <<draft, ledger, glance, judge>>
  BY DEF Replace
<1>5. state.of \in Drafts /\ state.budget \in Nat /\ state.attempt \in Nat /\ ledger.budget \in Nat \ {0}
  BY <1>1 DEF WriterOK, UnitsInv, UnitsTypes, LedgerRows
<1>6. UnitsTypes'
  BY <1>1, <1>4, <1>5 DEF UnitsInv, UnitsTypes, GivenOut
<1>7. \A v \in Writers : writing'[v] = IF v = w THEN s ELSE writing[v]
  BY <1>2
<1>8. WritersOK'
  <2>1. writing' = [v \in Writers |-> writing'[v]]
    BY <1>2
  <2>2. ASSUME NEW v \in Writers PROVE WriterOK(writing'[v]) /\ (GivenOut(writing[v]))'
    <3>1. CASE v = w
      BY <1>1, <1>3, <1>4, <1>5, <1>7, <3>1 DEF GivenOut
    <3>2. CASE v # w
      BY <1>4, <1>7, <3>2 DEF UnitsInv, WritersOK, GivenOut
    <3> QED
      BY <3>1, <3>2
  <2> QED
    BY <2>1, <2>2 DEF WritersOK, WriterOK, IsWork
<1>9. ClaimsInOrder'
  <2>1. \A v \in Writers : writing[v].budget \in Nat /\ writing[v].attempt \in Nat
    BY DEF UnitsInv, WritersOK, WriterOK
  <2>2. ASSUME NEW v \in Writers, v # w
        PROVE  (writing[v].budget > 0 \/ state.budget > 0) => ~SameClaim(state, writing[v])
    BY <2>1, <2>2 DEF UnitsInv, ClaimsInOrder, SameClaim
  <2>3. \A u, v \in Writers : u # v /\ writing'[u].budget > 0 => ~SameClaim(writing'[u], writing'[v])
    <3> SUFFICES ASSUME NEW u \in Writers, NEW v \in Writers, u # v, writing'[u].budget > 0
                 PROVE  ~SameClaim(writing'[u], writing'[v])
      OBVIOUS
    <3>1. CASE u = w
      BY <1>3, <1>5, <1>7, <2>2, <3>1 DEF SameClaim
    <3>2. CASE v = w
      BY <1>3, <1>5, <1>7, <2>2, <3>2 DEF SameClaim
    <3>3. CASE u # w /\ v # w
      BY <1>7, <3>3 DEF UnitsInv, ClaimsInOrder
    <3> QED
      BY <3>1, <3>2, <3>3
  <2>4. \A v \in Writers : writing'[v].budget > 0 /\ writing'[v].pc \in Computing => ~SameClaim(author', writing'[v])
    <3> SUFFICES ASSUME NEW v \in Writers, writing'[v].budget > 0, writing'[v].pc \in Computing
                 PROVE  ~SameClaim(author', writing'[v])
      OBVIOUS
    <3>1. v # w
      BY <1>3, <1>7 DEF Computing
    <3> QED
      BY <1>4, <1>7, <2>2, <3>1 DEF SameClaim
  <2>5. \A v \in Writers : writing'[v].pc \in {"check", "succeed"} /\ SameClaim(author', writing'[v]) =>
           v = w
    <3> SUFFICES ASSUME NEW v \in Writers, v # w, writing'[v].pc \in {"check", "succeed"},
                        SameClaim(author', writing'[v])
                 PROVE  FALSE
      OBVIOUS
    <3>1. writing[v].budget > 0
      BY <1>7, <2>1 DEF UnitsInv, WritersOK, WriterOK, Judging
    <3> QED
      BY <1>4, <1>7, <2>2, <3>1 DEF SameClaim
  <2>6. \A v \in Writers : writing'[v].pc \in {"check", "succeed"} /\ SameClaim(author', writing'[v]) =>
           persisted'.of = writing'[v].of /\ writing'[v].pc # "succeed"
    BY <1>3, <1>4, <1>7, <2>5
  <2>7. ledger.status = "succeeded" /\ judge.budget = ledger.budget =>
           \A v \in Writers : ~SameClaim(writing'[v], Holder)
    <3> SUFFICES ASSUME ledger.status = "succeeded", judge.budget = ledger.budget, NEW v \in Writers
                 PROVE  ~SameClaim(writing'[v], Holder)
      OBVIOUS
    <3>1. ~SameClaim(writing[v], Holder)
      BY DEF UnitsInv, ClaimsInOrder
    <3> QED
      BY <1>3, <1>5, <1>7, <3>1 DEF SameClaim, Holder
  <2>8. Holder' = Holder /\ (ledger.status = "absent" => judge.budget = 0)
    BY <1>4 DEF Holder, UnitsInv, ClaimsInOrder
  <2> QED
    BY <1>4, <2>3, <2>4, <2>6, <2>7, <2>8 DEF ClaimsInOrder, SameClaim
<1>10. SucceededIsStored'
  <2> SUFFICES ASSUME ledger.status = "succeeded", judge.budget = ledger.budget, author' = Holder
               PROVE  FALSE
    BY <1>4 DEF SucceededIsStored, Holder
  <2>1. SameClaim(state, Holder)
    BY <1>4 DEF SameClaim
  <2> QED
    BY <2>1 DEF UnitsInv, ClaimsInOrder
<1>11. EvidenceHangsTogether'
  <2>1. \A key \in state.vectors : Described(state, key)
    BY <1>1 DEF WriterOK, KeysOf
  <2>2. \A key \in persisted'.vectors : Described(persisted', key)
    BY <1>4, <2>1 DEF Described
  <2>3. /\ \A i \in DOMAIN persisted'.source : persisted'.source[i] = "explicit" <=> i \in Explicit(persisted'.of)
        /\ persisted'.vectors # {} => persisted'.model # NoModel
    BY <1>1, <1>4 DEF WriterOK
  <2> QED
    BY <2>2, <2>3 DEF EvidenceHangsTogether, Described
<1> QED
  BY <1>6, <1>8, <1>9, <1>10, <1>11 DEF UnitsInv

\* An attempt or a script ends, whether it may settle the row or not.
LEMMA EndsKeep ==
    ASSUME UnitsInv, NEW w \in Writers, Stops(w) \/ FinishSucceeded(w) \/ FinishFailed(w) \/ Record(w)
    PROVE  UnitsInv'
<1> DEFINE state == writing[w]
<1>1. Continues(w, NotAtWork) /\ UNCHANGED <<draft, persisted, glance, author>>
  BY DEF Stops, FinishSucceeded, FinishFailed, Record
<1>2. /\ judge.budget \in Nat /\ judge.budget <= ledger.budget /\ ledger \in LedgerRows
      /\ ledger.status = "absent" => judge.budget = 0
  BY DEF UnitsInv, UnitsTypes, ClaimsInOrder
<1>3. ledger.budget \in Nat \ {0} /\ WriterOK(state) /\ GivenOut(state)
  BY <1>2 DEF UnitsInv, WritersOK, LedgerRows
<1>4. CASE UNCHANGED <<ledger, judge>>
  BY <1>1, <1>2, <1>4, Settles
<1>5. CASE FinishSucceeded(w) /\ HasPresentNumber(w)
  <2>1. /\ ledger' \in LedgerRows /\ ledger'.status = "succeeded"
        /\ ledger'.budget = ledger.budget /\ ledger'.attempts = ledger.attempts
    <3>1. ledger' = [ledger EXCEPT !.status = "succeeded"] /\ "succeeded" \in LedgerStatuses
      BY <1>5 DEF FinishSucceeded, LedgerStatuses
    <3> QED
      BY <3>1, OtherStatus
  <2>2. judge'.budget = state.budget /\ judge'.of = state.of /\ state.pc = "succeed"
    BY <1>5 DEF FinishSucceeded
  <2>3. judge'.budget = ledger.budget => SameClaim(state, Holder)
    BY <1>5, <2>2 DEF HasPresentNumber, SameClaim, Holder
  <2>4. judge'.budget \in Nat /\ judge'.budget <= ledger.budget
    BY <1>3, <2>2 DEF WriterOK, GivenOut
  <2> QED
    BY <1>1, <2>1, <2>2, <2>3, <2>4, Settles
<1>6. CASE FinishFailed(w) /\ ~UNCHANGED ledger
  <2> DEFINE status == IF state.attempt >= MaxAttempts THEN "failed" ELSE "queued"
  <2>1. ledger' = [ledger EXCEPT !.status = status] /\ UNCHANGED judge
    BY <1>6 DEF FinishFailed
  <2>2. status \in LedgerStatuses /\ status \notin {"absent", "succeeded"}
    BY DEF LedgerStatuses, Active
  <2> HIDE DEF status
  <2>3. /\ ledger' \in LedgerRows /\ ledger'.status = status
        /\ ledger'.budget = ledger.budget /\ ledger'.attempts = ledger.attempts
    BY <2>1, <2>2, OtherStatus
  <2> QED
    BY <1>1, <1>2, <2>1, <2>2, <2>3, Settles
<1>7. CASE Record(w) /\ ledger.status \notin Active
  <2>1. /\ ledger' = [ledger EXCEPT !.status = "succeeded", !.digest = state.of]
        /\ judge'.budget = 0 /\ state.pc = "record"
    BY <1>7 DEF Record, NoJudge
  <2>2. state.of \in Drafts
    BY <1>3, <2>1 DEF WriterOK
  <2>3. "succeeded" \in LedgerStatuses
    BY DEF LedgerStatuses
  <2>4. /\ ledger' \in LedgerRows /\ ledger'.status = "succeeded"
        /\ ledger'.budget = ledger.budget /\ ledger'.attempts = ledger.attempts
    BY <2>1, <2>2, <2>3, OtherBody
  <2> QED
    BY <1>1, <1>3, <2>1, <2>4, Settles
<1> QED
  BY <1>4, <1>5, <1>6, <1>7 DEF Stops, FinishSucceeded, FinishFailed, Record

LEMMA UnitsInvStep == UnitsInv /\ [UnitsNext]_unitVars => UnitsInv'
<1> SUFFICES ASSUME UnitsInv, [UnitsNext]_unitVars PROVE UnitsInv'
  OBVIOUS
<1>1. CASE UNCHANGED unitVars
  <2>1. ledger' \in LedgerRows /\ glance'.of \in Drafts \cup {NoDraft}
    BY <1>1 DEF unitVars, UnitsInv, UnitsTypes
  <2> QED
    BY <1>1, <2>1, LedgerMoves DEF unitVars
<1>2. CASE Look \/ Ensure \/ RequeueFailed \/ RefuseExhausted
  BY <1>2, LooksKeep, RefuseExhaustedKeeps
<1>3. ASSUME NEW w \in Writers, Write(w) PROVE UnitsInv'
  BY <1>3, TakeLeaseKeeps, ScriptsKeep, DescribeKeeps, StructureKeeps, EmbedKeeps, ReplaceKeeps,
     AttemptFailsKeeps, CheckKeeps, EndsKeep DEF Write
<1> QED
  BY <1>1, <1>2, <1>3 DEF UnitsNext

\* A success that a claim of the present budget declared, of units that no other claim and no
\* script has replaced, was declared of these units, of the body they are of and whole; and what
\* is persisted never mixes declared with adjudicated indentation, panels that nobody described
\* with vectors, or vectors of no model: for every body, batch size, number of consumers and
\* scripts, and number of claims and resets (ContentUnits!Replace, Check, FinishSucceeded,
\* TakeLease, Ensure).
THEOREM UnitsWhole == UnitsSpec => []UnitsAreWhole
<1>1. UnitsInv => UnitsAreWhole
  BY DEF UnitsInv, UnitsAreWhole
<1> QED
  BY <1>1, UnitsInvInit, UnitsInvStep, PTL DEF UnitsSpec

\* The row keeps its type, and no consumer is ahead of it: attempts compare within one budget,
\* since a reset lets them count from 0 again under consumers that are still at work.
THEOREM UnitsTyped == UnitsSpec => []UnitsTypeOK
<1>1. UnitsInv => UnitsTypeOK
  BY DEF UnitsInv, UnitsTypes, WritersOK, UnitsTypeOK, LedgerRows, GivenOut
<1> QED
  BY <1>1, UnitsInvInit, UnitsInvStep, PTL DEF UnitsSpec
=============================================================================
