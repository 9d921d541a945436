--------------------------- MODULE LineScan_proofs ---------------------------
(***************************************************************************)
(* The proofs about the scan of a text file, for any keywords and files of *)
(* any length.  The inductive invariant says, of every point of the loop,  *)
(*   TypeInv    what the variables hold                                    *)
(*   PlaceInv   where in the file the loop is: line is one ahead of the    *)
(*              pieces read, and two after the fgets that read nothing     *)
(*   FoundInv   which pieces were reported, in which order                 *)
(*   CheckInv   when filecheck was set                                     *)
(***************************************************************************)
EXTENDS LineScan, FiniteSetTheorems, SequenceTheorems, TLAPS

TypeInv ==
  /\ file \in File
  /\ pos \in 0 .. Len(file)
  /\ eof \in BOOLEAN
  /\ str \in SUBSET Keyword
  /\ line \in Nat
  /\ found \in Seq(Nat)
  /\ filecheck \in BOOLEAN

(* The last fgets returned NULL.                                           *)
ReadPastEnd == eof /\ (pos = 0 \/ file[pos].end # "eof")

PlaceInv ==
  /\ line = pos + (IF ReadPastEnd THEN 2 ELSE 1)
  /\ eof => pos = Len(file)
  /\ ~eof /\ pos > 0 => file[pos].end # "eof"
  /\ pos > 0 => str = file[pos].words

(* The pieces that hold all the keywords, among the first k.               *)
Hits(k) == {n \in 1 .. k : Keyword \subseteq file[n].words}

FoundInv ==
  /\ ToSet(found)
       = Hits(pos) \cup (IF ReadPastEnd /\ Keyword \subseteq str THEN {pos + 1} ELSE {})
  /\ \A j, k \in 1 .. Len(found) : j < k => found[j] < found[k]

CheckInv ==
  file # <<>> => (filecheck <=> \E k \in 1 .. pos : file[k].words # {})

IInv == TypeInv /\ PlaceInv /\ FoundInv /\ CheckInv

-----------------------------------------------------------------------------
LEMMA FileIs ==
  ASSUME NEW f \in File
  PROVE  /\ f \in Seq(Piece) /\ Len(f) \in Nat
         /\ \A k \in 1 .. Len(f) :
              /\ f[k] \in Piece /\ f[k].words \subseteq Keyword
              /\ f[k].end \in {"newline", "full", "eof"}
              /\ f[k].end = "eof" => k = Len(f)
<1>1. PICK m \in 0 .. MaxPieces : f \in [1 .. m -> Piece]
  BY DEF File, SeqOf
<1>2. m \in Nat
  BY <1>1, LineScanAssumption
<1>3. f \in Seq(Piece)
  BY <1>1, <1>2, SeqDef
<1>4. /\ Len(f) \in Nat
      /\ \A k \in 1 .. Len(f) : f[k] \in Piece
  BY <1>3, LenProperties, ElementOfSeq
<1>5. \A k \in 1 .. Len(f) : f[k].end = "eof" => k = Len(f)
  BY DEF File
<1> QED
  BY <1>3, <1>4, <1>5 DEF Piece

(* The members of a sequence of numbers.                                   *)
LEMMA ToSetIs ==
  ASSUME NEW S, NEW s \in Seq(S)
  PROVE  ToSet(s) = {s[k] : k \in 1 .. Len(s)}
BY LenProperties DEF ToSet

LEMMA ToSetAppend ==
  ASSUME NEW s \in Seq(Nat), NEW x \in Nat
  PROVE  /\ Append(s, x) \in Seq(Nat)
         /\ ToSet(Append(s, x)) = ToSet(s) \cup {x}
<1>1. /\ Append(s, x) \in Seq(Nat)
      /\ Len(Append(s, x)) = Len(s) + 1 /\ Len(s) \in Nat
      /\ \A k \in 1 .. Len(s) : Append(s, x)[k] = s[k]
      /\ Append(s, x)[Len(s) + 1] = x
  BY AppendProperties, LenProperties
<1>2. \A k \in 1 .. Len(s) + 1 : k \in 1 .. Len(s) \/ k = Len(s) + 1
  BY <1>1
<1>3. 1 .. Len(s) \subseteq 1 .. Len(s) + 1 /\ Len(s) + 1 \in 1 .. Len(s) + 1
  BY <1>1
<1> HIDE DEF ToSet
<1>4. /\ ToSet(s) = {s[k] : k \in 1 .. Len(s)}
      /\ ToSet(Append(s, x)) = {Append(s, x)[k] : k \in 1 .. Len(s) + 1}
  BY <1>1, ToSetIs
<1>5. ToSet(Append(s, x)) \subseteq ToSet(s) \cup {x}
  BY <1>1, <1>2, <1>4
<1>6. ToSet(s) \subseteq ToSet(Append(s, x))
  BY <1>1, <1>3, <1>4
<1>7. x \in ToSet(Append(s, x))
  BY <1>1, <1>3, <1>4
<1> QED
  BY <1>1, <1>5, <1>6, <1>7

Strictly(s) == \A j, k \in 1 .. Len(s) : j < k => s[j] < s[k]

LEMMA StrictlyAppend ==
  ASSUME NEW s \in Seq(Nat), NEW x \in Nat, Strictly(s), \A y \in ToSet(s) : y < x
  PROVE  Strictly(Append(s, x))
<1>1. /\ Len(Append(s, x)) = Len(s) + 1 /\ Len(s) \in Nat
      /\ \A k \in 1 .. Len(s) : Append(s, x)[k] = s[k]
      /\ Append(s, x)[Len(s) + 1] = x
  BY AppendProperties, LenProperties
<1>2. \A k \in 1 .. Len(s) : s[k] < x
  BY ToSetIs
<1> SUFFICES ASSUME NEW j \in 1 .. Len(s) + 1, NEW k \in 1 .. Len(s) + 1, j < k
             PROVE  Append(s, x)[j] < Append(s, x)[k]
  BY <1>1 DEF Strictly
<1>3. j \in 1 .. Len(s)
  BY <1>1
<1>4. CASE k = Len(s) + 1
  BY <1>1, <1>2, <1>3, <1>4
<1>5. CASE k \in 1 .. Len(s)
  BY <1>1, <1>3, <1>5 DEF Strictly
<1> QED
  BY <1>1, <1>4, <1>5

-----------------------------------------------------------------------------
(* A file that has just been opened.                                       *)
Fresh ==
  /\ file \in File /\ str \in SUBSET Keyword
  /\ pos = 0 /\ eof = FALSE /\ line = 1 /\ found = <<>> /\ filecheck = FALSE

LEMMA FreshInv == Fresh => IInv
<1> SUFFICES ASSUME Fresh
             PROVE  IInv
  OBVIOUS
<1> USE DEF Fresh
<1>1. Len(file) \in Nat
  BY FileIs
<1>2. TypeInv
  <2>1. found \in Seq(Nat)
    BY EmptySeq
  <2>2. pos \in 0 .. Len(file)
    BY <1>1
  <2> QED
    BY <2>1, <2>2 DEF TypeInv
<1>3. PlaceInv
  BY DEF PlaceInv, ReadPastEnd
<1>4. FoundInv
  BY DEF FoundInv, Hits, ToSet, ReadPastEnd
<1>5. CheckInv
  BY DEF CheckInv
<1> QED
  BY <1>2, <1>3, <1>4, <1>5 DEF IInv

(* What a round of the loop reports, given what it has read.               *)
LEMMA RoundReports ==
  ASSUME IInv, TestAndCount
  PROVE  /\ file' = file /\ line' = line + 1 /\ line' \in Nat
         /\ found' \in Seq(Nat)
         /\ ToSet(found') = ToSet(found) \cup (IF Keyword \subseteq str' THEN {line} ELSE {})
         /\ (\A y \in ToSet(found) : y < line) => Strictly(found')
<1>1. found \in Seq(Nat) /\ line \in Nat /\ Strictly(found)
  BY DEF IInv, TypeInv, FoundInv, Strictly
<1>2. CASE Keyword \subseteq str'
  <2>1. found' = Append(found, line)
    BY <1>2 DEF TestAndCount
  <2> QED
    BY <1>1, <1>2, <2>1, ToSetAppend, StrictlyAppend DEF TestAndCount
<1>3. CASE ~(Keyword \subseteq str')
  <2>1. found' = found
    BY <1>3 DEF TestAndCount
  <2>2. Strictly(found')
    BY <1>1, <2>1
  <2> QED
    BY <1>1, <1>3, <2>1, <2>2 DEF TestAndCount
<1> QED
  BY <1>2, <1>3

LEMMA ReadPieceKeeps ==
  ASSUME IInv, ReadPiece
  PROVE  IInv'
<1>1. /\ pos \in Nat /\ Len(file) \in Nat /\ pos' = pos + 1 /\ pos' \in 1 .. Len(file)
      /\ file \in File /\ file' = file
  BY FileIs DEF IInv, TypeInv, ReadPiece, TestAndCount
<1>2. /\ file[pos'] \in Piece /\ file[pos'].words \subseteq Keyword
      /\ file[pos'].end = "eof" => pos' = Len(file)
  BY <1>1, FileIs
<1>3. /\ str' = file[pos'].words /\ ~eof
      /\ eof' \in BOOLEAN /\ (eof' <=> file[pos'].end = "eof")
  BY DEF ReadPiece
<1>4. /\ line = pos + 1 /\ ~ReadPastEnd /\ ~ReadPastEnd'
  <2>1. ~ReadPastEnd /\ ~ReadPastEnd'
    BY <1>1, <1>3 DEF ReadPastEnd
  <2> QED
    BY <2>1 DEF IInv, PlaceInv
<1>5. /\ line' = line + 1 /\ line' \in Nat /\ found' \in Seq(Nat)
      /\ ToSet(found') = ToSet(found) \cup (IF Keyword \subseteq str' THEN {line} ELSE {})
      /\ (\A y \in ToSet(found) : y < line) => Strictly(found')
  BY RoundReports DEF ReadPiece
<1>6. ToSet(found) = Hits(pos)
  BY <1>4 DEF IInv, FoundInv
<1>7. Strictly(found')
  BY <1>1, <1>4, <1>5, <1>6 DEF Hits
<1>8. filecheck' = (filecheck \/ Keyword \cap str' # {})
  BY DEF ReadPiece, TestAndCount
<1>9. TypeInv'
  BY <1>1, <1>2, <1>3, <1>5, <1>8 DEF TypeInv, IInv
<1>10. PlaceInv'
  BY <1>1, <1>2, <1>3, <1>4, <1>5 DEF PlaceInv
<1>11. FoundInv'
  <2>1. Hits(pos)' = Hits(pos) \cup (IF Keyword \subseteq str' THEN {line} ELSE {})
    BY <1>1, <1>3, <1>4 DEF Hits
  <2> QED
    BY <2>1, <1>4, <1>5, <1>6, <1>7 DEF FoundInv, Strictly
<1>12. CheckInv'
  <2>1. file # <<>>
    BY <1>1
  <2>2. filecheck <=> \E k \in 1 .. pos : file[k].words # {}
    BY <2>1 DEF IInv, CheckInv
  <2>3. Keyword \cap str' # {} <=> file[pos'].words # {}
    BY <1>2, <1>3
  <2>4. (\E k \in 1 .. pos' : file[k].words # {})
          <=> (\E k \in 1 .. pos : file[k].words # {}) \/ file[pos'].words # {}
    <3>1. \A k \in 1 .. pos' : k \in 1 .. pos \/ k = pos'
      BY <1>1
    <3>2. 1 .. pos \subseteq 1 .. pos' /\ pos' \in 1 .. pos'
      BY <1>1
    <3> QED
      BY <3>1, <3>2
  <2> QED
    BY <1>1, <1>8, <2>2, <2>3, <2>4 DEF CheckInv
<1> QED
  BY <1>9, <1>10, <1>11, <1>12 DEF IInv

LEMMA ReadNothingKeeps ==
  ASSUME IInv, ReadNothing
  PROVE  IInv'
<1>1. /\ pos \in Nat /\ Len(file) \in Nat /\ pos' = pos /\ pos = Len(file)
      /\ file \in File /\ file' = file /\ str' = str /\ str \subseteq Keyword
      /\ ~eof /\ eof' = TRUE
  BY FileIs DEF IInv, TypeInv, ReadNothing, TestAndCount
<1>2. /\ line = pos + 1 /\ ~ReadPastEnd /\ ReadPastEnd'
  BY <1>1 DEF IInv, PlaceInv, ReadPastEnd
<1>3. /\ line' = line + 1 /\ line' \in Nat /\ found' \in Seq(Nat)
      /\ ToSet(found') = ToSet(found) \cup (IF Keyword \subseteq str' THEN {line} ELSE {})
      /\ (\A y \in ToSet(found) : y < line) => Strictly(found')
  BY RoundReports DEF ReadNothing
<1>4. ToSet(found) = Hits(pos)
  BY <1>2 DEF IInv, FoundInv
<1>5. Strictly(found')
  BY <1>1, <1>2, <1>3, <1>4 DEF Hits
<1>6. filecheck' = (filecheck \/ Keyword \cap str # {})
  BY <1>1 DEF ReadNothing, TestAndCount
<1>7. TypeInv'
  BY <1>1, <1>3, <1>6 DEF TypeInv, IInv
<1>8. PlaceInv'
  BY <1>1, <1>2, <1>3 DEF PlaceInv, IInv
<1>9. FoundInv'
  <2>1. Hits(pos)' = Hits(pos)
    BY <1>1 DEF Hits
  <2> QED
    BY <2>1, <1>1, <1>2, <1>3, <1>4, <1>5 DEF FoundInv, Strictly
<1>10. CheckInv'
  <2> SUFFICES ASSUME file # <<>>
               PROVE  filecheck' <=> \E k \in 1 .. pos : file[k].words # {}
    BY <1>1 DEF CheckInv
  <2>1. pos \in 1 .. pos
    <3>1. file \in Seq(Piece)
      BY <1>1, FileIs
    <3> QED
      BY <3>1, <1>1, EmptySeq
  <2>2. str = file[pos].words
    BY <1>1, <2>1 DEF IInv, PlaceInv
  <2>3. filecheck <=> \E k \in 1 .. pos : file[k].words # {}
    BY DEF IInv, CheckInv
  <2> QED
    BY <1>1, <1>6, <2>1, <2>2, <2>3
<1> QED
  BY <1>7, <1>8, <1>9, <1>10 DEF IInv

(* The invariant of the loop holds in every state.                         *)
THEOREM Invariance == Spec => []IInv
<1>1. Init => IInv
  BY FreshInv DEF Init, Fresh
<1>2. IInv /\ [Next]_vars => IInv'
  <2> SUFFICES ASSUME IInv, [Next]_vars
               PROVE  IInv'
    OBVIOUS
  <2>1. CASE ReadPiece
    BY <2>1, ReadPieceKeeps
  <2>2. CASE ReadNothing
    BY <2>2, ReadNothingKeeps
  <2>3. CASE NextFile
    <3>1. Fresh'
      BY <2>3 DEF NextFile, Open, Fresh
    <3>2. (Fresh => IInv)'
      BY FreshInv, PTL
    <3> QED
      BY <3>1, <3>2
  <2>4. CASE UNCHANGED vars
    BY <2>4 DEF vars, IInv, TypeInv, PlaceInv, FoundInv, CheckInv, Hits, ReadPastEnd
  <2> QED
    BY <2>1, <2>2, <2>3, <2>4 DEF Next
<1> QED
  BY <1>1, <1>2, PTL DEF Spec

-----------------------------------------------------------------------------
(* A sequence in strict order is as long as its set is large.              *)
LEMMA StrictlyLength ==
  ASSUME NEW s \in Seq(Nat), Strictly(s)
  PROVE  IsFiniteSet(ToSet(s)) /\ Cardinality(ToSet(s)) = Len(s)
<1>1. Len(s) \in Nat /\ s \in [1 .. Len(s) -> Nat] /\ ToSet(s) = {s[k] : k \in 1 .. Len(s)}
  BY LenProperties, ToSetIs
<1>2. \A j, k \in 1 .. Len(s) : s[j] = s[k] => j = k
  <2> SUFFICES ASSUME NEW j \in 1 .. Len(s), NEW k \in 1 .. Len(s), j # k
               PROVE  s[j] # s[k]
    OBVIOUS
  <2>1. s[j] \in Nat /\ s[k] \in Nat
    BY <1>1
  <2>2. j < k \/ k < j
    BY <1>1
  <2>3. s[j] < s[k] \/ s[k] < s[j]
    BY <2>2 DEF Strictly
  <2> QED
    BY <2>1, <2>3
<1>3. s \in [1 .. Len(s) -> ToSet(s)]
  BY <1>1
<1>4. s \in Bijection(1 .. Len(s), ToSet(s))
  BY <1>1, <1>2, <1>3 DEF Bijection, Injection, Surjection, IsInjective
<1>5. IsFiniteSet(1 .. Len(s)) /\ Cardinality(1 .. Len(s)) = Len(s)
  <2>1. /\ IsFiniteSet(1 .. Len(s))
        /\ Cardinality(1 .. Len(s)) = IF 1 > Len(s) THEN 0 ELSE Len(s) - 1 + 1
    BY <1>1, FS_Interval
  <2> QED
    BY <1>1, <2>1
<1> QED
  BY <1>4, <1>5, FS_Bijection DEF ExistsBijection

(* What was reported when the file has been read.                          *)
LEMMA AtTheEnd ==
  ASSUME IInv, eof, file # <<>>
  PROVE  /\ file \in Seq(Piece) /\ Len(file) \in Nat \ {0} /\ pos = Len(file)
         /\ found \in Seq(Nat) /\ Strictly(found)
         /\ ToSet(found)
              = Hits(Len(file))
                \cup (IF file[Len(file)].end # "eof" /\ Len(file) \in Hits(Len(file))
                      THEN {Len(file) + 1} ELSE {})
<1>1. file \in Seq(Piece) /\ Len(file) \in Nat \ {0}
  BY FileIs, EmptySeq DEF IInv, TypeInv
<1>2. pos = Len(file) /\ pos > 0
  BY <1>1 DEF IInv, PlaceInv
<1>3. ReadPastEnd <=> file[Len(file)].end # "eof"
  BY <1>2 DEF ReadPastEnd
<1>4. Keyword \subseteq str <=> Len(file) \in Hits(Len(file))
  BY <1>1, <1>2 DEF IInv, PlaceInv, Hits
<1> QED
  BY <1>1, <1>2, <1>3, <1>4 DEF IInv, TypeInv, FoundInv, Strictly

LEMMA HitsFinite ==
  ASSUME NEW k \in Nat
  PROVE  IsFiniteSet(Hits(k)) /\ Hits(k) \subseteq 1 .. k
<1>1. IsFiniteSet(1 .. k)
  BY FS_Interval
<1>2. Hits(k) \subseteq 1 .. k
  BY DEF Hits
<1> QED
  BY <1>1, <1>2, FS_Subset

LEMMA NoLineMissedHolds == IInv => NoLineMissed
<1> SUFFICES ASSUME IInv, eof, file # <<>>
             PROVE  LET hits == {k \in 1 .. Len(file) : Keyword \subseteq file[k].words}
                    IN /\ hits = {n \in 1 .. Len(file) : Contains(found, n)}
                       /\ \A k \in 1 .. Len(file) :
                            (\A j \in 1 .. Len(file) :
                               LineOf(file, j) = LineOf(file, k) => j = k)
                              => (k \in hits <=> LineOf(file, k) \in Matching(file))
                       /\ Len(found) - Cardinality(hits) \in
                            IF Last(file).end = "eof" THEN {0} ELSE {0, 1}
  BY DEF NoLineMissed
<1> DEFINE n == Len(file)
           hits == {k \in 1 .. n : Keyword \subseteq file[k].words}
<1>1. /\ n \in Nat \ {0} /\ found \in Seq(Nat) /\ Strictly(found)
      /\ hits = Hits(n)
      /\ ToSet(found) = hits \cup (IF file[n].end # "eof" /\ n \in hits
                                   THEN {n + 1} ELSE {})
  BY AtTheEnd DEF Hits
<1>2. hits = {k \in 1 .. n : Contains(found, k)}
  <2>1. \A k : Contains(found, k) <=> k \in ToSet(found)
    <3>1. ToSet(found) = {found[k] : k \in 1 .. Len(found)}
      BY <1>1, ToSetIs
    <3> QED
      BY <3>1 DEF Contains
  <2>2. n + 1 \notin 1 .. n /\ hits \subseteq 1 .. n
    BY <1>1
  <2> QED
    BY <1>1, <2>1, <2>2
<1>3. ASSUME NEW k \in 1 .. n, \A j \in 1 .. n : LineOf(file, j) = LineOf(file, k) => j = k
      PROVE  k \in hits <=> LineOf(file, k) \in Matching(file)
  <2>1. {j \in 1 .. n : LineOf(file, j) = LineOf(file, k)} = {k}
    BY <1>3
  <2>2. WordsOf(file, LineOf(file, k)) = file[k].words
    BY <2>1 DEF WordsOf
  <2>3. LineOf(file, k) \in Lines(file)
    BY DEF Lines
  <2> QED
    BY <2>2, <2>3 DEF Matching
<1>4. Len(found) - Cardinality(hits) \in IF Last(file).end = "eof" THEN {0} ELSE {0, 1}
  <2>1. Len(found) = Cardinality(ToSet(found))
    BY <1>1, StrictlyLength
  <2>2. IsFiniteSet(hits) /\ Cardinality(hits) \in Nat /\ n + 1 \notin hits
    <3>1. IsFiniteSet(Hits(n)) /\ Hits(n) \subseteq 1 .. n
      BY <1>1, HitsFinite
    <3>2. n + 1 \notin 1 .. n
      BY <1>1
    <3> QED
      BY <1>1, <3>1, <3>2, FS_CardinalityType
  <2>3. Cardinality(hits \cup {n + 1}) = Cardinality(hits) + 1
    BY <2>2, FS_AddElement
  <2>4. Last(file) = file[n]
    BY DEF Last
  <2> HIDE DEF hits, n
  <2>5. CASE file[n].end # "eof" /\ n \in hits
    BY <1>1, <2>1, <2>2, <2>3, <2>4, <2>5
  <2>6. CASE ~(file[n].end # "eof" /\ n \in hits)
    <3>1. ToSet(found) = hits
      BY <1>1, <2>6
    <3> QED
      BY <2>1, <2>2, <2>4, <3>1
  <2> QED
    BY <2>5, <2>6
<1> QED
  BY <1>2, <1>3, <1>4

(* In a plain file the pieces are the lines.                               *)
LEMMA PlainLines ==
  ASSUME NEW f \in Seq(Piece), Plain(f)
  PROVE  /\ \A k \in 1 .. Len(f) : LineOf(f, k) = k
         /\ \A k \in 1 .. Len(f) : WordsOf(f, k) = f[k].words
         /\ Lines(f) = 1 .. Len(f)
         /\ Len(f) \in Nat
<1>1. Len(f) \in Nat
  BY LenProperties
<1>2. ASSUME NEW k \in 1 .. Len(f)
      PROVE  LineOf(f, k) = k
  <2>1. {j \in 1 .. k - 1 : EndsLine(f, j)} = 1 .. k - 1
    <3>1. \A j \in 1 .. k - 1 : j \in 1 .. Len(f)
      BY <1>1
    <3>2. \A j \in 1 .. k - 1 : f[j].end = "newline"
      BY <3>1 DEF Plain
    <3> QED
      BY <3>2 DEF EndsLine
  <2>2. Cardinality(1 .. k - 1) = k - 1
    <3>1. k \in Nat /\ k - 1 \in Nat /\ 1 <= k
      BY <1>1
    <3>2. Cardinality(1 .. k - 1) = IF 1 > k - 1 THEN 0 ELSE (k - 1) - 1 + 1
      BY <3>1, FS_Interval
    <3> QED
      BY <3>1, <3>2
  <2> QED
    <3>1. LineOf(f, k) = 1 + Cardinality(1 .. k - 1)
      BY <2>1 DEF LineOf
    <3> QED
      BY <1>1, <2>2, <3>1
<1>3. ASSUME NEW k \in 1 .. Len(f)
      PROVE  WordsOf(f, k) = f[k].words
  <2>1. {j \in 1 .. Len(f) : LineOf(f, j) = k} = {k}
    BY <1>2
  <2> QED
    BY <2>1 DEF WordsOf
<1>4. Lines(f) = 1 .. Len(f)
  <2>1. Lines(f) \subseteq 1 .. Len(f)
    BY <1>2 DEF Lines
  <2>2. 1 .. Len(f) \subseteq Lines(f)
    BY <1>2 DEF Lines
  <2> QED
    BY <2>1, <2>2
<1> QED
  BY <1>1, <1>2, <1>3, <1>4

LEMMA PlainReportHolds == IInv => PlainReport
<1> SUFFICES ASSUME IInv, eof, Plain(file)
             PROVE  /\ ToSet(found)
                         = Matching(file)
                           \cup {n + 1 : n \in Matching(file) \cap {Len(file)}}
                    /\ \A j, k \in 1 .. Len(found) : j < k => found[j] < found[k]
  BY DEF PlainReport
<1>1. file # <<>> /\ \A k \in 1 .. Len(file) : file[k].end = "newline"
  BY DEF Plain
<1>2. /\ file \in Seq(Piece) /\ Len(file) \in Nat \ {0} /\ Strictly(found)
      /\ ToSet(found)
           = Hits(Len(file))
             \cup (IF file[Len(file)].end # "eof" /\ Len(file) \in Hits(Len(file))
                   THEN {Len(file) + 1} ELSE {})
  BY <1>1, AtTheEnd
<1>3. Matching(file) = Hits(Len(file))
  <2>1. /\ \A k \in 1 .. Len(file) : WordsOf(file, k) = file[k].words
        /\ Lines(file) = 1 .. Len(file)
    BY <1>2, PlainLines
  <2> QED
    BY <2>1 DEF Matching, Hits
<1>4. file[Len(file)].end # "eof"
  BY <1>1, <1>2
<1>5. {n + 1 : n \in Matching(file) \cap {Len(file)}}
        = IF Len(file) \in Matching(file) THEN {Len(file) + 1} ELSE {}
  OBVIOUS
<1> QED
  BY <1>2, <1>3, <1>4, <1>5 DEF Strictly

LEMMA FileCheckHolds == IInv => FileCheckExact
<1> SUFFICES ASSUME IInv, eof, file # <<>>
             PROVE  filecheck <=> \E n \in Lines(file) : WordsOf(file, n) # {}
  BY DEF FileCheckExact
<1>1. filecheck <=> \E k \in 1 .. Len(file) : file[k].words # {}
  BY AtTheEnd DEF IInv, CheckInv
<1>2. ASSUME NEW k \in 1 .. Len(file), file[k].words # {}
      PROVE  \E n \in Lines(file) : WordsOf(file, n) # {}
  <2>1. LineOf(file, k) \in Lines(file)
    BY DEF Lines
  <2>2. file[k].words \subseteq WordsOf(file, LineOf(file, k))
    BY DEF WordsOf
  <2> QED
    BY <1>2, <2>1, <2>2
<1>3. ASSUME NEW n \in Lines(file), WordsOf(file, n) # {}
      PROVE  \E k \in 1 .. Len(file) : file[k].words # {}
  BY <1>3 DEF WordsOf
<1> QED
  BY <1>1, <1>2, <1>3

-----------------------------------------------------------------------------
(* In a text file as one expects it, each matching line is reported once,  *)
(* in order and under its number, and the last one a second time: nothing  *)
(* else, however long the file (tfind.c:161-175).                          *)
THEOREM ReportIsPlain == Spec => []PlainReport
BY Invariance, PlainReportHolds, PTL

(* In any file at all, a line that fits in the buffer is never missed nor  *)
(* reported wrongly, and at most one report too many is made, only at the  *)
(* end of a file that ends with a newline (tfind.c:161-175).               *)
THEOREM NothingMissed == Spec => []NoLineMissed
BY Invariance, NoLineMissedHolds, PTL

(* pfind counts a file exactly if a line of it holds a keyword, unless the *)
(* file is empty (pfind.c:335-361).                                        *)
THEOREM FilesCounted == Spec => []FileCheckExact
BY Invariance, FileCheckHolds, PTL

=============================================================================
