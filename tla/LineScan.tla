------------------------------ MODULE LineScan ------------------------------
(***************************************************************************)
(* The loop with which both programs look for the keywords in a text file  *)
(* (tfind.c:156-175, pfind.c:325-361):                                     *)
(*                                                                         *)
(*    while(!feof(fd)){ fgets; test each keyword; report; line++ }         *)
(*                                                                         *)
(* A file is the sequence of the pieces fgets returns.  A piece ends with  *)
(* the newline of its line, because the buffer is full, or because the     *)
(* file ends, and only then is feof true before the next fgets fails.  Of  *)
(* a piece's text only the keywords in it matter.                          *)
(***************************************************************************)
EXTENDS Integers, Sequences, FiniteSets, SequencesExt

CONSTANTS
  Keyword,    (* the keywords on the command line                          *)
  MaxPieces   (* the length of the files                                   *)

ASSUME LineScanAssumption ==
  /\ IsFiniteSet(Keyword)
  /\ MaxPieces \in Nat

Piece == [words : SUBSET Keyword, end : {"newline", "full", "eof"}]

File == {f \in SeqOf(Piece, MaxPieces) :
           \A k \in 1 .. Len(f) : f[k].end = "eof" => k = Len(f)}

VARIABLES
  file,       (* the file being read                                       *)
  pos,        (* the pieces fgets has returned                             *)
  eof,        (* feof(fd)                                                  *)
  str,        (* the keywords in the buffer                                *)
  line,       (* the line number                                           *)
  found,      (* the numbers under which lines were reported               *)
  filecheck   (* pfind: some keyword was seen                              *)

vars == <<file, pos, eof, str, line, found, filecheck>>

(* str is not initialised: it may hold anything.                           *)
Open ==
  /\ file' \in File
  /\ str' \in SUBSET Keyword
  /\ pos' = 0
  /\ eof' = FALSE
  /\ line' = 1
  /\ found' = <<>>
  /\ filecheck' = FALSE

Init ==
  /\ file \in File
  /\ str \in SUBSET Keyword
  /\ pos = 0
  /\ eof = FALSE
  /\ line = 1
  /\ found = <<>>
  /\ filecheck = FALSE

-----------------------------------------------------------------------------
(* What plausible mistakes in the loop would do: the variants on which the *)
(* properties must fail.                                                   *)
NumberMatchesTestAndCount ==       \* line++ inside the if
  /\ found' = IF Keyword \subseteq str' THEN Append(found, line) ELSE found
  /\ filecheck' = (filecheck \/ Keyword \cap str' # {})
  /\ line' = IF Keyword \subseteq str' THEN line + 1 ELSE line
  /\ UNCHANGED file

LastWinsTestAndCount ==            \* filecheck is cleared for each line
  /\ found' = IF Keyword \subseteq str' THEN Append(found, line) ELSE found
  /\ filecheck' = (Keyword \cap str' # {})
  /\ line' = line + 1
  /\ UNCHANGED file

LateReadPiece ==                   \* the buffer is tested before it is filled
  /\ ~eof
  /\ pos < Len(file)
  /\ pos' = pos + 1
  /\ str' = file[pos'].words
  /\ eof' = (file[pos'].end = "eof")
  /\ found' = IF Keyword \subseteq str THEN Append(found, line) ELSE found
  /\ filecheck' = (filecheck \/ Keyword \cap str # {})
  /\ line' = line + 1
  /\ UNCHANGED file

-----------------------------------------------------------------------------
(* What the loop does with the buffer, whether or not fgets succeeded.     *)
TestAndCount ==
  /\ found' = IF Keyword \subseteq str' THEN Append(found, line) ELSE found
  /\ filecheck' = (filecheck \/ Keyword \cap str' # {})
  /\ line' = line + 1
  /\ UNCHANGED file

-----------------------------------------------------------------------------
ReadPiece ==
  /\ ~eof
  /\ pos < Len(file)
  /\ pos' = pos + 1
  /\ str' = file[pos'].words
  /\ eof' = (file[pos'].end = "eof")
  /\ TestAndCount

(* At the end of the file fgets returns NULL and leaves the buffer alone:  *)
(* the last piece is tested again.                                         *)
ReadNothing ==
  /\ ~eof
  /\ pos = Len(file)
  /\ eof' = TRUE
  /\ UNCHANGED <<pos, str>>
  /\ TestAndCount

(* fclose; the caller goes on with another file.                           *)
NextFile == eof /\ Open

Next == ReadPiece \/ ReadNothing \/ NextFile

Spec == Init /\ [][Next]_vars

-----------------------------------------------------------------------------
(* The lines of a file.  A line that does not fit in the buffer is several *)
(* pieces; it contains a keyword that one of them contains (a keyword cut  *)
(* in two by the buffer is not considered).                                *)
EndsLine(f, k) == f[k].end # "full" \/ k = Len(f)

LineOf(f, k) == 1 + Cardinality({j \in 1 .. k - 1 : EndsLine(f, j)})

Lines(f) == {LineOf(f, k) : k \in 1 .. Len(f)}

WordsOf(f, n) == UNION {f[k].words : k \in {j \in 1 .. Len(f) : LineOf(f, j) = n}}

Matching(f) == {n \in Lines(f) : Keyword \subseteq WordsOf(f, n)}

(* Every line fits in the buffer and the last one has its newline, as text *)
(* files should.                                                           *)
Plain(f) == f # <<>> /\ \A k \in 1 .. Len(f) : f[k].end = "newline"

(* What is reported for the text files one expects: each matching line     *)
(* once, in order and under its number, and the last line a second time,   *)
(* under a number no line has, if it matches.                              *)
PlainReport ==
  eof /\ Plain(file) =>
    /\ ToSet(found)
         = Matching(file) \cup {n + 1 : n \in Matching(file) \cap {Len(file)}}
    /\ \A j, k \in 1 .. Len(found) : j < k => found[j] < found[k]

(* What is reported for any other file.  A line that fits in the buffer is *)
(* never missed, nor reported when it does not match; a longer one counts  *)
(* once for every piece with all the keywords.  One report too many is     *)
(* made at most, and none if the file does not end with a newline.         *)
NoLineMissed ==
  eof /\ file # <<>> =>
    LET hits == {k \in 1 .. Len(file) : Keyword \subseteq file[k].words}
    IN /\ hits = {n \in 1 .. Len(file) : Contains(found, n)}
       /\ \A k \in 1 .. Len(file) :
            (\A j \in 1 .. Len(file) : LineOf(file, j) = LineOf(file, k) => j = k)
              => (k \in hits <=> LineOf(file, k) \in Matching(file))
       /\ Len(found) - Cardinality(hits) \in
            IF Last(file).end = "eof" THEN {0} ELSE {0, 1}

(* pfind reports a file ("f") when some line holds some keyword.  An empty *)
(* file is the exception: what an uninitialised buffer holds decides.      *)
FileCheckExact ==
  eof /\ file # <<>> =>
    (filecheck <=> \E n \in Lines(file) : WordsOf(file, n) # {})

(* "worker reads the file and finds the line containing the keyword"       *)
(* (HW4 README.md:21): in a text file, as many lines are found as there    *)
(* are.                                                                    *)
FindsTheLines ==
  eof /\ Plain(file) => Len(found) = Cardinality(Matching(file))
=============================================================================
