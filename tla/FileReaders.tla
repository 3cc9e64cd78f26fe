---- MODULE FileReaders ----
(***************************************************************************)
(* VALIDATE_FILE and SPLIT_CHUNKS of the ingestion worker over the object  *)
(* store: a reader per format inspects a dealer's file, and later reads its*)
(* rows from the store again. The CSV reader rewrites a file whose head is *)
(* not UTF-8. Runs may overlap, as deliveries of one job can, and die.     *)
(*                                                                         *)
(*   file    the dealer's file, as uploaded                                *)
(*   object  what the store holds of it now, and how much                  *)
(*   runs    each execution: its step, what it read, the rows it split, by *)
(*           their numbers                                                 *)
(*   mixed   history: a run read the object while another rewrote it, one  *)
(*           died rewriting it, or the head that was read ended inside a   *)
(*           character                                                     *)
(*                                                                         *)
(* A cell is named by its row and column. A file's accented characters lie *)
(* in the head that is inspected, across its end, or beyond it.            *)
(*                                                                         *)
(* And iterateJsonArray, which cuts the records out of a JSON array while  *)
(* the file still arrives in chunks, so a file is never in memory at once: *)
(*                                                                         *)
(*   text    the bytes so far                                              *)
(*   held    what TextDecoder holds back of a character cut by a chunk     *)
(*   scan    the scanner: where it is, the element it collects, the records*)
(*           it has yielded                                                *)
(* A byte is one of the characters the scanner tells apart, "1" for the    *)
(* characters of a number, true or null, "s" for white space, or one of the*)
(* two bytes of a character that has two.                                  *)
(***************************************************************************)
EXTENDS Naturals, Sequences, FiniteSets, FiniteSetsExt, SequencesExt

CONSTANTS
  StoreRuns,       \* executions of one job
  MaxColumns,      \* bound on the columns of a file
  MaxRows,         \* bound on its rows
  MaxCells,        \* bound on columns times rows
  Bytes,           \* of AllBytes
  MaxBytes         \* bound on the length of a file that is streamed

ASSUME ReadersAssumption == MaxColumns \in Nat /\ MaxRows \in Nat

VARIABLES file, object, runs, mixed, text, held, scan

readerVars == <<file, object, runs, mixed>>
streamVars == <<text, held, scan>>

AllBytes == {"[", "]", "{", "}", ",", "quote", "backslash", "1", "s", "lead", "trail"}

ASSUME StreamAssumption == Bytes \subseteq AllBytes /\ MaxBytes \in Nat

RawHeaders == {"make", "Manufacturer", "#"}

REQUIRED_COLUMNS == {"make"}

(* Aliases fold to one name, and what is no name folds to nothing.         *)
normalizeHeader(header) ==
  CASE header = "Manufacturer" -> "make" [] header = "#" -> "" [] OTHER -> header

Encodings == {"utf8", "windows1252", "garbled", "mangled"}
Places == {"nowhere", "head", "cut", "beyond"}

(* A row is the columns it has a value in: a short CSV row lacks some, a   *)
(* long one has one too many; a JSON record has the keys it has.           *)
RowShapes(columns) == {{1}, 1 .. Len(columns), 1 .. (Len(columns) + 1)}

Tables ==
  {t \in UNION {{[columns |-> cs, rows |-> rs] : rs \in UNION {[1 .. n -> RowShapes(cs)] : n \in 0 .. MaxRows}} :
                  cs \in UNION {[1 .. n -> RawHeaders] : n \in 0 .. MaxColumns}} :
     Len(t.columns) * Len(t.rows) <= MaxCells}

(* How much there is of a file: whole rows, and then a part of one.        *)
NoExtent == [rows |-> 0, torn |-> FALSE]

NoObject == [encoding |-> "none", accents |-> "nowhere", extent |-> NoExtent, partial |-> FALSE]

NoRun == [step |-> "idle", read |-> NoObject, text |-> "none", split |-> <<>>]

NoFile == [format |-> "none", columns |-> <<>>, nested |-> FALSE, rows |-> <<>>]

ReadersInit ==
  /\ file = NoFile /\ object = NoObject /\ mixed = FALSE
  /\ runs = [r \in StoreRuns |-> NoRun]

Extents == [rows : 0 .. MaxRows, torn : BOOLEAN]
Objects == [encoding : Encodings \cup {"none"}, accents : Places, extent : Extents, partial : BOOLEAN]
Texts == {"none", "right", "replaced", "garbled", "mangled"}
RunSteps == {"idle", "rewrite", "writing", "inspected", "split", "rejected"}

ReadersTypeOK ==
  /\ file.format \in {"none", "csv", "json"} /\ object \in Objects /\ mixed \in BOOLEAN
  /\ \A r \in StoreRuns :
       /\ runs[r].step \in RunSteps /\ runs[r].read \in Objects /\ runs[r].text \in Texts
       /\ DOMAIN runs[r].split \subseteq 1 .. MaxRows

----
WholeFile == [rows |-> Len(file.rows), torn |-> FALSE]

Upload ==
  /\ file = NoFile
  /\ \E t \in Tables, format \in {"csv", "json"}, nested \in BOOLEAN :
       /\ nested => format = "json" /\ t.rows # <<>>
       /\ file' = [format |-> format, columns |-> t.columns, nested |-> nested, rows |-> t.rows]
  /\ \E encoding \in {"utf8", "windows1252"}, accents \in Places :
       object' = [encoding |-> encoding, accents |-> accents, extent |-> WholeFile', partial |-> FALSE]
  /\ UNCHANGED <<runs, mixed>>

Rewriting(r) == \E q \in StoreRuns \ {r} : runs[q].step \in {"rewrite", "writing"}

Goes(r, run) == runs' = [runs EXCEPT ![r] = run]

(* What a reader gets of the object: all of it, or while it is put, and a  *)
(* local file is truncated first, any beginning.                           *)
Beginnings(e) == {p \in Extents : p.rows < e.rows \/ (p.rows = e.rows /\ (p.torn => e.torn))}

Reads == IF object.partial THEN Beginnings(object.extent) ELSE {object.extent}

Short == object.partial \/ object.extent # WholeFile

(* decodeText: UTF-8, or else Windows-1252. A character that the end of    *)
(* the head cuts is not UTF-8 either, nor one that the end of a short file *)
(* cuts. One that Windows-1252 spells in one byte is not cut.              *)
HeadIsUtf8 ==
  IF object.encoding = "windows1252" THEN object.accents \in {"nowhere", "beyond"} ELSE object.accents # "cut"

DecodesHead ==
  IF object.accents # "nowhere" /\ (Short \/ object.encoding = "mangled") THEN BOOLEAN ELSE {HeadIsUtf8}

Headers(columns) == {normalizeHeader(columns[i]) : i \in DOMAIN columns} \ {""}

Collide(columns, present) ==
  \E i, j \in present \cap DOMAIN columns :
    i # j /\ normalizeHeader(columns[i]) = normalizeHeader(columns[j]) /\ normalizeHeader(columns[i]) # ""

(* assertNoDuplicates and assertRequiredPresent, for CSV.                  *)
HeaderIsGood == file.columns # <<>> /\ ~Collide(file.columns, DOMAIN file.columns)
                  /\ REQUIRED_COLUMNS \subseteq Headers(file.columns)

(* The header row may be missing from a short file.                        *)
SeesHeader == IF Short \/ object.encoding = "mangled" THEN BOOLEAN ELSE {TRUE}

InspectCsv(r) ==
  /\ runs[r].step = "idle" /\ file.format = "csv"
  /\ \E seen \in SeesHeader, utf8 \in DecodesHead :
       Goes(r, [NoRun EXCEPT !.step = IF ~seen THEN "rejected"
                                      ELSE IF ~utf8 THEN "rewrite"
                                      ELSE IF HeaderIsGood THEN "inspected" ELSE "rejected"])
  /\ mixed' = (mixed \/ Rewriting(r) \/ (object.accents = "cut" /\ object.encoding # "windows1252"))
  /\ UNCHANGED <<file, object>>

(* The reader of JSON reads the whole file: it must be UTF-8, every record *)
(* flat, with no two keys that fold to one column.                         *)
InspectJson(r) ==
  /\ runs[r].step = "idle" /\ file.format = "json"
  /\ LET present(k) == file.rows[k] \cap DOMAIN file.columns
         names == UNION {{normalizeHeader(file.columns[i]) : i \in present(k)} : k \in DOMAIN file.rows}
         good == /\ object.encoding = "utf8" \/ object.accents = "nowhere"
                 /\ file.rows # <<>> /\ ~file.nested
                 /\ \A k \in DOMAIN file.rows : ~Collide(file.columns, present(k))
                 /\ REQUIRED_COLUMNS \subseteq names IN
     Goes(r, [NoRun EXCEPT !.step = IF good THEN "inspected" ELSE "rejected"])
  /\ UNCHANGED <<file, object, mixed>>

(* reencodeWholeFile reads the file again, whole, ...                      *)
ReencodeRead(r) ==
  /\ runs[r].step = "rewrite" /\ runs[r].read = NoObject
  /\ \E e \in Reads : Goes(r, [runs[r] EXCEPT !.read = [object EXCEPT !.extent = e, !.partial = FALSE]])
  /\ mixed' = (mixed \/ Rewriting(r))
  /\ UNCHANGED <<file, object>>

Shifted(place) == CASE place = "head" -> {"head", "cut"} [] place = "cut" -> {"cut", "beyond"} [] OTHER -> {place}

Reencoded(encoding) ==
  CASE encoding = "windows1252" -> "utf8" [] encoding = "mangled" -> "mangled" [] OTHER -> "garbled"

Writers(r) == {q \in StoreRuns \ {r} : runs[q].step = "writing"}

(* ... and puts what Windows-1252 makes of it. The text grows, and what    *)
(* was in the head may now lie across its end. Of two puts to a local file *)
(* that overlap, each writes over what the other wrote.                    *)
ReencodeBegin(r) ==
  /\ runs[r].step = "rewrite" /\ runs[r].read # NoObject
  /\ \E place \in Shifted(runs[r].read.accents) :
       \E encoding \in {Reencoded(runs[r].read.encoding)} \cup IF Writers(r) = {} THEN {} ELSE {"mangled"} :
         object' = [encoding |-> encoding, accents |-> place, extent |-> runs[r].read.extent, partial |-> TRUE]
  /\ Goes(r, [runs[r] EXCEPT !.step = "writing"])
  /\ UNCHANGED <<file, mixed>>

ReencodePut(r) ==
  /\ runs[r].step = "writing"
  /\ object' = [object EXCEPT !.partial = Writers(r) # {}]
  /\ Goes(r, [NoRun EXCEPT !.step = IF HeaderIsGood THEN "inspected" ELSE "rejected"])
  /\ UNCHANGED <<file, mixed>>

(* A record is built column by column; a later one of a name overwrites.   *)
Record(k) ==
  LET present == file.rows[k] \cap DOMAIN file.columns
      named == {i \in present : normalizeHeader(file.columns[i]) # ""} IN
  {<<normalizeHeader(file.columns[i]), k, i>> :
     i \in {j \in named : \A n \in named : normalizeHeader(file.columns[n]) = normalizeHeader(file.columns[j]) => n <= j}}

(* splitChunks reads the file once more and numbers its rows; blank rows   *)
(* are dropped, their numbers with them. csv-parse reads what is not UTF-8 *)
(* as replacement characters. A row that the end of a short file cuts has  *)
(* its first cells. Of what puts mangled, no rows are told.                *)
TextRead == CASE object.encoding \in {"garbled", "mangled"} -> object.encoding
              [] object.encoding = "windows1252" /\ object.accents # "nowhere" -> "replaced"
              [] OTHER -> "right"

Torn(e) == IF e.torn THEN {{cell \in Record(e.rows + 1) : cell[3] <= m} : m \in 0 .. MaxColumns} ELSE {{}}

SplitOf(e, last) ==
  LET Cells(k) == IF k <= e.rows THEN Record(k) ELSE last IN
  [k \in {row \in DOMAIN file.rows \cap 1 .. (e.rows + 1) : Cells(row) # {}} |-> Cells(k)]

SplitRows(r) ==
  /\ runs[r].step = "inspected"
  /\ \E e \in Reads : \E last \in Torn(e) :
       Goes(r, [NoRun EXCEPT !.step = "split", !.text = TextRead,
                             !.split = IF TextRead = "mangled" THEN <<>> ELSE SplitOf(e, last)])
  /\ mixed' = (mixed \/ Rewriting(r))
  /\ UNCHANGED <<file, object>>

(* A run dies, and is delivered again. Of what it was writing, a beginning *)
(* is left.                                                                *)
Redelivered(r) ==
  /\ runs[r].step \notin {"idle", "rejected"}
  /\ Goes(r, NoRun)
  /\ IF runs[r].step = "writing"
     THEN /\ \E e \in Beginnings(object.extent) :
               object' = [object EXCEPT !.extent = e, !.partial = Writers(r) # {}]
          /\ mixed' = TRUE
     ELSE UNCHANGED <<object, mixed>>
  /\ UNCHANGED file

ReadersNext ==
  \/ Upload
  \/ \E r \in StoreRuns : \/ InspectCsv(r) \/ InspectJson(r) \/ ReencodeRead(r) \/ ReencodeBegin(r)
                          \/ ReencodePut(r) \/ SplitRows(r) \/ Redelivered(r)

ReadersSpec == ReadersInit /\ [][ReadersNext]_readerVars

----
CellsOf(k) == {<<normalizeHeader(file.columns[i]), k, i>> :
                 i \in {j \in file.rows[k] \cap DOMAIN file.columns : normalizeHeader(file.columns[j]) # ""}}

AllRows == [k \in {row \in DOMAIN file.rows : CellsOf(row) # {}} |-> CellsOf(k)]

(* Rows of the file under their own numbers and columns, all before the    *)
(* last of them whole.                                                     *)
InPlace(split) ==
  /\ DOMAIN split \subseteq DOMAIN AllRows
  /\ \A k \in DOMAIN split : split[k] \subseteq AllRows[k]
  /\ \A k \in DOMAIN split, j \in DOMAIN AllRows : j < k => j \in DOMAIN split /\ split[j] = AllRows[j]

(* However often the file was inspected and rewritten, and whichever runs  *)
(* overlapped or died: a run that split it has rows of the dealer's, none  *)
(* under another number or column or overwritten by one, and only from the *)
(* end may any be missing, unless two puts to a local file overlapped. If  *)
(* no run read what another rewrote or left half written, it has every row,*)
(* in the dealer's words if accents do not begin beyond the head.          *)
RowsAreTheDealers ==
  \A r \in StoreRuns : runs[r].step = "split" =>
    /\ runs[r].text # "mangled" => InPlace(runs[r].split)
    /\ ~mixed => runs[r].split = AllRows /\ (object.accents # "beyond" => runs[r].text = "right")

(* What the upload guide tells dealers: a CSV in UTF-8 works, and so does  *)
(* one that Excel saves, in Windows-1252 (BulkUploadGuide.tsx:91).         *)
CsvComesAsSaved ==
  \A r \in StoreRuns :
    file.format = "csv" /\ runs[r].step = "split" /\ runs[r].split # <<>> => runs[r].text = "right"

----
Openers == {"[", "{"}
Closers == {"]", "}"}

----
(* JSON.parse of one element. Before each byte a string is open, or not,   *)
(* and some brackets are; of what is inside them, only that they match.    *)
AtEnd == [mode |-> "out", open |-> <<>>]

Lex(p, c) ==
  CASE p.mode = "escaped"                   -> [p EXCEPT !.mode = "in"]
    [] p.mode = "in" /\ c = "quote"         -> [p EXCEPT !.mode = "out"]
    [] p.mode = "in" /\ c = "backslash"     -> [p EXCEPT !.mode = "escaped"]
    [] p.mode = "out" /\ c = "quote"        -> [p EXCEPT !.mode = "in"]
    [] p.mode = "out" /\ c \in Openers      -> [p EXCEPT !.open = <<c>> \o @]
    [] p.mode = "out" /\ c \in Closers      ->
         IF p.open # <<>> /\ <<Head(p.open), c>> \in {<<"[", "]">>, <<"{", "}">>}
         THEN [p EXCEPT !.open = Tail(@)] ELSE [p EXCEPT !.mode = "bad"]
    [] p.mode = "out" /\ c \in {"backslash", "lead", "trail"} -> [p EXCEPT !.mode = "bad"]
    [] OTHER -> p

Lexed(t) == FoldLeft(LAMBDA lexed, c : Append(lexed, Lex(Last(lexed), c)), <<AtEnd>>, t)

(* A number; a string or a bracketed value whose end is the first.         *)
Parses(t) ==
  /\ t # <<>>
  /\ \/ \A i \in DOMAIN t : t[i] = "1"
     \/ /\ t[1] \in Openers \cup {"quote"}
        /\ LET lexed == Lexed(t) IN {i \in DOMAIN lexed : lexed[i] = AtEnd} = {1, Len(lexed)}

----
FreshScan == [at |-> "before", expect |-> "value-or-end", active |-> FALSE, inString |-> FALSE,
              escaped |-> FALSE, depth |-> 0, isPrimitive |-> FALSE, parts |-> <<>>, records |-> <<>>]

StreamInit == text = <<>> /\ held = <<>> /\ scan = FreshScan

StreamFailed(s) == [s EXCEPT !.at = "failed"]

CompleteElement(s) ==
  IF Parses(s.parts)
  THEN [s EXCEPT !.parts = <<>>, !.active = FALSE, !.isPrimitive = FALSE, !.expect = "comma-or-end",
                 !.records = Append(@, s.parts)]
  ELSE StreamFailed(s)

KeepByte(s, c) == [s EXCEPT !.parts = Append(@, c)]

(* Mutant of InString: an escaped quote ends the string.                   *)
InStringUnescaped(s, c) ==
  IF c # "quote" THEN KeepByte(s, c)
  ELSE IF s.depth = 0 THEN CompleteElement([KeepByte(s, c) EXCEPT !.inString = FALSE]) ELSE [KeepByte(s, c) EXCEPT !.inString = FALSE]

InString(s, c) ==
  LET t == KeepByte(s, c) IN
  CASE s.escaped     -> [t EXCEPT !.escaped = FALSE]
    [] ~s.escaped /\ c = "backslash" -> [t EXCEPT !.escaped = TRUE]
    [] ~s.escaped /\ c = "quote" ->
         IF s.depth = 0 THEN CompleteElement([t EXCEPT !.inString = FALSE]) ELSE [t EXCEPT !.inString = FALSE]
    [] OTHER -> t

(* The array's own bracket ends a bare primitive; a stray one is malformed.*)
Closing(s, c) ==
  IF s.depth > 0
  THEN LET t == [KeepByte(s, c) EXCEPT !.depth = @ - 1] IN IF t.depth = 0 THEN CompleteElement(t) ELSE t
  ELSE IF c = "}" THEN StreamFailed(s)
  ELSE LET t == CompleteElement(s) IN IF t.at = "failed" THEN t ELSE [t EXCEPT !.at = "finished"]

InElement(s, c) ==
  CASE s.inString      -> InString(s, c)
    [] ~s.inString /\ c = "quote"   -> [KeepByte(s, c) EXCEPT !.inString = TRUE]
    [] ~s.inString /\ c \in Openers -> [KeepByte(s, c) EXCEPT !.depth = @ + 1]
    [] ~s.inString /\ c \in Closers -> Closing(s, c)
    [] ~s.inString /\ c \in {",", "s"} /\ s.depth = 0 /\ s.isPrimitive ->
         LET t == CompleteElement(s) IN IF c = "," /\ t.at # "failed" THEN [t EXCEPT !.expect = "value"] ELSE t
    [] OTHER -> KeepByte(s, c)

BetweenElements(s, c) ==
  CASE c = "s" -> s
    [] c = "]" -> IF s.expect = "value" THEN StreamFailed(s) ELSE [s EXCEPT !.at = "finished"]
    [] c = "," -> IF s.expect # "comma-or-end" THEN StreamFailed(s) ELSE [s EXCEPT !.expect = "value"]
    [] c \notin {"s", "]", ","} ->
         IF s.expect = "comma-or-end" THEN StreamFailed(s)
         ELSE [s EXCEPT !.active = TRUE, !.parts = <<c>>, !.depth = IF c \in Openers THEN 1 ELSE 0,
                        !.inString = c = "quote", !.isPrimitive = c \notin Openers \cup {"quote"}]

Scan(s, c) ==
  CASE s.at = "failed"   -> s
    [] s.at = "finished" -> IF c = "s" THEN s ELSE StreamFailed(s)
    [] s.at = "before"   -> IF c = "s" THEN s ELSE IF c = "[" THEN [s EXCEPT !.at = "in"] ELSE StreamFailed(s)
    [] s.at = "in"       -> IF s.active THEN InElement(s, c) ELSE BetweenElements(s, c)

(* decode: a chunk is decoded whole before any of it is scanned; a         *)
(* character it cuts is held back for the next.                            *)
IsUtf8(bytes) ==
  \A i \in DOMAIN bytes : /\ bytes[i] = "lead" /\ i < Len(bytes) => bytes[i + 1] = "trail"
                          /\ bytes[i] = "trail" => i > 1 /\ bytes[i - 1] = "lead"

Decode(chunk) ==
  LET bytes == held \o chunk IN
  IF bytes # <<>> /\ Last(bytes) = "lead"
  THEN [characters |-> Front(bytes), held |-> <<"lead">>]
  ELSE [characters |-> bytes, held |-> <<>>]

ReadChunk(chunk) ==
  /\ scan.at \notin {"failed", "yielded", "incomplete"} /\ Len(text) + Len(chunk) <= MaxBytes
  /\ text' = text \o chunk
  /\ held' = Decode(chunk).held
  /\ scan' = IF IsUtf8(held \o chunk) THEN FoldLeft(Scan, scan, Decode(chunk).characters) ELSE StreamFailed(scan)

(* The source ends; a character held back never came.                      *)
EndOfFile ==
  /\ scan.at \notin {"failed", "yielded", "incomplete"}
  /\ scan' = IF held = <<>> /\ scan.at = "finished" THEN [scan EXCEPT !.at = "yielded"] ELSE [scan EXCEPT !.at = "incomplete"]
  /\ held' = <<>>
  /\ UNCHANGED text

StreamNext ==
  \/ \E b \in Bytes : ReadChunk(<<b>>)
  \/ \E b, c \in Bytes : ReadChunk(<<b, c>>)
  \/ EndOfFile

StreamSpec == StreamInit /\ [][StreamNext]_streamVars

StreamTypeOK ==
  /\ text \in Seq(Bytes) /\ Len(text) <= MaxBytes
  /\ held \in {<<>>, <<"lead">>}
  /\ scan.at \in {"before", "in", "finished", "failed", "yielded", "incomplete"}
  /\ scan.expect \in {"value-or-end", "value", "comma-or-end"}
  /\ scan.active \in BOOLEAN /\ scan.inString \in BOOLEAN /\ scan.escaped \in BOOLEAN /\ scan.isPrimitive \in BOOLEAN
  /\ scan.parts \in Seq(Bytes) /\ scan.records \in Seq(Seq(Bytes)) /\ scan.depth \in Nat

----
(* The reference: the brackets of the whole text match, and what lies      *)
(* between two cuts of the array, its brackets and its commas, is a value. *)
Marks(t) == {i \in DOMAIN t : t[i] # "s"}

Trimmed(t) == IF Marks(t) = {} THEN <<>> ELSE SubSeq(t, Min(Marks(t)), Max(Marks(t)))

Cuts(t) ==
  LET lexed == Lexed(t) IN
  {Min(Marks(t)), Max(Marks(t))}
    \cup {i \in DOMAIN t : t[i] = "," /\ lexed[i] = [mode |-> "out", open |-> <<"[">>]}

Between(t, a, b) == Trimmed(SubSeq(t, a + 1, b - 1))

ElementsOf(t) ==
  LET cuts == Cuts(t)
      Cut(k) == CHOOSE c \in cuts : Cardinality({d \in cuts : d <= c}) = k IN
  IF Cardinality(cuts) = 2 /\ Between(t, Min(cuts), Max(cuts)) = <<>> THEN <<>>
  ELSE [k \in 1 .. (Cardinality(cuts) - 1) |-> Between(t, Cut(k), Cut(k + 1))]

IsArrayFile(t) ==
  /\ Trimmed(t) # <<>> /\ Head(Trimmed(t)) = "[" /\ Last(Trimmed(t)) = "]"
  /\ IsUtf8(t) /\ Parses(Trimmed(t))
  /\ LET elements == ElementsOf(t) IN \A k \in DOMAIN elements : Parses(elements[k])

Endings == {<<>>, <<"]">>, <<"1", "]">>, <<"]", "]">>, <<"}", "]">>, <<"quote", "]">>, <<"quote", "}", "]">>,
            <<"trail", "quote", "]">>}

(* However the file is cut into chunks, iterateJsonArray yields exactly the*)
(* records of the array the file is, and fails it only if it is none and   *)
(* nothing that could follow makes it one.                                 *)
YieldsTheRecords ==
  /\ scan.at = "yielded" => IsArrayFile(text) /\ scan.records = ElementsOf(text)
  /\ scan.at = "incomplete" => ~IsArrayFile(text)
  /\ scan.at = "failed" => \A e \in Endings : ~IsArrayFile(text \o e)
====
