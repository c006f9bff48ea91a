------------------------------ MODULE AppealQr ------------------------------
(***************************************************************************)
(* The appeal page of a desktop browser (static/usercenter/assets): it     *)
(* draws the address of the mobile page, query and all, as a QR code.  The *)
(* bundled encoder splits the address into segments of digits, of          *)
(* upper-case letters and signs, and of bytes, looks for the cheapest way  *)
(* to write them on a graph whose edges it weighs approximately, and takes *)
(* the smallest symbol that holds the result.                              *)
(*                                                                         *)
(* A character is its class; an address has no others than ASCII, since    *)
(* the browser escapes the rest.  Kanji mode is off: the page gives no     *)
(* table for it.                                                           *)
(***************************************************************************)
EXTENDS Naturals, SequencesExt, TLC

CONSTANT Address   \* the addresses the page is opened with

VARIABLE symbol    \* what the page has drawn

-----------------------------------------------------------------------------
(* Modes *)

Numeric == "Numeric"
Alphanumeric == "Alphanumeric"
Byte == "Byte"

Mode == {Numeric, Alphanumeric, Byte}

\* xn: the class of a character is the narrowest mode that can write it.
Writes(mode) == CASE mode = Numeric -> {Numeric}
                  [] mode = Alphanumeric -> {Numeric, Alphanumeric}
                  [] mode = Byte -> Mode

ASSUME AddressAssumption == Address \subseteq (Seq(Mode) \ {<<>>})

Version == 1 .. 40

\* ccBits, getCharCountIndicator
CharCountIndicator(mode, v) ==
    LET bits == CASE mode = Numeric      -> <<10, 12, 14>>
                  [] mode = Alphanumeric -> <<9, 11, 13>>
                  [] mode = Byte         -> <<8, 16, 16>>
    IN  bits[IF v < 10 THEN 1 ELSE IF v < 27 THEN 2 ELSE 3]

\* the four bits of the mode, then the count
ReservedBits(mode, v) == CharCountIndicator(mode, v) + 4

\* getBitsLength of the three kinds of data
BitsLength(mode, n) ==
    CASE mode = Numeric      -> 10 * (n \div 3) + (IF n % 3 = 0 THEN 0 ELSE (n % 3) * 3 + 1)
      [] mode = Alphanumeric -> 11 * (n \div 2) + (n % 2) * 6
      [] mode = Byte         -> 8 * n

Segment == [mode : Mode, length : Nat]

\* a segment of n characters with its header
SegmentBits(mode, n, v) == BitsLength(mode, n) + ReservedBits(mode, v)

Total(numbers) == FoldLeft(LAMBDA sum, n : sum + n, 0, numbers)

Characters(segments) == Total([k \in DOMAIN segments |-> segments[k].length])

TotalBits(segments, v) ==
    Total([k \in DOMAIN segments |-> SegmentBits(segments[k].mode, segments[k].length, v)])

-----------------------------------------------------------------------------
(* Versions, at error correction level M *)

TotalCodewords == <<26, 44, 70, 100, 134, 172, 196, 242, 292, 346, 404, 466, 532, 581, 655, 733, 815,
    901, 991, 1085, 1156, 1258, 1364, 1474, 1588, 1706, 1828, 1921, 2051, 2185, 2323, 2465, 2611,
    2761, 2876, 3034, 3196, 3362, 3532, 3706>>

CorrectionCodewords == <<10, 16, 26, 36, 48, 64, 72, 88, 110, 130, 150, 176, 198, 216, 240, 280, 308,
    338, 364, 416, 442, 476, 504, 560, 588, 644, 700, 728, 784, 812, 868, 924, 980, 1036, 1064, 1120,
    1204, 1260, 1316, 1372>>

DataBits(v) == (TotalCodewords[v] - CorrectionCodewords[v]) * 8

\* getCapacity: how many characters of one segment a symbol holds
Capacity(v, mode) ==
    LET bits == DataBits(v) - ReservedBits(mode, v)
    IN  CASE mode = Numeric      -> (bits * 3) \div 10
          [] mode = Alphanumeric -> (bits * 2) \div 11
          [] mode = Byte         -> bits \div 8

\* mutant: the header of a segment is left out of the count
HoldsData(segments, v) ==
    Total([k \in DOMAIN segments |-> BitsLength(segments[k].mode, segments[k].length)]) <= DataBits(v)

\* one segment is counted in characters, several in bits
Holds(segments, v) ==
    IF Len(segments) = 1 THEN segments[1].length <= Capacity(v, segments[1].mode)
                         ELSE TotalBits(segments, v) <= DataBits(v)

TooBig == 0

BestVersion(segments) ==
    LET enough == { v \in Version : Holds(segments, v) }
    IN  IF enough = {} THEN TooBig ELSE CHOOSE v \in enough : \A w \in enough : v <= w

-----------------------------------------------------------------------------
(* Segments *)

\* mergeSegments: neighbours of one mode become one
Joined(done, s) ==
    IF done # <<>> /\ Last(done).mode = s.mode
    THEN Append(Front(done), [s EXCEPT !.length = @ + Last(done).length])
    ELSE Append(done, s)

Merge(segments) == FoldLeft(Joined, <<>>, segments)

\* rawSplit: the longest runs of each class
RawSplit(text) == Merge([i \in DOMAIN text |-> [mode |-> text[i], length |-> 1]])

\* buildNodes: the modes a run may be written in, narrowest first
Options(mode) == CASE mode = Numeric      -> <<Numeric, Alphanumeric, Byte>>
                   [] mode = Alphanumeric -> <<Alphanumeric, Byte>>
                   [] mode = Byte         -> <<Byte>>

\* buildGraph: lastCount of the node an edge leaves, when the edge to option i
\* of a run of n characters is weighed.  It belongs to the node, not to the
\* path: nothing before the edges to this run has set it, and the edges to the
\* options before i, all switches of mode, have set it to n.
LastCount(i, n) == IF i = 1 THEN 0 ELSE n

EdgeWeight(from, run, i, v) ==
    LET mode == Options(run.mode)[i]
        n    == run.length
    IN  IF from = mode   \* else a segment begins
        THEN BitsLength(mode, LastCount(i, n) + n) - BitsLength(mode, LastCount(i, n))
        ELSE SegmentBits(mode, n, v)

\* find_path, a layer of nodes at a time.  A node is its mode, the cost of the
\* cheapest path to it and that path; a layer lists its nodes in the order in
\* which the queue gives them out: by cost, then as they were put in.
FirstLayer(run, v) ==
    [i \in DOMAIN Options(run.mode) |->
        LET mode == Options(run.mode)[i]
        IN  [path |-> <<[mode |-> mode, length |-> run.length]>>,
             cost |-> SegmentBits(mode, run.length, v), from |-> 0, option |-> i]]

\* mutant: the queue is sorted the other way round
Dearer(a, b) == a.cost > b.cost

Earlier(a, b) ==
    \/ a.cost < b.cost
    \/ a.cost = b.cost /\ (a.from < b.from \/ (a.from = b.from /\ a.option < b.option))

CostBy(node, run, i, v) == node.cost + EdgeWeight(Last(node.path).mode, run, i, v)

\* a path is replaced only by a cheaper one: of several the first one found stays
Best(layer, run, i, v) ==
    CHOOSE k \in DOMAIN layer :
        \A l \in DOMAIN layer :
            \/ CostBy(layer[k], run, i, v) < CostBy(layer[l], run, i, v)
            \/ CostBy(layer[k], run, i, v) = CostBy(layer[l], run, i, v) /\ k <= l

Reached(layer, run, i, v) ==
    LET best == Best(layer, run, i, v)
        last == [mode |-> Options(run.mode)[i], length |-> run.length]
    IN  [path |-> Append(layer[best].path, last), cost |-> CostBy(layer[best], run, i, v),
         from |-> best, option |-> i]

InOrder(layer) ==
    CHOOSE queue \in [DOMAIN layer -> { layer[i] : i \in DOMAIN layer }] :
        \A i, j \in DOMAIN layer : i < j => Earlier(queue[i], queue[j])

NextLayer(layer, run, v) ==
    InOrder([i \in DOMAIN Options(run.mode) |-> Reached(layer, run, i, v)])

LastLayer(runs, v) ==
    FoldLeft(LAMBDA layer, run : NextLayer(layer, run, v),
             InOrder(FirstLayer(Head(runs), v)), Tail(runs))

CheapestPath(runs, v) == LastLayer(runs, v)[1].path

\* fromString: the segments of a text, weighed for version v
FromString(text, v) == Merge(CheapestPath(RawSplit(text), v))

-----------------------------------------------------------------------------
(* The page *)

NoSymbol == [text |-> <<>>, segments |-> <<>>, version |-> TooBig]

QrInit == symbol = NoSymbol

\* createSymbol: the version of the plain split weighs the edges, the version
\* of the chosen segments is the symbol's; one too big draws nothing.
Estimate(text) == IF BestVersion(RawSplit(text)) = TooBig THEN 40 ELSE BestVersion(RawSplit(text))

DrawSymbol ==
    /\ symbol = NoSymbol
    /\ \E text \in Address :
           LET segments == FromString(text, Estimate(text))
           IN  symbol' = [text |-> text, segments |-> segments, version |-> BestVersion(segments)]

\* The page is left, and its canvas with it.
LeaveAppeal == symbol # NoSymbol /\ symbol' = NoSymbol

QrNext == DrawSymbol \/ LeaveAppeal

QrSpec == QrInit /\ [][QrNext]_symbol

\* createData: the bits after the terminator and the filling to a byte
Written(segments, v) ==
    LET bits == TotalBits(segments, v)
        ended == IF bits + 4 <= DataBits(v) THEN bits + 4 ELSE bits
    IN  ((ended + 7) \div 8) * 8

-----------------------------------------------------------------------------
(* Properties *)

\* One after the other, the segments stand for the whole text, each for
\* characters that its mode can write.
Spells(segments, text) ==
    /\ Characters(segments) = Len(text)
    /\ \A k \in DOMAIN segments :
           LET before == Characters(SubSeq(segments, 1, k - 1))
           IN  \A i \in before + 1 .. before + segments[k].length :
                   text[i] \in Writes(segments[k].mode)

\* A symbol that was drawn spells the whole address: the segments cover it in
\* order, each character in a mode that can write it, and they fit, with their
\* headers, into the data part that createData fills up with whole bytes.
SymbolSpellsAddress ==
    symbol.version # TooBig =>
        /\ Spells(symbol.segments, symbol.text)
        /\ TotalBits(symbol.segments, symbol.version) <= DataBits(symbol.version)
        /\ Written(symbol.segments, symbol.version) <= DataBits(symbol.version)

\* The weights are approximate, the result still good: writing a run in another
\* mode to join its neighbours never costs bits, so the symbol is no larger than
\* for the plain split, and none is refused that the plain split would fit.
Size(v) == IF v = TooBig THEN 41 ELSE v

NoLargerThanPlain ==
    symbol # NoSymbol =>
        LET plain == RawSplit(symbol.text)
        IN  /\ TotalBits(symbol.segments, Estimate(symbol.text)) <= TotalBits(plain, Estimate(symbol.text))
            /\ Size(symbol.version) <= Size(BestVersion(plain))
=============================================================================
