---------------------------- MODULE TextFilters ----------------------------
(***************************************************************************)
(* urlparse and upper_sanitize: two filters that read a line and write one *)
(* character by character.  urlparse decodes what is escaped with '%';     *)
(* upper_sanitize makes the capitals inside of words small ones.           *)
(***************************************************************************)
EXTENDS Integers, Sequences, FiniteSets

CONSTANTS
    UrlLines,   \* lines for urlparse: sequences of numbers
    CaseLines   \* lines for upper_sanitize: sequences of CaseChar

VARIABLES
    urlLine, urlPos, urlOut,        \* urlparse: line, i, line_out
    caseLine, casePos, caseOut,     \* upper_sanitize: line, i, line_out
    lineBegin, wordBegin            \* line_begin, word_begin

urlVars  == <<urlLine, urlPos, urlOut>>
caseVars == <<caseLine, casePos, caseOut, lineBegin, wordBegin>>

-----------------------------------------------------------------------------
(* urlparse *)

\* Characters are numbers: '%', and the digits is_valid knows ("0" to "9", "A"
\* to "F": not the small ones).
Percent == 37
Digits  == 48 .. 57 \cup 65 .. 70

HexValue(d) == IF d <= 57 THEN d - 48 ELSE d - 55

\* The character two digits stand for.
Decoded(d, e) == 16 * HexValue(d) + HexValue(e)

ASSUME UrlAssumption == UrlLines \subseteq Seq(0 .. 255)

UrlInit == urlLine \in UrlLines /\ urlPos = 1 /\ urlOut = <<>>

IsValid(p) == p <= Len(urlLine) /\ urlLine[p] \in Digits

\* Mutant: the digit behind a broken escape is lost.
SkipBrokenMutant ==
    /\ urlPos <= Len(urlLine)
    /\ urlLine[urlPos] = Percent /\ ~(IsValid(urlPos + 1) /\ IsValid(urlPos + 2))
    /\ urlPos' = urlPos + 2
    /\ UNCHANGED <<urlLine, urlOut>>

\* A '%' without two digits is dropped, and what follows it is read as text.
Broken ==
    /\ urlPos <= Len(urlLine)
    /\ urlLine[urlPos] = Percent /\ ~(IsValid(urlPos + 1) /\ IsValid(urlPos + 2))
    /\ urlPos' = urlPos + 1
    /\ UNCHANGED <<urlLine, urlOut>>

Escape ==
    /\ urlPos <= Len(urlLine)
    /\ urlLine[urlPos] = Percent /\ IsValid(urlPos + 1) /\ IsValid(urlPos + 2)
    /\ urlOut' = Append(urlOut, Decoded(urlLine[urlPos + 1], urlLine[urlPos + 2]))
    /\ urlPos' = urlPos + 3
    /\ UNCHANGED urlLine

Literal ==
    /\ urlPos <= Len(urlLine)
    /\ urlLine[urlPos] # Percent
    /\ urlOut' = Append(urlOut, urlLine[urlPos])
    /\ urlPos' = urlPos + 1
    /\ UNCHANGED urlLine

UrlNext == Broken \/ Escape \/ Literal

UrlSpec == UrlInit /\ [][UrlNext]_urlVars

-----------------------------------------------------------------------------
(* upper_sanitize *)

Upper == {"A", "B"}
Lower == {"a", "b"}
Blank == {" ", "\t"}
CaseChar == Upper \cup Lower \cup Blank \cup {"1"}

ToLower(c) == IF c = "A" THEN "a" ELSE "b"

ASSUME CaseAssumption == CaseLines \subseteq Seq(CaseChar)

CaseInit ==
    /\ caseLine \in CaseLines
    /\ casePos = 1
    /\ caseOut = <<>>
    /\ lineBegin = TRUE
    /\ wordBegin = FALSE

\* The character at casePos is written as c.
Push(c) ==
    /\ caseOut' = Append(caseOut, c)
    /\ casePos' = casePos + 1
    /\ UNCHANGED caseLine

\* Mutant: only a letter ends the beginning of a line.
LetterFirstMutant(c) == lineBegin /\ Push(c) /\ lineBegin' = (c \notin Upper \cup Lower) /\ UNCHANGED wordBegin

First(c)  == lineBegin /\ Push(c) /\ lineBegin' = FALSE /\ UNCHANGED wordBegin

Space(c)  == ~lineBegin /\ c \in Blank /\ Push(c) /\ wordBegin' = TRUE /\ UNCHANGED lineBegin

WordBegin(c) ==
    /\ ~lineBegin /\ c \notin Blank /\ wordBegin
    /\ Push(c)
    /\ wordBegin' = (c \notin Upper \cup Lower)
    /\ UNCHANGED lineBegin

Inside(c) ==
    /\ ~lineBegin /\ c \notin Blank /\ ~wordBegin
    /\ Push(IF c \in Upper THEN ToLower(c) ELSE c)
    /\ UNCHANGED <<lineBegin, wordBegin>>

CaseNext ==
    /\ casePos <= Len(caseLine)
    /\ LET c == caseLine[casePos] IN First(c) \/ Space(c) \/ WordBegin(c) \/ Inside(c)

CaseSpec == CaseInit /\ [][CaseNext]_caseVars

-----------------------------------------------------------------------------
(* Properties *)

\* What the line says, position by position: a '%' with two digits behind it
\* is their character, and the digits are nothing on their own.
Escaped(l, i) ==
    /\ i \in DOMAIN l /\ l[i] = Percent
    /\ {i + 1, i + 2} \subseteq DOMAIN l /\ {l[i + 1], l[i + 2]} \subseteq Digits

Spoken(l) == {i \in DOMAIN l :
    Escaped(l, i) \/ (l[i] # Percent /\ ~Escaped(l, i - 1) /\ ~Escaped(l, i - 2))}

Meaning(l, i) == IF Escaped(l, i) THEN Decoded(l[i + 1], l[i + 2]) ELSE l[i]

\* out says what the line says: one character for each position that is not
\* nothing, in their order.
Says(out, l) ==
    /\ Len(out) = Cardinality(Spoken(l))
    /\ \A i \in Spoken(l) : out[Cardinality({k \in Spoken(l) : k <= i})] = Meaning(l, i)

\* A line that has been read is decoded by its meaning; no order of escapes,
\* broken ones and ends of the line makes the reader lose its place.
UrlDecoded == urlPos > Len(urlLine) => Says(urlOut, urlLine)

\* A capital stays at the beginning of the line, and where only blanks and
\* what is no letter are between it and a blank behind the beginning.
KeepsCapital(l, i) ==
    \/ i = 1
    \/ \E w \in 2 .. i - 1 : l[w] \in Blank /\ \A k \in w .. i - 1 : l[k] \notin Upper \cup Lower

CaseMeaning(l) == [i \in DOMAIN l |->
    IF l[i] \in Upper /\ ~KeepsCapital(l, i) THEN ToLower(l[i]) ELSE l[i]]

\* A line that has been read has a capital at the beginning of a word, and no
\* other: also when digits, several blanks or the beginning of the line come
\* before it.
CaseSanitized == casePos > Len(caseLine) => caseOut = CaseMeaning(caseLine)

=============================================================================
