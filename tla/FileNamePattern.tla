----------------------------- MODULE FileNamePattern ----------------------------
(***************************************************************************)
(* The names of log files: text_file_backend makes them from a pattern and *)
(* a counter, and scan_for_files recognizes them and reads the counter     *)
(* back.  A pattern is a sequence of tokens, a name a sequence of          *)
(* characters: digits are themselves, letters are negative numbers.        *)
(***************************************************************************)
EXTENDS Integers, Sequences

CONSTANTS
    Patterns,        \* sequences of tokens
    FileCounters,    \* counters
    TimeDigit        \* the digit that all date and time placeholders expand to

\* A token is a letter that stands for itself, an escaped percent sign (%%), a
\* number of digits of a date or time placeholder, or %N with its width.
Letter(c) == [kind |-> "letter", c |-> c]
EscapedPercent == [kind |-> "percent"]
TimeDigits(n) == [kind |-> "time", n |-> n]
CounterToken(width) == [kind |-> "counter", width |-> width]
TokenRecords == [kind : {"letter"}, c : Int] \cup [kind : {"percent"}]
                    \cup [kind : {"time"}, n : Nat] \cup [kind : {"counter"}, width : Nat]
Percent == -2        \* the percent sign in a name
HasTime(tokens) == \E i \in DOMAIN tokens : tokens[i].kind = "time"

ASSUME FPAssumptions ==
    Patterns \subseteq Seq(TokenRecords) /\ FileCounters \subseteq Nat /\ TimeDigit \in 0..9

VARIABLES
    pattern,         \* m_FileNamePattern
    counter,         \* m_FileCounter when the file was opened
    clash,           \* digits appended by the collector to a name already in use
    fileName,        \* the name of the file on disk
    scanned          \* what a later scan made of the name

fpVars == <<pattern, counter, clash, fileName, scanned>>

IsDigit(c) == c \in 0..9

\* The digits of a number, and the number that digits make.
Digits[n \in Nat] == IF n < 10 THEN <<n>> ELSE Append(Digits[n \div 10], n % 10)
Number(digits) ==
    LET upTo[i \in 0..Len(digits)] == IF i = 0 THEN 0 ELSE 10 * upTo[i - 1] + digits[i]
    IN  upTo[Len(digits)]
Repeat(c, n) == [i \in 1..n |-> c]

\* file_counter_formatter: the counter in its width, filled up with zeros.
Padded(n, width) ==
    IF Len(Digits[n]) >= width THEN Digits[n] ELSE Repeat(0, width - Len(Digits[n])) \o Digits[n]

\* The m_FileNameGenerator that set_file_name_pattern_internal chooses: the
\* first counter placeholder is replaced by the counter, date and time
\* placeholders by their digits.  Only the formatter of date and time, which is
\* used if there is such a placeholder, makes one percent sign of an escaped one;
\* the other formatters leave both.
Expanded(token, n, timed) ==
    CASE token.kind = "letter"  -> <<token.c>>
      [] token.kind = "percent" -> Repeat(Percent, IF timed THEN 1 ELSE 2)
      [] token.kind = "time"    -> Repeat(TimeDigit, token.n)
      [] token.kind = "counter" -> Padded(n, token.width)
file_name(tokens, n) ==
    LET upTo[i \in 0..Len(tokens)] == IF i = 0 THEN <<>> ELSE upTo[i - 1] \o Expanded(tokens[i], n, HasTime(tokens))
    IN  upTo[Len(tokens)]

\* Mutant: the iterator is compared with the end one character too early.
ScanDigitsTooShort(f, i, n) ==
    n > 0 => i + n < Len(f) /\ \A k \in i..i + n - 1 : IsDigit(f[k])

\* match_pattern's local::scan_digits: n digits from position i on.  It also
\* fails when the last digit is the last character, as the iterator is compared
\* with the end after it was incremented.
scan_digits(f, i, n) ==
    n > 0 => i + n <= Len(f) /\ \A k \in i..i + n - 1 : IsDigit(f[k])

\* Where the run of digits that starts at i ends.
EndOfDigits(f, i) ==
    CHOOSE k \in i..Len(f) + 1 :
        /\ \A j \in i..k - 1 : IsDigit(f[j])
        /\ k = Len(f) + 1 \/ ~IsDigit(f[k])

NotScanned == [match |-> FALSE, counter |-> -1]

\* How match_pattern goes over one token: where it is in the name f, whether the
\* name fits so far, and the counter it has read.
OverLetter(m, f, c) == [m EXCEPT !.at = @ + 1, !.fits = c = f[m.at]]
OverTime(m, f, n) == [m EXCEPT !.at = @ + n, !.fits = scan_digits(f, m.at, n)]

\* Mutant: the counter has exactly its width.
OverFixedWidth(m, f, width) ==
    [at |-> m.at + width, fits |-> scan_digits(f, m.at, width),
     counter |-> IF m.at + width <= Len(f) + 1 THEN Number(SubSeq(f, m.at, m.at + width - 1)) ELSE 0]

\* A counter has at least its width of digits and takes all that follow; no
\* digits leave the number as it is.
OverCounter(m, f, width) ==
    LET end == EndOfDigits(f, m.at) IN
    [at |-> end, fits |-> scan_digits(f, m.at, width),
     counter |-> IF end = m.at THEN m.counter ELSE Number(SubSeq(f, m.at, end - 1))]

Over(m, f, token) ==
    IF ~m.fits \/ m.at > Len(f) THEN [m EXCEPT !.fits = FALSE]
    ELSE CASE token.kind = "letter"  -> OverLetter(m, f, token.c)
           [] token.kind = "percent" -> OverLetter(m, f, Percent)
           [] token.kind = "time"    -> OverTime(m, f, token.n)
           [] token.kind = "counter" -> OverCounter(m, f, token.width)

\* match_pattern walks through the name and the tokens side by side.  What is
\* left of the name must be digits: the collector appends some to a name that is
\* already in use.
match_pattern(f, tokens) ==
    LET over[j \in 0..Len(tokens)] ==
            IF j = 0 THEN [at |-> 1, fits |-> TRUE, counter |-> 0] ELSE Over(over[j - 1], f, tokens[j])
        m == over[Len(tokens)]
    IN  [match |-> m.fits /\ (m.at <= Len(f) => scan_digits(f, m.at, Len(f) + 1 - m.at)),
         counter |-> m.counter]

-------------------------------------------------------------------------------
\* A pattern as the documentation recommends it: a number never touches another
\* one or the end of the name, and there is one counter at most.
NumbersStandApart(tokens) ==
    LET apart(i) == tokens[i].kind = "percent" \/ (tokens[i].kind = "letter" /\ tokens[i].c < 0)
    IN  /\ tokens # <<>> /\ apart(Len(tokens))
        /\ \A i \in 1..Len(tokens) - 1 : apart(i) \/ apart(i + 1)
        /\ \A i, j \in DOMAIN tokens :
              tokens[i].kind = "counter" /\ tokens[j].kind = "counter" => i = j

NameFrom(tokens, n, digits) ==
    /\ pattern = tokens
    /\ counter = n
    /\ clash = digits
    /\ fileName = <<>>
    /\ scanned = NotScanned

FPInit ==
    \E tokens \in Patterns, n \in FileCounters, digits \in {<<>>, Padded(0, 5)} :
        NumbersStandApart(tokens) /\ NameFrom(tokens, n, digits)

\* The file is opened, rotated and stored, perhaps under a mangled name.
StoreAs ==
    /\ fileName = <<>>
    /\ fileName' = file_name(pattern, counter) \o clash
    /\ UNCHANGED <<pattern, counter, clash, scanned>>

\* Another process scans for it.
ScanFor ==
    /\ fileName # <<>> /\ scanned = NotScanned
    /\ scanned' = match_pattern(fileName, pattern)
    /\ UNCHANGED <<pattern, counter, clash, fileName>>

FPNext == StoreAs \/ ScanFor

FPSpec == FPInit /\ [][FPNext]_fpVars

-------------------------------------------------------------------------------
HasCounter == \E i \in DOMAIN pattern : pattern[i].kind = "counter"

\* The scan takes one percent sign for an escaped one.  A pattern with an escaped
\* one but without date and time, as "a%%b_%N.log", names its files with both, and
\* they are not found, although scan_for_files documents "%%" as a percent sign.
PercentsAreUnescaped(tokens) == (\E i \in DOMAIN tokens : tokens[i].kind = "percent") => HasTime(tokens)

\* A file that was stored under its own name is found by the next scan, which
\* reads the counter back that the file was made with, so that the process goes
\* on counting behind it: unless its name still has both signs of an escaped
\* percent sign.
ScanUndoesNaming ==
    scanned # NotScanned /\ clash = <<>> /\ PercentsAreUnescaped(pattern)
        => scanned.match /\ (HasCounter => scanned.counter = counter)

\* A scan finds every file of its pattern that was stored under its own name.
EveryFileIsFound == scanned # NotScanned /\ clash = <<>> => scanned.match

\* "The actual file name may end with an additional counter that is added by
\* the collector in case if file name clash": such a file is found, too.
ScanFindsClashes ==
    scanned # NotScanned /\ clash # <<>> => scanned.match
===============================================================================
