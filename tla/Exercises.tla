------------------------------ MODULE Exercises ------------------------------
(***************************************************************************)
(* Three algorithms of practice/: heap_sort (heap_sort.cpp), quick_sort    *)
(* (quicksort.cpp) and decompression (decompress.cpp), and wish::atoi of   *)
(* core/string.  quick_sort is a machine whose steps are the iterations of *)
(* its outer loop, with the recursion on a stack, because it does not      *)
(* return for every array; the others are functions.  Arrays are indexed   *)
(* from 1.                                                                 *)
(***************************************************************************)
EXTENDS Integers, Sequences, FiniteSets, FiniteSetsExt, SequencesExt

CONSTANTS MaxLength,  \* bound on the length of arrays
          MaxValue,   \* arrays hold 1 .. MaxValue
          MaxPlain,   \* bound on the length of uncompressed texts
          Counts,     \* the numbers that compression puts in front of a text
          MaxSteps,   \* bound on the steps that put one together
          IntMax,     \* the greatest int
          MaxNumeral  \* bound on the length of numerals

ASSUME ExercisesAssumption == /\ MaxLength \in Nat \ {0} /\ MaxValue \in Nat \ {0}
                              /\ MaxPlain \in Nat /\ MaxSteps \in Nat
                              /\ IntMax \in Nat /\ IntMax >= 90 /\ MaxNumeral \in Nat
\* "m is an integer and 1 <= m <= 100" (decompress.cpp:5).
ASSUME CountsAssumption == Counts \subseteq 1 .. 100

VARIABLES
  array,   \* the array, and the one it was
  stack,   \* quick_sort: the parts whose call has not begun, the next one first
  part,    \* quick_sort: the part it works on, with left and right; << >> if none
  packed,  \* a compressed text, and the text it stands for
  numeral  \* the text that is converted to a number

qsVars == <<array, stack, part>>

\* swap by three exclusive ors: an element swapped with itself becomes 0.
Swap(a, i, j) == IF i = j THEN [a EXCEPT ![i] = 0] ELSE [a EXCEPT ![i] = a[j], ![j] = a[i]]

-----------------------------------------------------------------------------
(* heap_sort *)

\* One node and its children: the largest, or the least, comes up.
Lift(a, i, child, last, asc) ==
  IF child <= last /\ (IF asc THEN a[i] < a[child] ELSE a[i] > a[child])
    THEN Swap(a, i, child) ELSE a

Sift(a, i, last, asc) == Lift(Lift(a, i, 2 * i, last, asc), i, 2 * i + 1, last, asc)

\* heap_adjust: one pass from the last parent to the root, which goes to the end.
HeapAdjust(a, last, asc) ==
  LET pass == FoldLeft(LAMBDA b, i : Sift(b, i, last, asc), a,
                       Reverse([i \in 1 .. last \div 2 |-> i]))
  IN  Swap(pass, 1, last)

HeapSort(a, asc) ==
  FoldLeft(LAMBDA b, last : HeapAdjust(b, last, asc), a,
           Reverse([k \in 1 .. Len(a) - 1 |-> k + 1]))

-----------------------------------------------------------------------------
(* quick_sort *)

\* The call for the next part: a part of fewer than two elements returns.
QuickCall ==
  /\ part = << >> /\ stack # << >>
  /\ LET begin == Head(stack)[1]
         end == Head(stack)[2]
     IN  part' = IF begin >= end THEN << >>
                 ELSE <<[begin |-> begin, end |-> end, left |-> begin + 1, right |-> end]>>
  /\ stack' = Tail(stack)
  /\ UNCHANGED array

\* The two inner loops; the pivot is the first element.
ScanLeft(p) == Min({k \in p.left .. p.end : k = p.end \/ array.now[k] >= array.now[p.begin]})
ScanRight(p) == Max({k \in p.begin .. p.right : k = p.begin \/ array.now[k] <= array.now[p.begin]})

\* Mutant: the pivot goes to the left of the two.
PivotPlace_Left(l, r) == l

\* The element the pivot changes places with when the scans have met.
PivotPlace(l, r) == r

\* One iteration of the outer loop.  When the scans have met, the pivot is put in
\* its place and the two sides are sorted; otherwise two elements change sides, and
\* neither index moves on past them.
QuickStep ==
  /\ part # << >>
  /\ LET p == part[1]
         l == ScanLeft(p)
         r == ScanRight(p)
     IN  IF l >= r
           THEN /\ array' = [array EXCEPT !.now = Swap(@, p.begin, PivotPlace(l, r))]
                /\ stack' = <<<<p.begin, r - 1>>, <<r + 1, p.end>>>> \o stack
                /\ part' = << >>
           ELSE /\ array' = [array EXCEPT !.now = Swap(@, l, r)]
                /\ part' = <<[p EXCEPT !.left = l, !.right = r]>>
                /\ UNCHANGED stack

-----------------------------------------------------------------------------
(* decompression: [m|S] stands for m times S. *)

DigitsOf == <<"0", "1", "2", "3", "4", "5", "6", "7", "8", "9">>
DigitValue(c) == (CHOOSE d \in 1 .. 10 : DigitsOf[d] = c) - 1
Number(digits) == FoldLeft(LAMBDA n, c : 10 * n + DigitValue(c), 0, digits)
Numeral[m \in Nat] == (IF m < 10 THEN << >> ELSE Numeral[m \div 10]) \o <<DigitsOf[(m % 10) + 1]>>

Times(m, s) == [k \in 1 .. m * Len(s) |-> s[((k - 1) % Len(s)) + 1]]

\* char buf[3]: two digits leave room for the null character that ends them.  Behind
\* the third digit atoi reads on in what lies behind the array, where it finds the
\* digits beyond; a build with the address sanitizer stops there instead.
BufSize == 3
Copied(digits, beyond) == Number(IF Len(digits) < BufSize THEN digits ELSE digits \o beyond)

\* What a closing bracket makes of the stack: the number in front of the bar that
\* follows the last opening bracket, and the text behind it.
Unpack(deq, beyond) ==
  LET open == Max({k \in DOMAIN deq : deq[k] = "["})
      ss == SubSeq(deq, open + 1, Len(deq))
      bar == Min({k \in DOMAIN ss : ss[k] = "|"})
      m == Copied(SubSeq(ss, 1, bar - 1), beyond)
  IN  SubSeq(deq, 1, open - 1) \o Times(m, SubSeq(ss, bar + 1, Len(ss)))

Decompression(s, beyond) ==
  FoldLeft(LAMBDA deq, c : IF c = "]" THEN Unpack(deq, beyond) ELSE Append(deq, c), << >>, s)

-----------------------------------------------------------------------------
(* atoi: blanks, a sign and digits; whatever follows them is not looked at.  *)

\* The position of the first character that is not in chars.
PastAll(s, from, chars) == Min({k \in from .. Len(s) : s[k] \notin chars} \cup {Len(s) + 1})

SignAt(s) == PastAll(s, 1, {" "})
IsNegative(s) == SignAt(s) <= Len(s) /\ s[SignAt(s)] = "-"
DigitsAt(s) == IF SignAt(s) <= Len(s) /\ s[SignAt(s)] \in {"+", "-"} THEN SignAt(s) + 1 ELSE SignAt(s)
DigitsIn(s) == SubSeq(s, DigitsAt(s), PastAll(s, DigitsAt(s), Range(DigitsOf)) - 1)

Saturated(neg) == IF neg THEN -IntMax - 1 ELSE IntMax

\* Mutant: the digit is not looked at.
Full_AnyDigit(ret, n) == ret > IntMax \div 10

\* ret leaves no room for the digit n, which is subtracted as if it were a tenfold.
Full(ret, n) == ret > (IntMax \div 10) - n

\* One digit after the other, until there is no room for one.
Atoi(s) ==
  LET neg == IsNegative(s)
      more(r, c) == IF r.full THEN r
                    ELSE IF Full(r.ret, DigitValue(c)) THEN [ret |-> Saturated(neg), full |-> TRUE]
                    ELSE [r EXCEPT !.ret = 10 * @ + DigitValue(c)]
      ret == FoldLeft(more, [ret |-> 0, full |-> FALSE], DigitsIn(s)).ret
  IN  IF neg /\ ret # Saturated(TRUE) THEN -ret ELSE ret

-----------------------------------------------------------------------------
(* Inputs: all arrays, and texts that are compressed in every nesting. *)

Arrays == UNION {[1 .. n -> 1 .. MaxValue] : n \in 1 .. MaxLength}

QuickInit == \E a \in Arrays : /\ array = [input |-> a, now |-> a]
                              /\ stack = <<<<1, Len(a)>>>> /\ part = << >>
QuickNext == QuickCall \/ QuickStep
QuickSpec == QuickInit /\ [][QuickNext]_qsVars /\ WF_qsVars(QuickNext)

Chars == {"A", "1"}
Beyonds == {<< >>, <<"7">>}
Pack(m, s) == <<"[">> \o Numeral[m] \o <<"|">> \o s \o <<"]">>

PackInit == packed = [text |-> << >>, plain |-> << >>, steps |-> 0]

\* The text becomes s, which stands for plain.
Becomes(s, plain) ==
  /\ packed.steps < MaxSteps /\ Len(plain) <= MaxPlain
  /\ packed' = [text |-> s, plain |-> plain, steps |-> packed.steps + 1]

\* It goes on with s, before or behind it.
Extend(s, plain) == \/ Becomes(packed.text \o s, packed.plain \o plain)
                    \/ Becomes(s \o packed.text, plain \o packed.plain)

PackNext == \/ \E c \in Chars : Extend(<<c>>, <<c>>)
            \/ \E c \in Chars, m \in Counts : Extend(Pack(m, <<c>>), Times(m, <<c>>))
            \/ \E m \in Counts : Becomes(Pack(m, packed.text), Times(m, packed.plain))

AtoiInit == numeral = << >>
AtoiNext == /\ Len(numeral) < MaxNumeral
            /\ \E c \in {" ", "+", "-", "x", "0", "1", "2", "9"} : numeral' = Append(numeral, c)

-----------------------------------------------------------------------------
(* Correctness. *)

\* One pass brings the extreme element of the rest to the root, so that heap_sort
\* sorts in both directions, equal elements included (heap_sort.cpp:14-63).
HeapSorts == /\ HeapSort(array.input, TRUE) = SortSeq(array.input, <)
             /\ HeapSort(array.input, FALSE) = SortSeq(array.input, >)

Returned == stack = << >> /\ part = << >>

\* x is the k-th least element of s.
IsKth(s, k, x) == /\ Cardinality({i \in DOMAIN s : s[i] < x}) < k
                  /\ Cardinality({i \in DOMAIN s : s[i] <= x}) >= k

\* Every element is in its place, or was cleared to 0 by being swapped with itself, as
\* happens to a pivot that is the least of its part.
Placed == \A k \in DOMAIN array.now : array.now[k] = 0 \/ IsKth(array.input, k, array.now[k])

\* quick_sort returns for every array without equal elements (three equal ones make it
\* swap two of them for ever), and whenever it returns the elements are placed
\* (quicksort.cpp:4-48).
QuickSorts == IsInjective(array.input) \/ Returned ~> Returned /\ Placed

\* decompression undoes compression, nested and in any place of the text, digits in
\* the compressed text included, whatever lies in memory behind its buffer
\* (decompress.cpp:5-72).
Decompressed == \A beyond \in Beyonds : Decompression(packed.text, beyond) = packed.plain

\* atoi never overflows: it returns the number or the limit of its sign, and the limit
\* only for numbers that are at most 90 away from it (core/string/string_util.cpp:28-40;
\* the last numbers before the limit are rounded up to it, 2147483645 among them).
AtoiSaturates ==
  LET digits == DigitsIn(numeral)
      abs == MapThenSumSet(LAMBDA k : DigitValue(digits[k]) * 10^(Len(digits) - k), DOMAIN digits)
      value == IF IsNegative(numeral) THEN -abs ELSE abs
  IN  \/ Atoi(numeral) = value /\ abs <= IntMax
      \/ Atoi(numeral) = Saturated(IsNegative(numeral)) /\ abs > IntMax - 90

\* The functions agree with their reference definitions.
FunctionsAgree == HeapSorts /\ Decompressed /\ AtoiSaturates
=============================================================================
