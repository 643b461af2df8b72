------------------------------ MODULE Utf8Checker ------------------------------
(***************************************************************************)
(* The validator of UTF-8 texts (utf8_checker) and utf8string_check(),     *)
(* which every text of a packet goes through.  A text is a sequence of     *)
(* octets; the validator keeps the octets of a code point that is not      *)
(* complete (cp_, need_), so that a text may be written in several parts.  *)
(***************************************************************************)
EXTENDS Naturals, Sequences

WordOctets == 8             \* sizeof(std::size_t)
Alignments == 0..(WordOctets - 1)   \* octets up to the next aligned address

From(s, n) == SubSeq(s, n + 1, Len(s))
Cont(o) == o \in 128..191
Ascii(s) == \A i \in 1..Len(s) : s[i] < 128

\* A mutant of Valid3: surrogates pass.
Valid3Surrogates(s) == Cont(s[2]) /\ Cont(s[3]) /\ ~(s[1] = 224 /\ s[2] < 160)

\* valid(), per length of the code point; of a prefix of it fail_fast() looks at what
\* there is.
Valid2(s) == Cont(s[2]) /\ s[1] \notin {192, 193}
Valid3(s) ==
  Cont(s[2]) /\ Cont(s[3]) /\ ~(s[1] = 224 /\ s[2] < 160) /\ ~(s[1] = 237 /\ s[2] >= 160)
Valid4(s) ==
  /\ s[1] \in 240..244 /\ Cont(s[2]) /\ Cont(s[3]) /\ Cont(s[4])
  /\ ~(s[1] = 240 /\ s[2] < 144) /\ ~(s[1] = 244 /\ s[2] > 143)

Needed(o) == CASE o < 128 -> 1 [] o \in 192..223 -> 2 [] o \in 224..239 -> 3
               [] o \in 240..247 -> 4 [] OTHER -> 0

\* The octets of the code point s begins with; 0 if it is not valid.
ValidSize(s) ==
  CASE Needed(s[1]) = 1 -> 1
    [] Needed(s[1]) = 2 /\ Valid2(s) -> 2
    [] Needed(s[1]) = 3 /\ Valid3(s) -> 3
    [] Needed(s[1]) = 4 /\ Valid4(s) -> 4
    [] OTHER -> 0

\* One to three octets that cannot be continued.
FailFast(s) ==
  LET bad == \/ Len(s) > 1 /\ ~Cont(s[2])
             \/ Len(s) > 2 /\ ~Cont(s[3])
      within(o, set) == Len(s) > 1 /\ s[1] = o /\ s[2] \in set
  IN  CASE Needed(s[1]) = 2 -> bad \/ s[1] \in {192, 193}
        [] Needed(s[1]) = 3 -> bad \/ within(224, 128..159) \/ within(237, 160..191)
        [] Needed(s[1]) = 4 -> bad \/ s[1] \notin 240..244 \/ within(240, 128..143)
                                   \/ within(244, 144..255)
        [] OTHER -> s[1] >= 128

Empty == [ok |-> TRUE, need |-> 0, cp |-> <<>>]
Bad(c) == [c EXCEPT !.ok = FALSE]
Partial(s, need) == [ok |-> ~FailFast(s), need |-> need, cp |-> s]

\* The last octets of what is written, which may end within a code point.
RECURSIVE WriteTail(_)
WriteTail(s) ==
  IF s = <<>> THEN Empty
  ELSE IF Needed(s[1]) = 0 THEN Bad(Empty)
  ELSE IF Needed(s[1]) > Len(s) THEN Partial(s, Needed(s[1]) - Len(s))
  ELSE IF ValidSize(s) = 0 THEN Bad(Empty)
  ELSE WriteTail(From(s, ValidSize(s)))

\* The slow loop: code points until three octets are left.
RECURSIVE WriteSlow(_)
WriteSlow(s) ==
  IF Len(s) <= 3 THEN WriteTail(s)
  ELSE IF ValidSize(s) = 0 THEN Bad(Empty) ELSE WriteSlow(From(s, ValidSize(s)))

\* The fast loop: words of ASCII.
RECURSIVE WriteFast(_)
WriteFast(s) ==
  IF Len(s) >= WordOctets /\ Ascii(SubSeq(s, 1, WordOctets))
  THEN WriteFast(From(s, WordOctets)) ELSE WriteSlow(s)

\* A long text: octets of ASCII up to an aligned address before the fast loop.
WriteAligned(s, a) ==
  LET wide == {i \in 1..a : s[i] >= 128}
  IN  IF wide = {} THEN WriteFast(From(s, a))
      ELSE WriteSlow(From(s, (CHOOSE i \in wide : \A j \in wide : i <= j) - 1))

WriteNew(s, a) == IF Len(s) <= WordOctets THEN WriteSlow(s) ELSE WriteAligned(s, a)

\* write(): first the code point an earlier call left incomplete.
Write(c, s, a) ==
  LET n == IF Len(s) < c.need THEN Len(s) ELSE c.need
      cp == c.cp \o SubSeq(s, 1, n)
  IN  IF c.need = 0 THEN WriteNew(s, a)
      ELSE IF n < c.need THEN Partial(cp, c.need - n)
      ELSE IF ValidSize(cp) = 0 THEN Bad(Empty) ELSE WriteNew(From(s, n), a)

Finish(c) == c.need = 0

\* utf8string_check() of a text at an address a octets before an aligned one.
Complete(c) == c.ok /\ Finish(c)
Utf8StringCheck(t, a) == t = <<>> \/ Complete(Write(Empty, t, a))

\* The same text in two parts.
Continued(c, t, a) == c.ok /\ Complete(Write(c, t, a))
InTwoParts(t, k, a) == Continued(Write(Empty, SubSeq(t, 1, k), a), From(t, k), a)

-----------------------------------------------------------------------------
(* What UTF-8 is: each code point is encoded by the shortest sequence of   *)
(* octets, up to 10FFFF and without the surrogates D800..DFFF.             *)

Scalar(v) == v \in 0..1114111 /\ v \notin 55296..57343
Decoded(s) ==
  CASE Len(s) = 1 -> s[1]
    [] Len(s) = 2 -> (s[1] - 192) * 64 + s[2] - 128
    [] Len(s) = 3 -> (s[1] - 224) * 4096 + (s[2] - 128) * 64 + s[3] - 128
    [] Len(s) = 4 -> (s[1] - 240) * 262144 + (s[2] - 128) * 4096 + (s[3] - 128) * 64 + s[4] - 128
Lead == <<0..127, 192..223, 224..239, 240..247>>
Least == <<0, 128, 2048, 65536>>
Encodes(s) ==
  /\ Len(s) \in 1..4 /\ s[1] \in Lead[Len(s)] /\ \A i \in 2..Len(s) : Cont(s[i])
  /\ Decoded(s) >= Least[Len(s)] /\ Scalar(Decoded(s))

RECURSIVE WellFormed(_)
WellFormed(t) ==
  t = <<>> \/ \E n \in 1..4 :
    n <= Len(t) /\ Encodes(SubSeq(t, 1, n)) /\ WellFormed(From(t, n))
=============================================================================
