----------------------------- MODULE MCMessages -----------------------------
EXTENDS Messages

\* A frame of n bits and the type, with ones at the places given; a last
\* incomplete byte is zero, as the deframer leaves it.
Frame(type, n, ones) ==
  [i \in 1 .. n |->
     IF i <= 6 THEN (type \div (2 ^ (6 - i))) % 2
     ELSE IF i \in ones /\ i <= 8 * (n \div 8) THEN 1 ELSE 0]

\* Lengths around one and two sentences, and the longest the deframer hands
\* over, 426.
Lengths == {6, 8, 72, 360, 361, 366, 367, 368, 424, 426}

\* For the sentences: single bits, which the conversion treats alike, at the
\* edges of letters and sentences, and all ones.
ForSentences ==
  {Frame(5, n, ones) : n \in Lengths, ones \in {{}, {7}, {352}, {366, 367}, {424}, 7 .. 426}}

\* For the fields: every type, and some that are not supported; the parts of
\* type 24; the applications of 6 and 8 (tide and weather, persons, another
\* one, another area); as many acknowledgements and reservations as there is
\* room for.
ForFields ==
  {Frame(t, 168, {}) : t \in 0 .. 26}
    \cup {Frame(24, 168, ones) : ones \in {{40}, {39}, {39, 40}}}
    \cup {Frame(6, 312, ones) : ones \in {{82, 85, 87, 88}, {82, 83, 85}, {82}, {81, 83, 85}}}
    \cup {Frame(8, 312, ones) : ones \in {{50, 53, 55, 56}, {50, 51, 53}, {50}, {49, 51, 53}}}
    \cup {Frame(t, n, {}) : t \in {7, 13, 20}, n \in {64, 72, 96, 104, 136, 160, 200}}

MCFrames == ForSentences \cup ForFields
=============================================================================
