-------------------------- MODULE MCRequestStream --------------------------
EXTENDS RequestProperties

CONSTANTS a, b, m, o, MixedMax, LinesMax

\* Everything that up to n of the pieces can spell.
Spell(pieces, n) ==
  LET Cat[p \in Seq(pieces)] ==
        IF p = <<>> THEN <<>> ELSE Cat[Front(p)] \o Last(p)
  IN  {Cat[p] : p \in UNION {[1..k -> pieces] : k \in 0..n}}

\* A whole command, every separator, and the bytes that spoil a line.
Mixed ==
  {<<a, b, a, a>>, <<a, b, a, a, SP>>, <<a>>, <<m>>, <<SP>>, <<CR>>, <<LF>>,
   <<CR, LF>>, <<o>>}

\* Whole lines, good and bad, for pipelining.
Lines ==
  {<<a, a, a, a, CR, LF>>, <<b, b, b, b, SP, m, CR, LF>>,
   <<a, CR, LF>>, <<b, b, b, b, SP, CR>>}

MixedAndLines == Spell(Mixed, MixedMax) \cup Spell(Lines, LinesMax)
=============================================================================
