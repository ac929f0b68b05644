------------------------------- MODULE Globs --------------------------------
(***************************************************************************)
(* The pattern matcher of ssh-agent-filter (policy.rs: glob), translated,  *)
(* and what its comment says of it, as a definition.  A text is a sequence *)
(* of characters.                                                          *)
(***************************************************************************)
EXTENDS Integers, Sequences, SequencesExt

Star == "*"

IsText(t) == t \in Seq({t[i] : i \in DOMAIN t})

\* str::split on `*`: the runs between the stars, one more than there are.
Cut(parts, c) ==
  IF c = Star THEN Append(parts, <<>>)
  ELSE [parts EXCEPT ![Len(parts)] = Append(@, c)]

Split(pattern) == FoldLeft(Cut, << <<>> >>, pattern)

\* Where a part is found in a text, as lengths of what is before it.
Places(text, part) ==
  {i \in 0 .. Len(text) - Len(part) : SubSeq(text, i + 1, i + Len(part)) = part}

\* str::find and what is left after it: the leftmost place, or no match.
NoMatch == [matched |-> FALSE, rest |-> <<>>]

After(left, part) ==
  LET places == Places(left.rest, part)
  IN  IF ~ left.matched \/ places = {} THEN NoMatch
      ELSE LET i == CHOOSE i \in places : \A j \in places : i <= j
           IN  [matched |-> TRUE,
                rest |-> SubSeq(left.rest, i + Len(part) + 1, Len(left.rest))]

AfterAll(left, parts) == FoldLeft(After, left, parts)

Glob(pattern, text) ==
  LET parts == Split(pattern)
      first == parts[1]
      left == AfterAll([matched |-> IsPrefix(first, text),
                        rest |-> SubSeq(text, Len(first) + 1, Len(text))],
                       Tail(parts))
  IN  left.matched /\ (left.rest = <<>> \/ (Len(parts) > 1 /\ Last(parts) = <<>>))

\* upto[i] is how much of the text the first i characters of the pattern make:
\* a star any run of it, any other character itself.
Makes(upto, pattern, text, n) ==
  /\ upto[0] = 0
  /\ \A i \in 1 .. n :
       IF pattern[i] = Star THEN upto[i - 1] <= upto[i]
       ELSE upto[i] = upto[i - 1] + 1 /\ text[upto[i]] = pattern[i]

\* The definition: some run of the text for every star makes the text.
GlobMeans(pattern, text) ==
  \E upto \in [0 .. Len(pattern) -> 0 .. Len(text)] :
    Makes(upto, pattern, text, Len(pattern)) /\ upto[Len(pattern)] = Len(text)
=============================================================================
