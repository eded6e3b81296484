-------------------------------- MODULE Caps --------------------------------
(***************************************************************************)
(* The MCP tools' answers: cap_response fits a list of observations into a *)
(* budget of tokens, one after the other.  An observation is the length of *)
(* its JSON without the content, of its content, and what a character of   *)
(* the content costs in JSON (an escaped one 2 or 6).                      *)
(***************************************************************************)
EXTENDS Naturals, Sequences

CONSTANTS
  CharsPerToken,
  Marker,        \* the length of _TRUNCATION_MARKER; its newline costs 2
  Annotation,    \* the length of _truncated and _full_content_tokens in JSON
  MaxTokens,     \* bound: the budget asked for
  MaxList,       \* bound: the observations of an answer
  Metas,         \* lengths without the content
  Lengths,       \* lengths of contents
  Costs          \* what a character costs

ASSUME CapsAssumption ==
  /\ CharsPerToken \in Nat \ {0} /\ Marker \in Nat \ {0} /\ Annotation \in Nat
  /\ MaxTokens \in Nat /\ MaxList \in Nat
  /\ Metas \subseteq Nat /\ Lengths \subseteq Nat /\ Costs \subseteq Nat \ {0}

VARIABLES
  asked,      \* max_tokens
  listed,     \* the observations
  answered,   \* what each of those looked at became
  remaining   \* remaining_chars

capsVars == <<asked, listed, answered, remaining>>

-----------------------------------------------------------------------------

Serialized == [meta : Metas, content : Lengths, cost : Costs]

JsonSize(o) == o.meta + o.content * o.cost
Overhead(o) == o.meta + Annotation

Larger(a, b) == IF a > b THEN a ELSE b
Smaller(a, b) == IF a < b THEN a ELSE b
Minus(a, b) == IF a > b THEN a - b ELSE 0

\* How an observation is answered: whole, cut or not at all, and its size.
Answer == [how : {"whole", "cut", "skipped"}, size : Nat]

CapsTypeOK ==
  /\ asked \in 0..MaxTokens
  /\ listed \in Seq(Serialized) /\ Len(listed) <= MaxList
  /\ answered \in Seq(Answer) /\ Len(answered) <= Len(listed)
  /\ remaining \in 0..(asked * CharsPerToken)

CapsInit ==
  /\ asked \in 0..MaxTokens
  /\ listed \in UNION {[1..n -> Serialized] : n \in 0..MaxList}
  /\ answered = <<>>
  /\ remaining = asked * CharsPerToken

\* The observation looked at.
Looks == remaining > 0 /\ Len(answered) < Len(listed)
Looked == listed[Len(answered) + 1]

AnswerWith(how, size, left) ==
  /\ answered' = Append(answered, [how |-> how, size |-> size])
  /\ remaining' = left
  /\ UNCHANGED <<asked, listed>>

-----------------------------------------------------------------------------

TakeWhole ==
  /\ Looks /\ JsonSize(Looked) <= remaining
  /\ AnswerWith("whole", JsonSize(Looked), remaining - JsonSize(Looked))

\* Not even an empty content fits: the next one may.
SkipLarge ==
  /\ Looks /\ JsonSize(Looked) > remaining /\ Overhead(Looked) >= remaining
  /\ AnswerWith("skipped", 0, remaining)

\* The JSON of the first n characters of a content and the marker: kept ones
\* and then the marker, whose first character is the newline.
CutSize(o, kept, n) ==
  Overhead(o) + Smaller(n, kept) * o.cost + (IF n > kept THEN n - kept + 1 ELSE 0)

\* Mutant: the size after escaping is not looked at.
Unverified(o, room) ==
  LET safe == Minus(room - Overhead(o), 2)
      kept == IF safe >= Marker THEN Smaller(o.content, safe - Marker) ELSE Smaller(o.content, safe)
  IN CutSize(o, kept, IF safe >= Marker THEN kept + Marker ELSE kept)

\* The content is cut to what is left, with the marker if that fits; when the
\* escapes make it too large it is cut again, from its end, then to what would
\* fit without escapes, then to nothing.
Truncated(o, room) ==
  LET safe == Minus(room - Overhead(o), 2)
      kept == IF safe >= Marker THEN Smaller(o.content, safe - Marker)
              ELSE Smaller(o.content, safe)
      size == IF safe >= Marker THEN kept + Marker ELSE kept
      first == CutSize(o, kept, size)
      second == CutSize(o, kept, Minus(size, Larger((first - room) + 4, size \div 4)))
      third == CutSize(o, o.content, Smaller(o.content, Minus(safe, Marker)))
  IN IF safe = 0 THEN Overhead(o)
     ELSE IF first <= room THEN first
     ELSE IF second <= room THEN second
     ELSE IF third <= room THEN third
     ELSE Overhead(o)

\* The last one, and nothing after it.
TakeCut ==
  /\ Looks /\ JsonSize(Looked) > remaining /\ Overhead(Looked) < remaining
  /\ AnswerWith("cut", Truncated(Looked, remaining), 0)

CapsNext == TakeWhole \/ SkipLarge \/ TakeCut

CapsSpec == CapsInit /\ [][CapsNext]_capsVars

-----------------------------------------------------------------------------
(* Properties *)

SizeOf[s \in Seq(Answer)] == IF s = <<>> THEN 0 ELSE Head(s).size + SizeOf[Tail(s)]

\* "Fit serialized observation dicts within max_tokens budget": whatever
\* escapes a content has and however many observations were cut or skipped,
\* the JSON of those answered fits.
CapWithinBudget == SizeOf[answered] <= asked * CharsPerToken

\* Only the last one answered is cut, and none is skipped that would fit after
\* the ones before it with its content cut to nothing.
CutIsLast ==
  \A n \in DOMAIN answered :
    /\ answered[n].how = "cut" => n = Len(answered)
    /\ answered[n].how = "skipped" =>
         SizeOf[SubSeq(answered, 1, n - 1)] + Overhead(listed[n]) >= asked * CharsPerToken

\* "Budget accounts for the FULL serialized JSON (keys, metadata, syntax)":
\* the JSON of the list, with its brackets and separators.
ListWithinBudget ==
  LET taken == {n \in DOMAIN answered : answered[n].how # "skipped"}
  IN taken # {} => SizeOf[answered] + 2 <= asked * CharsPerToken

=============================================================================
