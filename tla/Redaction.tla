------------------------------ MODULE Redaction ------------------------------
(***************************************************************************)
(* What is taken out of a text before it is kept or shown: the key, the    *)
(* secrets that are known, and what looks like one (redact_sensitive,      *)
(* secret_spans, merge_spans and has_secret of prompt.rs).                 *)
(*                                                                         *)
(* A text is a sequence of symbols, and a stretch of it the pair of the    *)
(* place before its first symbol and the place of its last.  A prefix of a *)
(* token (hm_dev_, sk-) is its letter and a dash; a keyword (password,     *)
(* token) the letter k; a known secret the symbol Needle; what takes the   *)
(* place of a secret the symbol Stars.  Letters run on, as the code's      *)
(* searches do, into prefixes and keywords.                                *)
(***************************************************************************)
EXTENDS Integers, Sequences, SequencesExt, FiniteSets

CONSTANTS Chunks,        \* what a text is put together from
          MaxChunks,     \* bound: how many of them
          TokenLetters,  \* the letters that begin a prefix
          TokenMin,      \* by prefix: how long a token is at least
          ValueMin       \* how long the value after a keyword is at least

ASSUME LengthsAssumption == ValueMin > 1 /\ \A p \in TokenLetters : TokenMin[p] > 0

Needle == "n"
Stars == "*"

VARIABLES text, chunks, shown  \* the text, how much was written, and what is shown of it

RedactionVars == << text, chunks, shown >>

Alphanumeric == TokenLetters \cup {"a", "k"}
Visible(t) == {t[i] : i \in DOMAIN t} \ {" "}

\* The place after the longest run of symbols of one kind.
RunEnd(t, from, kind) ==
  CHOOSE e \in from..Len(t) :
    (\A i \in from + 1..e : t[i] \in kind) /\ (e < Len(t) => t[e + 1] \notin kind)

TokensOf(t) ==
  {<< i - 1, RunEnd(t, i + 1, Alphanumeric) >> :
     i \in {j \in 1..Len(t) - 1 :
              /\ t[j] \in TokenLetters /\ t[j + 1] = "-"
              /\ RunEnd(t, j + 1, Alphanumeric) - (j + 1) >= TokenMin[t[j]]}}

\* Where the value after the keyword at i begins: beyond spaces, a sign and spaces.
ValueStart(t, i) ==
  LET sign == RunEnd(t, i, {" "}) + 1
  IN IF sign <= Len(t) /\ t[sign] = "=" THEN RunEnd(t, sign, {" "}) ELSE Len(t)
ValueEnd(t, i) == RunEnd(t, ValueStart(t, i), Visible(t))

ValuesOf(t) ==
  {<< ValueStart(t, i), ValueEnd(t, i) >> :
     i \in {j \in 1..Len(t) : t[j] = "k" /\ ValueEnd(t, j) - ValueStart(t, j) >= ValueMin}}

Sorted(spans) ==
  SetToSortSeq(spans, LAMBDA a, b : a[1] < b[1] \/ (a[1] = b[1] /\ a[2] < b[2]))

JoinLatest(merged, span) ==
  IF merged # << >> /\ span[1] <= merged[Len(merged)][2]
  THEN [merged EXCEPT ![Len(merged)][2] = span[2]]
  ELSE Append(merged, span)

\* merge_spans, one span.
Join(merged, span) ==
  IF merged # << >> /\ span[1] <= merged[Len(merged)][2]
  THEN [merged EXCEPT ![Len(merged)][2] = IF @ < span[2] THEN span[2] ELSE @]
  ELSE Append(merged, span)

SecretSpans(t) == FoldLeft(Join, << >>, Sorted(TokensOf(t) \cup ValuesOf(t)))

WithoutNeedles(t) == [i \in DOMAIN t |-> IF t[i] = Needle THEN Stars ELSE t[i]]

\* The loop of redact_sensitive: what is kept so far, and where the rest begins.
Cut(t, sofar, span) ==
  [kept |-> sofar.kept \o SubSeq(t, sofar.last + 1, span[1]) \o << Stars >>, last |-> span[2]]
Redact(t) ==
  LET plain == WithoutNeedles(t)
      cut == FoldLeft(LAMBDA sofar, span : Cut(plain, sofar, span),
                      [kept |-> << >>, last |-> 0], SecretSpans(plain))
  IN cut.kept \o SubSeq(plain, cut.last + 1, Len(plain))

HasSecret(t) == Contains(t, Needle) \/ SecretSpans(t) # << >>

-----------------------------------------------------------------------------
RedactionInit == text = << >> /\ chunks = 0 /\ shown = << >>

TextGrows ==
  /\ chunks < MaxChunks /\ chunks' = chunks + 1
  /\ \E c \in Chunks : text' = text \o c
  /\ shown' = Redact(text')

RedactionNext == TextGrows
RedactionSpec == RedactionInit /\ [][RedactionNext]_RedactionVars

RedactionTypeOK == text \in Seq(STRING) /\ shown \in Seq(STRING) /\ chunks \in 0..MaxChunks

\* What is shown holds no secret by the rules the audit goes by, and everything else of
\* the text: each longest stretch that some token, value or needle covers is one mark.
ShownIsClean ==
  LET plain == WithoutNeedles(text)
      covered == UNION {s[1] + 1..s[2] : s \in TokensOf(plain) \cup ValuesOf(plain)}
      left == SelectSeq([i \in DOMAIN plain |-> i],
                        LAMBDA i : i \in covered => i - 1 \notin covered)
  IN /\ ~HasSecret(shown)
     /\ shown = [n \in DOMAIN left |-> IF left[n] \in covered THEN Stars ELSE plain[left[n]]]
=============================================================================
