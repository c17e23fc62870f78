---------------------------- MODULE CommandTexts ----------------------------
(***************************************************************************)
(* Commands as they are typed, "/name word ...", and what the command rule *)
(* makes of them (core/rules.go).  A text is a sequence of characters; a   *)
(* letter has no case here.  A blank is a space, a tab or the end of a     *)
(* line; other white space, which cuts a name off but does not part words, *)
(* is left out.                                                            *)
(***************************************************************************)
EXTENDS Integers, SequencesExt, FiniteSetsExt

CONSTANTS
  Letters,     \* characters without a meaning
  Marks,    \* what a command may start with, a character each
  Blank, Backslash,
  Quotes,
  Bare         \* neither a quote nor a character: no quotes

Characters == Letters \cup Marks \cup {Blank, Backslash} \cup Quotes

ASSUME CommandTextsAssumption ==
  /\ Marks \cap ({Blank, Backslash} \cup Quotes) = {}
  /\ Letters \cap (Marks \cup {Blank, Backslash} \cup Quotes) = {}
  /\ {Blank, Backslash} \cap Quotes = {} /\ Blank # Backslash
  /\ Bare \notin Characters

-----------------------------------------------------------------------------
\* What a user types for a name and words: between quotes, or without, a
\* backslash before each character that has a meaning there.

Special(c, style) ==
  IF style = Bare THEN c \in {Blank, Backslash} \cup Quotes
  ELSE c \in {style, Backslash}

Escaped(word, style) ==
  FlattenSeq([i \in DOMAIN word |->
                IF Special(word[i], style) THEN <<Backslash, word[i]>>
                ELSE <<word[i]>>])

Typed(word, style) ==
  IF style = Bare THEN Escaped(word, style)
  ELSE <<style>> \o Escaped(word, style) \o <<style>>

Rest(words, style) ==
  FlattenSeq([i \in DOMAIN words |-> <<Blank>> \o Typed(words[i], style)])

Text(typed) == <<typed.prefix>> \o typed.name \o Rest(typed.words, typed.style)

\* Without quotes there is no empty word, and a blank at the end is not seen.
Typable(words, style) ==
  style = Bare =>
    /\ \A i \in DOMAIN words : words[i] # <<>>
    /\ words # <<>> => Last(Last(words)) # Blank

-----------------------------------------------------------------------------
Trim(text) ==
  LET ink == {i \in DOMAIN text : text[i] # Blank} IN
  IF ink = {} THEN <<>> ELSE SubSeq(text, Min(ink), Max(ink))

\* cutCommand.
Cut(text) ==
  LET blanks == {i \in DOMAIN text : text[i] = Blank}
      end == IF blanks = {} THEN Len(text) + 1 ELSE Min(blanks) IN
  [name |-> SubSeq(text, 1, end - 1),
   args |-> Trim(SubSeq(text, end, Len(text)))]

\* splitArgv: the words so far and the one that is read, which is a word when
\* something of it has been seen, be it only its quotes.
Start == [out |-> <<>>, word |-> <<>>, seen |-> FALSE, quote |-> Bare,
          escaped |-> FALSE]

Grow(at, c) == [at EXCEPT !.word = Append(@, c), !.seen = TRUE, !.escaped = FALSE]

Flush(at) ==
  IF at.seen
  THEN [at EXCEPT !.out = Append(@, at.word), !.word = <<>>, !.seen = FALSE]
  ELSE at

\* Faulty: quotes alone are no word.
ReadLosingEmpty(at, c) ==
  IF at.escaped THEN Grow(at, c)
  ELSE IF c = Backslash THEN [at EXCEPT !.escaped = TRUE, !.seen = TRUE]
  ELSE IF c = at.quote THEN [at EXCEPT !.quote = Bare]
  ELSE IF at.quote # Bare THEN Grow(at, c)
  ELSE IF c \in Quotes THEN [at EXCEPT !.quote = c]
  ELSE IF c = Blank THEN Flush(at)
  ELSE Grow(at, c)

Read(at, c) ==
  IF at.escaped THEN Grow(at, c)
  ELSE IF c = Backslash THEN [at EXCEPT !.escaped = TRUE, !.seen = TRUE]
  ELSE IF c = at.quote THEN [at EXCEPT !.quote = Bare, !.seen = TRUE]
  ELSE IF at.quote # Bare THEN Grow(at, c)
  ELSE IF c \in Quotes THEN [at EXCEPT !.quote = c, !.seen = TRUE]
  ELSE IF c = Blank THEN Flush(at)
  ELSE Grow(at, c)

SplitArgv(args) ==
  LET end == FoldLeft(Read, Start, Trim(args))
  IN Flush(IF end.escaped THEN Grow(end, Backslash) ELSE end).out

\* CommandWithMarks.  A command without names takes every name.
Marked(text) == Trim(text) # <<>> /\ Head(Trim(text)) \in Marks
Command(text) == Cut(Trim(Tail(Trim(text))))

Calls(names, text) ==
  Marked(text) /\ (names = {} \/ Command(text).name \in names)

Argv(text) == SplitArgv(Command(text).args)
=============================================================================
