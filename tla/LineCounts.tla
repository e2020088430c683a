----------------------------- MODULE LineCounts ------------------------------
(* MetricsParser::getLocFromFile: how the lines of a file are counted.  The
   content of a file is a sequence of characters, places start at 1 and 0 is
   npos of std::string. *)
EXTENDS Integers, SequencesExt, FiniteSetsExt

CONSTANTS Alphabet, MaxLength  \* the texts that the properties are about

NewLine == "\n"
IsSpace(c) == c \in {" ", NewLine}

Symbols(single, start, end) == [single |-> single, start |-> start, end |-> end]

(* setCommentTypes *)
CommentTypes(type) ==
  CASE type \in {"CPP", "Java"} -> Symbols(<<"/", "/">>, <<"/", "*">>, <<"*", "/">>)
    [] type \in {"Erlang", "Bash", "Perl"} -> Symbols(<<"#">>, <<>>, <<>>)
    [] type = "Python" -> Symbols(<<"#">>, <<"\"", "\"", "\"">>, <<"\"", "\"", "\"">>)
    [] type = "Sql"  -> Symbols(<<"-", "-">>, <<"/", "*">>, <<"*", "/">>)
    [] type = "Ruby" -> Symbols(<<"#">>, <<"=", "b", "e", "g", "i", "n">>,
                                <<NewLine, "=", "e", "n", "d">>)
    [] OTHER -> Symbols(<<>>, <<>>, <<>>)

Lines(content) == Cardinality({k \in DOMAIN content : content[k] = NewLine}) + 1

Find(content, symbol, from) ==
  LET hits == {k \in from .. Len(content) - Len(symbol) + 1 :
                 SubSeq(content, k, k + Len(symbol) - 1) = symbol}
  IN IF hits = {} THEN 0 ELSE Min(hits)

Erase(content, start, count) ==
  SubSeq(content, 1, start - 1) \o SubSeq(content, start + count, Len(content))

(* Of newlines that follow each other, one stays. *)
Unique(content) ==
  LET Keep(kept, c) == IF c = NewLine /\ kept # <<>> /\ Last(kept) = NewLine
                       THEN kept ELSE Append(kept, c)
  IN FoldLeft(Keep, <<>>, content)

(* Lines of blanks are taken for text. *)
eraseEmptyLines(content) == Unique(content)

(* The blanks of a blank line go, unless it is the last line. *)
eraseBlankLines(content) ==
  LET Read(seen, c) ==
        IF c # NewLine THEN [seen EXCEPT !.line = Append(@, c)]
        ELSE [line |-> <<>>,
              text |-> seen.text \o SelectSeq(seen.line, LAMBDA b : \E d \in Range(seen.line) : ~IsSpace(d))
                                 \o <<NewLine>>]
      read == FoldLeft(Read, [text |-> <<>>, line |-> <<>>], content)
  IN Unique(read.text \o read.line)

(* A loop that ends when its round finds nothing; a round makes the content
   shorter, so it has ended after as many rounds as there are characters. *)
Repeat(Round(_), content) ==
  LET after[k \in 0 .. Len(content)] == IF k = 0 THEN content ELSE Round(after[k - 1])
  IN after[Len(content)]

EraseSingle(symbols, content) ==
  LET start == Find(content, symbols.single, 1)
      end   == Find(content, <<NewLine>>, start)
  IN IF symbols.single = <<>> \/ start = 0 THEN content
     ELSE Erase(content, start, (IF end = 0 THEN Len(content) + 1 ELSE end) - start)

(* The length of the start symbol is erased in place of the end symbol.
   Without an end symbol, npos - start + s wraps: near the beginning of the
   file it is a small number. *)
EraseMulti(symbols, content) ==
  LET s     == Len(symbols.start)
      start == Find(content, symbols.start, 1)
      end   == Find(content, symbols.end, start + s)
      count == CASE end # 0    -> end - start + s
                 [] start <= s -> s - start
                 [] OTHER      -> Len(content)
  IN IF s = 0 \/ start = 0 THEN content ELSE Erase(content, start, count)

eraseComments(symbols, content) ==
  LET Single(c) == EraseSingle(symbols, c)
      Multi(c)  == EraseMulti(symbols, c)
  IN Repeat(Multi, Repeat(Single, content))

getLocFromFile(type, content) ==
  LET text == eraseBlankLines(content)
  IN IF content = <<>> THEN [original |-> 0, nonblank |-> 0, code |-> 0]
     ELSE [original |-> Lines(content), nonblank |-> Lines(text),
           code |-> Lines(eraseComments(CommentTypes(type), text))]

(* persistLoc: a row for each number that is not 0. *)
persistLoc(f, loc) ==
  {[file |-> f, type |-> kind, metric |-> loc[kind]] : kind \in {k \in DOMAIN loc : loc[k] # 0}}

-----------------------------------------------------------------------------
Texts == UNION {[1 .. n -> Alphabet] : n \in 1 .. MaxLength}

(* The places where a line ends: the newlines, and the end of the text. *)
LineEnds(text) == {k \in 1 .. Len(text) + 1 : k = Len(text) + 1 \/ text[k] = NewLine}

HasText(text, end) ==
  LET start == Max({0} \cup {e \in LineEnds(text) : e < end}) + 1
  IN \E k \in start .. end - 1 : ~IsSpace(text[k])

(* What a scanner of C++ sees that reads the text once: the characters outside
   of its comments, or NoEnd if a comment has none. *)
NoEnd == <<"no end">>

Scan(text) ==
  LET At(k, symbol) == Find(text, symbol, k) = k
      outside[k \in 1 .. Len(text) + 2] ==
        LET line == Find(text, <<NewLine>>, k)
            end  == Find(text, <<"*", "/">>, k + 2)
        IN CASE k > Len(text)        -> <<>>
             [] At(k, <<"/", "/">>)  -> IF line = 0 THEN <<>> ELSE outside[line]
             [] At(k, <<"/", "*">>)  -> IF end = 0 THEN NoEnd ELSE outside[end + 2]
             [] OTHER -> IF outside[k + 1] = NoEnd THEN NoEnd ELSE <<text[k]>> \o outside[k + 1]
  IN outside[1]

(* What getLocFromFile says of a text.  The two loops see what the scanner sees
   if the text has comments of one kind only, and all of them end. *)
Counted(loc, type, text) ==
  LET ends  == LineEnds(text)
      left  == eraseBlankLines(text)
      seen  == Scan(left)
      mixed == Find(left, <<"/", "/">>, 1) # 0 /\ Find(left, <<"/", "*">>, 1) # 0
  IN /\ loc.code <= loc.nonblank /\ loc.nonblank <= loc.original
     /\ loc.nonblank = Cardinality({e \in ends : HasText(text, e)} \cup {Min(ends), Max(ends)})
     /\ type = "CPP" /\ ~mixed /\ seen # NoEnd => loc.code = Lines(seen)

AllCounted ==
  \A text \in Texts : \A type \in {"CPP", "Bash", "Unknown"} :
    Counted(getLocFromFile(type, text), type, text)
=============================================================================
