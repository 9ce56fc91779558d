------------------------------- MODULE Chunking -------------------------------
(***************************************************************************)
(* The chunker: how the text of a document, section by section, is split   *)
(* at ever finer separators and merged into overlapping chunks.  A text is *)
(* the sequence of its kinds of characters, a piece or a chunk of it the   *)
(* interval of positions from its first to its last character.  The calls  *)
(* of the recursion that are still to be made are a stack.                 *)
(***************************************************************************)
EXTENDS Integers, FiniteSets, Sequences, FiniteSetsExt

CONSTANTS
    MaxText,       \* characters of a document of one section
    MaxSection,    \* and of each section of a document of two
    ChunkSize,
    ChunkOverlap,
    LongWord,      \* the length beyond which a word counts by its characters
    CharsPerToken

ASSUME ChunkingAssumption ==
    /\ MaxText \in Nat /\ MaxSection \in Nat
    /\ ChunkSize \in Nat \ {0}
    /\ ChunkOverlap \in 0..(ChunkSize - 1)
    /\ LongWord \in Nat /\ CharsPerToken \in Nat \ {0}

Blank == {"line", "space"}
Characters == Blank \union {"letter", "cjk"}
\* The separators, from coarse to fine: one for lines stands for what ends a
\* paragraph, a sentence or a clause; the last one is the empty string.
Separators == <<"line", "space", "empty">>

Texts(n) == UNION {[1..k -> Characters] : k \in 0..n}
Documents == {<<t>> : t \in Texts(MaxText)} \union (Texts(MaxSection) \X Texts(MaxSection))

VARIABLE
    chunker \* the document, the section at work, and what has become of it

chunkVars == chunker

ChunkInit ==
    \E d \in Documents :
       chunker = [document |-> d, section |-> 0, stack |-> << >>, pieces |-> << >>,
                  current |-> << >>, length |-> 0, pc |-> "section", chunks |-> << >>]

Text == chunker.document[chunker.section]

Solid(text, from, to) == {i \in from..to : text[i] \notin Blank}
\* str.strip
Stripped(text, from, to) ==
    LET solid == Solid(text, from, to) IN
    IF solid = {} THEN << >> ELSE <<Min(solid), Max(solid)>>

Words(text, from, to) ==
    {w \in (from..to) \X (from..to) :
       /\ w[1] <= w[2] /\ \A i \in w[1]..w[2] : text[i] = "letter"
       /\ w[1] > from => text[w[1] - 1] # "letter"
       /\ w[2] < to => text[w[2] + 1] # "letter"}

\* default_token_estimator: five tokens for four words, one for a character of
\* Chinese, Japanese or Korean; and a text with a long word by its length.
Estimate(text, from, to) ==
    LET words == Words(text, from, to)
        cjk == Cardinality({i \in from..to : text[i] = "cjk"})
        wordTokens == IF words = {} THEN 0 ELSE Max({1, (5 * Cardinality(words)) \div 4})
        long == \E w \in words : w[2] - w[1] + 1 > LongWord
        span == 1 + Max({w[2] : w \in words}) - Min({w[1] : w \in words})
        charTokens == IF long THEN (span + CharsPerToken - 1) \div CharsPerToken ELSE 0
    IN IF Solid(text, from, to) = {} THEN 0 ELSE Max({1, cjk + wordTokens, charTokens})

PieceLength(p) == Estimate(Text, p[1], p[2])
-----------------------------------------------------------------------------
(* Chunker.chunk_document and chunk_text *)

Emit(chunks, from, to) ==
    IF Solid(Text, from, to) = {} THEN chunks
    ELSE Append(chunks, [section |-> chunker.section, at |-> Stripped(Text, from, to),
                         index |-> Len(chunks)])

NextSection ==
    /\ chunker.pc = "section"
    /\ chunker.section < Len(chunker.document)
    /\ chunker' = [chunker EXCEPT !.section = @ + 1, !.pc = "text"]

\* A text that is short enough is one chunk.
StartText ==
    LET whole == Stripped(Text, 1, Len(Text)) IN
    /\ chunker.pc = "text"
    /\ chunker' =
         IF whole = << >> THEN [chunker EXCEPT !.pc = "section"]
         ELSE IF PieceLength(whole) <= ChunkSize
         THEN [chunker EXCEPT !.pc = "section", !.chunks = Emit(@, whole[1], whole[2])]
         ELSE [chunker EXCEPT !.pc = "splitting",
                  !.stack = <<[at |-> whole, separator |-> 1]>>]
-----------------------------------------------------------------------------
(* Chunker._recursive_split *)

Occurs(separator, p) ==
    Separators[separator] = "empty" \/ \E i \in p[1]..p[2] : Text[i] = Separators[separator]

\* Split after each occurrence of the separator, or everywhere.
SplitWithSep(p, separator) ==
    LET ends == {i \in p[1]..p[2] : \/ i = p[2] \/ Separators[separator] = "empty"
                                    \/ Text[i] = Separators[separator]}
        upTo(e) == Cardinality({f \in ends : f <= e})
        endOf(n) == IF n = 0 THEN p[1] - 1 ELSE CHOOSE e \in ends : upTo(e) = n
    IN [n \in 1..Cardinality(ends) |-> <<endOf(n - 1) + 1, endOf(n)>>]

Split ==
    /\ chunker.pc = "splitting"
    /\ chunker.stack # << >>
    /\ LET call == Head(chunker.stack) IN
       chunker' =
         IF PieceLength(call.at) <= ChunkSize \/ call.separator > Len(Separators)
         THEN [chunker EXCEPT !.stack = Tail(@), !.pieces = Append(@, call.at)]
         ELSE LET sep == Min({s \in call.separator..Len(Separators) : Occurs(s, call.at)})
                  parts == SplitWithSep(call.at, sep)
              IN [chunker EXCEPT !.stack = [n \in DOMAIN parts |->
                                              [at |-> parts[n], separator |-> sep + 1]] \o Tail(@)]

SplitDone ==
    /\ chunker.pc = "splitting"
    /\ chunker.stack = << >>
    /\ chunker' = [chunker EXCEPT !.pc = "merging"]
-----------------------------------------------------------------------------
(* Chunker._merge_splits *)

TotalLength(pieces) == MapThenSumSet(LAMBDA i : PieceLength(pieces[i]), DOMAIN pieces)

\* Mutant of Fits: what is kept need not leave room for the next piece.
FitsAlone(tail, next) == TotalLength(tail) <= ChunkOverlap

Fits(tail, next) ==
    /\ TotalLength(tail) <= ChunkOverlap
    /\ TotalLength(tail) + next <= ChunkSize

\* The longest tail of the pieces of a chunk that the next one repeats.
Overlap(pieces, next) ==
    LET from(i) == SubSeq(pieces, i, Len(pieces))
        fitting == {i \in 1..(Len(pieces) + 1) :
                      \A j \in i..Len(pieces) : Fits(from(j), next)}
    IN from(Min(fitting))

Merge ==
    /\ chunker.pc = "merging"
    /\ chunker.pieces # << >>
    /\ LET piece == Head(chunker.pieces)
           next == PieceLength(piece)
           full == chunker.length + next > ChunkSize /\ chunker.current # << >>
           kept == IF full THEN Overlap(chunker.current, next) ELSE chunker.current
       IN chunker' = [chunker EXCEPT
            !.pieces = Tail(@),
            !.current = Append(kept, piece),
            !.length = (IF full THEN TotalLength(kept) ELSE @) + next,
            !.chunks = IF full THEN Emit(@, Head(chunker.current)[1],
                                         chunker.current[Len(chunker.current)][2])
                       ELSE @]

MergeDone ==
    /\ chunker.pc = "merging"
    /\ chunker.pieces = << >>
    /\ chunker' = [chunker EXCEPT
         !.pc = "section", !.current = << >>, !.length = 0,
         !.chunks = Emit(@, Head(chunker.current)[1],
                         chunker.current[Len(chunker.current)][2])]

ChunkNext == NextSection \/ StartText \/ Split \/ SplitDone \/ Merge \/ MergeDone

ChunkSpec == ChunkInit /\ [][ChunkNext]_chunkVars

ChunkTypeOK ==
    /\ chunker.pc \in {"section", "text", "splitting", "merging"}
    /\ chunker.section \in 0..Len(chunker.document)
    /\ \A c \in DOMAIN chunker.chunks :
          LET chunk == chunker.chunks[c]
              positions == 1..Len(chunker.document[chunk.section]) IN
          chunk.section \in 1..chunker.section /\ chunk.at \in positions \X positions
-----------------------------------------------------------------------------

\* When a document is done, every character of it that is not blank is in a chunk;
\* each chunk of a section ends with text that the ones before it do not have; the
\* indexes, which the database wants to be unique, count the chunks of all
\* sections; and the pieces that make up a chunk never exceed the chunk size.
TextIsCovered ==
    /\ chunker.length <= ChunkSize
    /\ chunker.pc = "section" /\ chunker.section = Len(chunker.document) =>
       LET chunks == {chunker.chunks[i] : i \in DOMAIN chunker.chunks} IN
       /\ \A s \in DOMAIN chunker.document :
            \A i \in Solid(chunker.document[s], 1, Len(chunker.document[s])) :
               \E c \in chunks : c.section = s /\ c.at[1] <= i /\ i <= c.at[2]
       /\ \A c, e \in chunks : c.section = e.section /\ c.index < e.index
                                 => c.at[1] <= e.at[1] /\ c.at[2] < e.at[2]
       /\ {c.index : c \in chunks} = 0..(Cardinality(chunks) - 1)
=============================================================================
