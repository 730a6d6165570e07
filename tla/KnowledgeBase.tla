--------------------------- MODULE KnowledgeBase ---------------------------
(***************************************************************************)
(* The retriever of airport knowledge: which documents a question brings   *)
(* into the context of an inference.                                       *)
(*                                                                         *)
(* A keyword is a sequence of words.  What the tokenizer and the           *)
(* logarithms compute is given from outside: similarity, the cosine of a   *)
(* question and a document (by its id) in hundredths, and mentions, the    *)
(* phrases that occur in the question's text.                              *)
(***************************************************************************)
EXTENDS Naturals, Sequences, FiniteSets, SequencesExt

CONSTANTS
  Library,          \* the files of the knowledge base, none for an engine without a retriever
  TopK,             \* results returned at most
  MinScore,         \* score below which a document is left out, in hundredths
  MaxContextChars,  \* budget of the context, in characters
  MinRemainder      \* a chunk is not cut to fewer characters than this

KeywordBoost == 15  \* 0.15 for each matching entry of the keyword index
Ellipsis == 3       \* characters of the "..." after a cut chunk

IsSequence(s) == s \in Seq(Range(s))
Texts == UNION {Range(Library[i].docs) : i \in DOMAIN Library}

ASSUME KnowledgeAssumption ==
  /\ TopK \in Nat /\ MinScore \in Nat /\ MaxContextChars \in Nat /\ MinRemainder \in Nat
  /\ IsSequence(Library) /\ \A i \in DOMAIN Library : IsSequence(Library[i].docs)
  /\ \A doc \in Texts :
       doc.chars \in Nat /\ IsSequence(doc.keywords) /\ \A keyword \in Range(doc.keywords) : IsSequence(keyword)

\* A file of the knowledge base holds documents or cannot be parsed; documents without
\* content are skipped.
Add(docs, doc) == IF doc.chars > 0 THEN Append(docs, doc) ELSE docs
AddFile(docs, file) == IF file.parses THEN FoldLeft(Add, docs, file.docs) ELSE docs
load(files) == FoldLeft(AddFile, <<>>, files)

\* The keyword index lists a document under each of its keywords, as often as it has them,
\* and once under each of their words, unless the first keyword with that word is the word
\* alone: then the document is there already.  These are its entries under phrases that
\* are mentioned.
WordsOf(doc) == UNION {Range(doc.keywords[k]) : k \in DOMAIN doc.keywords}
FirstWith(doc, word) == doc.keywords[Min({k \in DOMAIN doc.keywords : word \in Range(doc.keywords[k])})]
Entries(doc, mentions) ==
  Cardinality({k \in DOMAIN doc.keywords : doc.keywords[k] \in mentions})
    + Cardinality({word \in WordsOf(doc) : <<word>> \in mentions /\ FirstWith(doc, word) # <<word>>})

Score(docs, question, d) ==
  question.similarity[docs[d].id] + KeywordBoost * Entries(docs[d], question.mentions)

\* The best documents first, the earlier one of two that score the same, TopK at most.
Better(score, d, e) == score[d] > score[e] \/ (score[d] = score[e] /\ d < e)
Place(score, found, d) == Cardinality({e \in found : Better(score, e, d)}) + 1
retrieve(docs, question) ==
  LET score == [d \in DOMAIN docs |-> Score(docs, question, d)]
      found == {d \in DOMAIN docs : score[d] >= MinScore}
      n == IF Cardinality(found) < TopK THEN Cardinality(found) ELSE TopK
  IN  IF ~question.tokens THEN <<>>
      ELSE [r \in 1 .. n |-> CHOOSE d \in found : Place(score, found, d) = r]

\* Mutant: every chunk has the whole budget for itself.
TakenAfresh(built, chars, d) ==
  IF built.full THEN built
  ELSE IF chars <= MaxContextChars
       THEN [built EXCEPT !.parts = Append(@, [doc |-> d, chars |-> chars])]
       ELSE [built EXCEPT !.full = TRUE]

\* Chunks are taken whole while they fit; the first that does not is cut to what is left,
\* if that is worth it, and ends the context.
Taken(built, chars, d) ==
  LET left == MaxContextChars - built.used
  IN  IF built.full THEN built
      ELSE IF chars <= left
           THEN [built EXCEPT !.parts = Append(@, [doc |-> d, chars |-> chars]),
                              !.used = @ + chars]
           ELSE [built EXCEPT
                   !.full = TRUE,
                   !.parts = IF left > MinRemainder
                             THEN Append(@, [doc |-> d, chars |-> left + Ellipsis])
                             ELSE @]

Unused == [parts |-> <<>>, used |-> 0, full |-> FALSE]
build_context(docs, question) ==
  FoldLeft(LAMBDA built, d : Taken(built, docs[d].chars, d), Unused, retrieve(docs, question)).parts
=============================================================================
