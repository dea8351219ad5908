----------------------------- MODULE QueryTerms -----------------------------
(***************************************************************************)
(* From the database to the requests: genTerms writes the terms whose      *)
(* query has between 100 and 1000 results to terms.in, one in a line; the  *)
(* client's TermSet reads the file and draws the request of each query.    *)
(* genTerms may be killed: endl writes line by line, and the last line may *)
(* have got no newline.                                                    *)
(***************************************************************************)
EXTENDS Integers, Sequences, FiniteSets, SequencesExt

CONSTANTS
  Dictionaries, \* the terms of a database in the order of its iterator, each
                \* with lower (only lower-case letters), size and results
  Word,         \* 2^64, the range of unsigned long
  Memory        \* bound: strings the client has memory for

ASSUME QueryTermsAssumption ==
  /\ Memory \in Nat /\ Word \in Nat /\ Memory < Word
  /\ \A database \in Dictionaries :
       /\ database \in Seq([lower : BOOLEAN, size : Nat, results : Nat])
       /\ Len(database) < Memory

llimit == 100
ulimit == 1000
MAX_TERM_LEN == 128

VARIABLES
  dictionary,        \* the database
  genTerms, client,  \* "run" and the ways the two processes end; phases of the client
  it,                \* the position of genTerms in the dictionary
  file, partial,     \* the lines of terms.in; its last line lacks the newline
  line, failbit,     \* TermSet's stream: lines that were read, and its failbit
  terms,             \* what TermSet has loaded
  request            \* the term of the last request

genVars == <<genTerms, it, file, partial>>
clientVars == <<client, line, failbit, terms, request>>
termsVars == <<dictionary, genVars, clientVars>>

NoTerm == [lower |-> TRUE, size |-> 0, results |-> 0]    \* the empty string

TermsInit ==
  /\ dictionary \in Dictionaries
  /\ genTerms = "options" /\ it = 1 /\ file = <<>> /\ partial = FALSE
  /\ client = "waits" /\ line = 0 /\ failbit = FALSE /\ terms = <<>>
  /\ request = NoTerm

\* An operator whose name ends in _Faulty is the one behind it with a plausible
\* mistake; no specification uses it.
-----------------------------------------------------------------------------
(* genTerms: usage and unusable files end it; -f without -d passes a null  *)
(* pointer to Xapian.                                                      *)
Options ==
  /\ genTerms = "options"
  /\ genTerms' \in {"run", "exit_255", "terminated"}
  /\ UNCHANGED <<it, file, partial, clientVars>>

MSET_SIZE == ulimit + 1
MsetSize(term) == IF term.results > MSET_SIZE THEN MSET_SIZE ELSE term.results

Selected(term) ==
  term.lower /\ term.size > 0 /\ MsetSize(term) >= llimit /\ MsetSize(term) <= ulimit

NextTerm ==
  /\ genTerms = "run" /\ it <= Len(dictionary)
  /\ file' = IF Selected(dictionary[it]) THEN Append(file, dictionary[it]) ELSE file
  /\ it' = it + 1
  /\ UNCHANGED <<genTerms, partial, clientVars>>

GenEnds ==
  /\ genTerms = "run" /\ it > Len(dictionary)
  /\ genTerms' = "exit_0"
  /\ UNCHANGED <<it, file, partial, clientVars>>

GenKilled ==
  /\ genTerms = "run"
  /\ genTerms' = "killed"
  /\ partial' \in {FALSE, file # <<>>}
  /\ UNCHANGED <<it, file, clientVars>>
-----------------------------------------------------------------------------
(* TermSet.  A line of 128 characters or more sets failbit after 127 of    *)
(* them, and with failbit getline reads nothing any more.                  *)
Open ==
  /\ client = "waits" /\ genTerms \in {"exit_0", "killed"}
  /\ client' \in {"load", "exit_255"}
  /\ UNCHANGED <<genVars, line, failbit, terms, request>>

Cut(term) == [term EXCEPT !.size = MAX_TERM_LEN - 1]

\* The result of fin.getline: the string, whether the end of the file was met, the
\* failbit it leaves and gcount.
Getline ==
  IF failbit THEN [str |-> NoTerm, eof |-> FALSE, fail |-> TRUE, gcount |-> 0]
  ELSE IF line = Len(file) THEN [str |-> NoTerm, eof |-> TRUE, fail |-> TRUE, gcount |-> 0]
  ELSE LET term == file[line + 1]
           last == partial /\ line + 1 = Len(file)
       IN IF term.size >= MAX_TERM_LEN
          THEN [str |-> Cut(term), eof |-> FALSE, fail |-> TRUE, gcount |-> MAX_TERM_LEN - 1]
          ELSE [str |-> term, eof |-> last, fail |-> FALSE,
                gcount |-> term.size + (IF last THEN 0 ELSE 1)]

\* fin.eof() is tested before anything is stored: a last line that lacks its
\* newline is dropped.
Stops_Faulty(got) == got.eof /\ got.fail
Stops(got) == got.eof
TooBig(got) == got.fail /\ got.gcount = MAX_TERM_LEN
ReadLine ==
  /\ client = "load" /\ Len(terms) < Memory
  /\ LET got == Getline IN
       CASE Stops(got)  -> client' = "ready" /\ UNCHANGED <<line, failbit, terms>>
         [] ~Stops(got) /\ TooBig(got) -> client' = "exit_255" /\ UNCHANGED <<line, failbit, terms>>
         [] OTHER -> /\ line' = IF failbit THEN line ELSE line + 1
                     /\ failbit' = got.fail
                     /\ terms' = Append(terms, got.str)
                     /\ UNCHANGED client
  /\ UNCHANGED <<genVars, request>>

\* std::bad_alloc, which nobody catches.
OutOfMemory ==
  /\ client = "load" /\ Len(terms) = Memory
  /\ client' = "terminated"
  /\ UNCHANGED <<genVars, line, failbit, terms, request>>

\* getTerm and tBenchClientGenReq: uniform over 0..termCount - 1, in unsigned
\* arithmetic.
LastIndex == (Len(terms) - 1) % Word
GenReq ==
  /\ client = "ready"
  /\ \E idx \in 0..LastIndex :
       IF idx < Len(terms)
       THEN request' = terms[idx + 1] /\ UNCHANGED client
       ELSE client' = "crashed" /\ UNCHANGED request
  /\ UNCHANGED <<genVars, line, failbit, terms>>

TermsNext ==
  \/ /\ \/ Options \/ NextTerm \/ GenEnds \/ GenKilled
        \/ Open \/ ReadLine \/ OutOfMemory \/ GenReq
     /\ UNCHANGED dictionary
  \/ UNCHANGED termsVars

TermsSpec == TermsInit /\ [][TermsNext]_termsVars
-----------------------------------------------------------------------------
(* Properties.                                                             *)
Wanted(term) == term.lower /\ term.size > 0 /\ term.results \in llimit..ulimit

\* Every variable has its type; what is in the file is in the dictionary.
TermsTypeOK ==
  /\ genTerms \in {"options", "run", "exit_0", "exit_255", "terminated", "killed"}
  /\ client \in {"waits", "load", "ready", "exit_255", "terminated", "crashed"}
  /\ it \in 1..(Len(dictionary) + 1) /\ partial \in BOOLEAN /\ failbit \in BOOLEAN
  /\ line \in 0..Len(file)
  /\ \A i \in DOMAIN file : \E j \in 1..(it - 1) : file[i] = dictionary[j]
  /\ Len(terms) <= Memory

\* s is every wanted term of the first n of the dictionary, in their order: the term
\* at j is behind the wanted ones before it.
Rank(j) == Cardinality({k \in 1..j : Wanted(dictionary[k])})
WantedOf(s, n) ==
  /\ Len(s) = Rank(n)
  /\ \A j \in 1..n : Wanted(dictionary[j]) => s[Rank(j)] = dictionary[j]

\* What a client loads from the file of a genTerms that ran to its end is every
\* wanted term of the dictionary, in its order; of one that was killed, what it had
\* written, without a line that lacks its newline.  A client whose file has a line
\* that its buffer does not hold never gets as far.
LoadedExactly ==
  client = "ready" =>
    IF genTerms = "exit_0" THEN WantedOf(terms, Len(dictionary))
    ELSE terms = IF partial THEN Front(file) ELSE file

\* However genTerms ended, a client's request has as many results as genTerms
\* promises, and fits the buffer of 256 characters of the server.
RequestsWanted == request # NoTerm => Wanted(request) /\ request.size + 1 < 256

\* A draw leaves the array of terms only when no term was loaded, which makes the
\* upper end of the draw 2^64 - 1.
DrawInRange == client = "crashed" => terms = <<>>

\* What every state of genTerms and its client satisfies.
TermsInv == TermsTypeOK /\ LoadedExactly /\ RequestsWanted /\ DrawInRange
=============================================================================
