------------------------------ MODULE MCParts -------------------------------
(***************************************************************************)
(* The parts that run on their own, in one instance: the receive loop's    *)
(* choice of a client, the three stages of a query (the terms it is drawn  *)
(* from, its way over the connection, the page of results of the response) *)
(* and rapl-read.  They share no state; a behaviour is one of the part     *)
(* that stage names, and the others stay as they are.                      *)
(***************************************************************************)
EXTENDS RecvArbitration, QueryTerms, Framing, ResultPage, RaplRead

\* Any client may leave.
AllMortal == Clients

\* Terms on both sides of each limit; one that the line buffer does not hold.
Term(lower, size, results) == [lower |-> lower, size |-> size, results |-> results]
Limits == <<Term(FALSE, 5, 500), Term(TRUE, 3, 99), Term(TRUE, 4, 100),
            Term(TRUE, 127, 1000), Term(TRUE, 1, 20480), Term(TRUE, 6, 300),
            Term(TRUE, 7, 1001), Term(TRUE, 8, 400), Term(TRUE, 0, 0),
            Term(TRUE, 9, 500), Term(TRUE, 10, 999)>>
Long == <<Term(TRUE, 4, 100), Term(TRUE, 128, 200), Term(TRUE, 5, 300)>>
BothDictionaries == {Limits, Long}

\* Up to three requests with bodies of up to three bytes.
FullBodies == UNION {[1..n -> 1..3] : n \in 1..3}

\* Match sets around the limit of 25 documents, with descriptions that grow, shrink
\* and stay as long.
Sizes(n) == {[i \in 1..n |-> 2], [i \in 1..n |-> 1 + (i % 3)], [i \in 1..n |-> n + 1 - i]}
Around25 == UNION {Sizes(n) : n \in {0, 1, 2, 24, 25, 26, 40}}

\* Every chip; up to three cpus in packages whose ids are dense, reversed, with a gap,
\* or cut short by a cpu that is offline; command lines of up to two options.
Chip(m) == <<<<"vendor_id", "GenuineIntel">>, <<"cpu family", 6>>, <<"model", m>>>>
AllChips ==
  {Chip(m) : m \in Supported}
    \cup {NoFile, <<>>, Chip("BROADWELL_DE"), <<<<"vendor_id", "AuthenticAMD">>>>,
          <<<<"vendor_id", "GenuineIntel">>, <<"cpu family", 15>>, <<"model", "SKYLAKE">>>>}

AllTopologies ==
  {<<>>, <<0, 0>>, <<0, 1, 0>>, <<1, 0>>, <<0, 2>>, <<1>>, <<0, NoFile, 1>>, <<0, 1, 1>>}

AllArgs ==
  LET letters == {"c", "h", "m", "p", "s", "?"}
  IN {<<>>} \cup {<<a>> : a \in letters} \cup {<<a, b>> : a \in letters, b \in letters}

TwoDomains == <<"energy-cores", "energy-pkg">>
-----------------------------------------------------------------------------
VARIABLE stage

queryVars == <<termsVars, framingVars, pageVars>>
mcVars == <<stage, recvVars, queryVars, vars>>

\* Of a part that does not run, one of the initial states.
MCInit ==
  /\ stage \in {"arbitration", "terms", "framing", "page", "rapl"}
  /\ RecvInit /\ TermsInit /\ FramingInit /\ PageInit /\ Init
  /\ stage # "terms" => dictionary = Limits
  /\ stage # "framing" => bodies = <<1>>
  /\ stage # "rapl" => cpuinfo = NoFile /\ ids = <<>> /\ args = <<>>

Arbitration(A) == stage = "arbitration" /\ A /\ UNCHANGED <<queryVars, vars>>
Terms(A) == stage = "terms" /\ A /\ UNCHANGED <<recvVars, framingVars, pageVars, vars>>
Crossing(A) == stage = "framing" /\ A /\ UNCHANGED <<recvVars, termsVars, pageVars, vars>>
Paging(A) == stage = "page" /\ A /\ UNCHANGED <<recvVars, termsVars, framingVars, vars>>
Rapl(A) == stage = "rapl" /\ A /\ UNCHANGED <<recvVars, queryVars>>

MCNext ==
  /\ UNCHANGED stage
  /\ \/ Arbitration(RecvNext) \/ Terms(TermsNext) \/ Crossing(FramingNext)
     \/ Paging(PageNext) \/ Rapl(Next)

MCSpec ==
  /\ MCInit /\ [][MCNext]_mcVars
  /\ WF_mcVars(Crossing(SendStep) /\ UNCHANGED stage)
  /\ WF_mcVars(Crossing(ReadStep) /\ UNCHANGED stage)
=============================================================================
