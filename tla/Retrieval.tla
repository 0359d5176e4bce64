----------------------------- MODULE Retrieval ------------------------------
(***************************************************************************)
(* From two rankings of the knowledge chunks to the sources of a run: the  *)
(* dense and the lexical ranking are fused, the documents a service is     *)
(* routed to go first, and the two control documents are always among them.*)
(***************************************************************************)
EXTENDS Integers, SequencesExt

CONSTANTS
  Chunks,      \* the chunks of the knowledge base, in their order
  DocOf,       \* the document of each chunk
  Route,       \* the documents routed to for each service
  SourceLimit  \* how many sources a run gets

Pinned == <<"SEC-07", "OPS-12">>
Doc == Range(DocOf)

ASSUME ChunksAssumption ==
  /\ Chunks \in Seq(DOMAIN DocOf) /\ IsInjective(Chunks)
  /\ DocOf \in [ToSet(Chunks) -> Doc]

(* Routed documents and control documents fit together, and routing leaves *)
(* the rules about approval out: so the routed ones never fill the sources.*)
ASSUME RouteAssumption ==
  /\ SourceLimit \in Nat /\ Len(Pinned) <= SourceLimit
  /\ \A service \in DOMAIN Route :
       /\ Route[service] \in Seq(ToSet(Route[service])) /\ ~Contains(Route[service], "SEC-07")
       /\ Cardinality(ToSet(Route[service]) \union ToSet(Pinned)) <= SourceLimit

(* SERVICE_RUNBOOK_ROUTE.get(service, []) *)
RouteOf(service) == IF service \in DOMAIN Route THEN Route[service] ELSE <<>>

-----------------------------------------------------------------------------
(* Reciprocal rank fusion.  The score of a chunk is the sum of             *)
(* weight / (60 + rank) over the rankings that contain it, weights in      *)
(* hundredths; scores are compared as fractions.                           *)
Rank(ranking, chunk) == CHOOSE i \in DOMAIN ranking : ranking[i] = chunk

Share(weight, ranking, chunk) ==
  IF Contains(ranking, chunk) THEN <<weight, 60 + Rank(ranking, chunk)>> ELSE <<0, 1>>

Plus(x, y) == <<x[1] * y[2] + y[1] * x[2], x[2] * y[2]>>
Above(x, y) == x[1] * y[2] > y[1] * x[2]

(* Mutant: both shares are taken from the lexical ranking. *)
ScoreLexically(chunk, dense, lexical, weight) ==
  Plus(Share(weight, lexical, chunk), Share(100 - weight, lexical, chunk))

Score(chunk, dense, lexical, weight) ==
  Plus(Share(weight, dense, chunk), Share(100 - weight, lexical, chunk))

(* Equal scores go by the id of the chunk. *)
Before(c, d, dense, lexical, weight) ==
  LET x == Score(c, dense, lexical, weight)
      y == Score(d, dense, lexical, weight)
  IN Above(x, y) \/ (~Above(y, x) /\ Rank(Chunks, c) < Rank(Chunks, d))

(* A chunk of either ranking has the place that those before it leave it. *)
Fuse(dense, lexical, weight) ==
  LET hits == ToSet(dense) \union ToSet(lexical)
      place == [c \in hits |-> 1 + Cardinality({d \in hits : Before(d, c, dense, lexical, weight)})]
  IN [i \in 1..Cardinality(hits) |-> CHOOSE c \in hits : place[c] = i]

(* The weight of the dense ranking: fixed for the lexical baseline, chosen *)
(* by the strength of the best lexical match for a semantic one.           *)
DenseWeight(quality, strength) ==
  IF quality # "semantic" THEN 52 ELSE IF strength = "weak" THEN 25 ELSE 10

-----------------------------------------------------------------------------
Hit(chunk, channel) == [chunk |-> chunk, doc |-> DocOf[chunk], channel |-> channel]
DocsOf(hits) == {hits[i].doc : i \in DOMAIN hits}

BestForDoc(doc) == SelectInSeq(Chunks, LAMBDA c : DocOf[c] = doc)  \* 0: none

AddRouted(hits, doc) ==
  IF BestForDoc(doc) = 0 \/ doc \in DocsOf(hits) THEN hits
  ELSE Append(hits, Hit(Chunks[BestForDoc(doc)], "routed"))

AddRanked(hits, chunk) ==
  IF DocOf[chunk] \in DocsOf(hits) \/ Len(hits) = SourceLimit THEN hits
  ELSE Append(hits, Hit(chunk, "hybrid"))

(* Mutant: a control document replaces the last hit, whatever that is. *)
PinLast(hits, doc) ==
  LET pinned == Hit(Chunks[BestForDoc(doc)], "pinned")
  IN IF doc \in DocsOf(hits) \/ BestForDoc(doc) = 0 THEN hits
     ELSE IF Len(hits) < SourceLimit THEN Append(hits, pinned)
     ELSE ReplaceAt(hits, Len(hits), pinned)

(* A control document is retagged where it is; otherwise it is appended,   *)
(* or replaces the last hit that is not one.                               *)
Pin(hits, doc) ==
  LET at == SelectInSeq(hits, LAMBDA h : h.doc = doc)
      pinned == Hit(Chunks[BestForDoc(doc)], "pinned")
      victim == SelectLastInSeq(hits, LAMBDA h : ~Contains(Pinned, h.doc))
  IN IF at # 0 THEN [hits EXCEPT ![at].channel = "pinned"]
     ELSE IF BestForDoc(doc) = 0 THEN hits
     ELSE IF Len(hits) < SourceLimit THEN Append(hits, pinned)
     ELSE IF victim # 0 THEN ReplaceAt(hits, victim, pinned)
     ELSE hits

(* Retriever.search; the index offers three times as many chunks. *)
Search(ranking, preferred) ==
  LET candidates == SubSeq(ranking, 1, Min({Len(ranking), 3 * SourceLimit}))
      routed == FoldLeft(AddRouted, <<>>, preferred)
      ranked == FoldLeft(AddRanked, routed, candidates)
      pinned == FoldLeft(Pin, ranked, Pinned)
  IN SubSeq(pinned, 1, Min({Len(pinned), SourceLimit}))
=============================================================================
