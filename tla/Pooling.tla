------------------------------ MODULE Pooling -------------------------------
(***************************************************************************)
(* OpenAIEmbedder.embed_batch of persistence/vector.py: texts are cut into *)
(* segments the model takes, the segments packed into requests, and the    *)
(* vectors of a text's segments pooled, each weighted by its tokens.  A    *)
(* text is the number of its tokens; a vector is left to the provider.     *)
(***************************************************************************)
EXTENDS Naturals, Sequences, SequencesExt

CONSTANTS InputTokens, BatchTokens, BatchSize

ASSUME PoolingAssumption ==
  /\ InputTokens \in Nat \ {0} /\ BatchSize \in Nat \ {0}
  /\ BatchTokens \in Nat /\ BatchTokens >= InputTokens

\* An empty text is embedded as one blank.
TokensOf(text) == IF text = 0 THEN 1 ELSE text

\* The segments of one text: full ones, and what is left.
SegmentsOf(owner, text) ==
  LET tokens == TokensOf(text)
      count  == (tokens + InputTokens - 1) \div InputTokens
  IN  [k \in 1..count |->
         [owner |-> owner, from |-> (k - 1) * InputTokens,
          tokens |-> IF k < count THEN InputTokens ELSE tokens - (k - 1) * InputTokens]]

Segments(texts) == FlattenSeq([i \in DOMAIN texts |-> SegmentsOf(i, texts[i])])

\* Mutant: a request is sent when it is over its limit, not before.
PackOneMore(state, segment) ==
  IF state.batch # <<>> /\ (Len(state.batch) > BatchSize \/ state.tokens > BatchTokens)
  THEN [sent |-> Append(state.sent, state.batch), batch |-> <<segment>>, tokens |-> segment.tokens]
  ELSE [state EXCEPT !.batch = Append(@, segment), !.tokens = @ + segment.tokens]

\* A segment joins the request being filled, or that one is sent first.
Pack(state, segment) ==
  IF state.batch # <<>>
     /\ (Len(state.batch) >= BatchSize \/ state.tokens + segment.tokens > BatchTokens)
  THEN [sent |-> Append(state.sent, state.batch), batch |-> <<segment>>, tokens |-> segment.tokens]
  ELSE [state EXCEPT !.batch = Append(@, segment), !.tokens = @ + segment.tokens]

\* The requests that are sent, the last one too if there is anything in it.
Requests(texts) ==
  LET segments == Segments(texts)
      filled[n \in 0..Len(segments)] ==
        IF n = 0 THEN [sent |-> <<>>, batch |-> <<>>, tokens |-> 0]
        ELSE Pack(filled[n - 1], segments[n])
      last == filled[Len(segments)]
  IN  IF last.batch = <<>> THEN last.sent ELSE Append(last.sent, last.batch)

\* What a text's vector is pooled from: all that its requests answer, by place.
PooledFrom(requests, owner) ==
  {p \in UNION {{r} \X DOMAIN requests[r] : r \in DOMAIN requests} :
     requests[p[1]][p[2]].owner = owner}
=============================================================================
