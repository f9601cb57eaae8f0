------------------------------ MODULE FastCGIserver ------------------------------
(***************************************************************************)
(* One connection of a FastCGIserver (ucm/FastCGIserver.cpp): the records  *)
(* of a peer, who may send several requests at a time, are read one by     *)
(* one; while a request is read, the others' records are dropped; and what *)
(* the derived class answers goes through the buffer of a                  *)
(* FastCGIstreamWriter, which makes records of it.                         *)
(*                                                                         *)
(* A record is <<type, id, content>>; content is a sequence of symbols,    *)
(* and empty at the end of a stream.  The derived class answers with what  *)
(* it was given.  What the parameters say is left out.                     *)
(***************************************************************************)
EXTENDS Naturals, Sequences, SequencesExt, FiniteSetsExt

CONSTANTS Records,      \* the records that a peer may send
          MaxRecords,   \* bound: records sent on a connection
          OutSize       \* the size of the writer's buffer

VARIABLES received,   \* the records that were read
          serving,    \* the request that respond() reads, or Nobody
          oBuf,       \* the writer's buffer
          sent,       \* the records that were written
          state       \* "open", "disconnected", or "failed": by an exception

fcgiVars == <<received, serving, oBuf, sent, state>>

Nobody == [id |-> 0, keepConn |-> FALSE, params |-> <<>>, input |-> <<>>]

Init ==
  /\ received = <<>> /\ serving = Nobody
  /\ oBuf = <<>> /\ sent = <<>>
  /\ state = "open"

Type(rec)    == rec[1]
Id(rec)      == rec[2]
Content(rec) == rec[3]

-------------------------------------------------------------------------------

\* clientReadMsg(): a BEGIN_REQUEST, of a responder, whose content is a flag
IsRequest(rec) == Type(rec) = "begin" /\ Content(rec) # <<"filter">>
KeepsConn(rec) == Content(rec) = <<"keep">>

Begin(rec) ==
  /\ serving = Nobody
  /\ serving' = IF IsRequest(rec)
                THEN [Nobody EXCEPT !.id = Id(rec), !.keepConn = KeepsConn(rec)]
                ELSE Nobody
  /\ UNCHANGED <<oBuf, sent, state>>

\* mutant: every record is taken for the request's
MineAny(rec) == serving # Nobody

Mine(rec) == serving # Nobody /\ Id(rec) = serving.id

Ends(rec) == Type(rec) = "stdin" /\ Content(rec) = <<>>

\* another's record, or one of a type that is not expected
Ignore(rec) ==
  /\ serving # Nobody
  /\ ~Mine(rec) \/ Type(rec) \notin {"params", "stdin"}
  /\ UNCHANGED <<serving, oBuf, sent, state>>

Collect(rec) ==
  /\ Mine(rec) /\ Type(rec) \in {"params", "stdin"} /\ ~Ends(rec)
  /\ serving' = IF Type(rec) = "params" THEN [serving EXCEPT !.params = @ \o Content(rec)]
                ELSE [serving EXCEPT !.input = @ \o Content(rec)]
  /\ UNCHANGED <<oBuf, sent, state>>

\* write(): overflow() makes a record of the buffer each time that it is full
Chunks(bytes) ==
  [i \in 1..(Len(bytes) \div OutSize) |-> SubSeq(bytes, (i - 1) * OutSize + 1, i * OutSize)]
Rest(bytes) == SubSeq(bytes, (Len(bytes) \div OutSize) * OutSize + 1, Len(bytes))

Stdout(id, chunks) == [i \in DOMAIN chunks |-> <<"stdout", id, chunks[i]>>]

\* vrespond(), flush(), and the END_REQUEST record; a connection is kept if the request
\* says so
Respond(rec) ==
  LET bytes == oBuf \o serving.params \o serving.input
      rest == IF Rest(bytes) = <<>> THEN <<>> ELSE <<Rest(bytes)>>
  IN /\ Mine(rec) /\ Ends(rec)
     /\ sent' = Append(sent \o Stdout(serving.id, Chunks(bytes) \o rest),
                       <<"end", serving.id, <<>>>>)
     /\ oBuf' = <<>>
     /\ state' = IF serving.keepConn THEN state ELSE "disconnected"
     /\ serving' = Nobody

\* vrespond() throws on its way: the connection is given up, and what the writer's
\* destructor does with its buffer is left out
RespondFails(rec) ==
  /\ Mine(rec) /\ Ends(rec)
  /\ \E n \in 0..Len(serving.params \o serving.input) :
       LET bytes == SubSeq(serving.params \o serving.input, 1, n)
       IN /\ sent' = sent \o Stdout(serving.id, Chunks(bytes))
          /\ oBuf' = Rest(bytes)
  /\ state' = "failed"
  /\ UNCHANGED serving

ReadRecord ==
  /\ state = "open" /\ Len(received) < MaxRecords
  /\ \E rec \in Records :
       /\ received' = Append(received, rec)
       /\ Begin(rec) \/ Ignore(rec) \/ Collect(rec) \/ Respond(rec) \/ RespondFails(rec)

\* serializeIn() throws: the peer is gone
HangUp ==
  /\ state = "open"
  /\ state' = "failed"
  /\ UNCHANGED <<received, serving, oBuf, sent>>

Next == ReadRecord \/ HangUp

Spec == Init /\ [][Next]_fcgiVars

-------------------------------------------------------------------------------
(* Properties *)

\* where the request that begins at i ends, or behind the last record
EndOf(i) ==
  Min({j \in i..Len(received) : Id(received[j]) = Id(received[i]) /\ Ends(received[j])}
        \cup {Len(received) + 1})

\* the requests that are answered: those that do not begin inside another one
Requests ==
  LET taken[i \in 0..Len(received)] ==
        IF i = 0 THEN {}
        ELSE IF IsRequest(received[i]) /\ \A k \in taken[i - 1] : EndOf(k) < i
        THEN taken[i - 1] \cup {i} ELSE taken[i - 1]
  IN taken[Len(received)]

\* what the request that begins at i is answered with
Answer(i) ==
  LET of(type) ==
        FlattenSeq([j \in 1..Len(received) |->
          IF j \in i..EndOf(i) /\ Type(received[j]) = type /\ Id(received[j]) = Id(received[i])
          THEN Content(received[j]) ELSE <<>>])
  IN of("params") \o of("stdin")

\* However the records of several requests are mixed, each request that does not
\* begin inside another gets one answer, to its own parameters and input, in records
\* with its own id that fit the buffer, and then its END_REQUEST; and the connection
\* ends after the first that does not keep it.
FastCGIExact ==
  LET ended == SetToSortSeq({i \in Requests : EndOf(i) <= Len(received)}, <)
      ends  == SetToSortSeq({k \in DOMAIN sent : Type(sent[k]) = "end"}, <)
      answer(n) == SubSeq(sent, IF n = 1 THEN 1 ELSE ends[n - 1] + 1, ends[n])
  IN /\ Len(ends) \in {Len(ended), Len(ended) - 1}
     /\ state # "failed" =>
          /\ Len(ends) = Len(ended) /\ oBuf = <<>>
          /\ sent # <<>> => Type(Last(sent)) = "end"
     /\ \A n \in 1..Len(ends) :
          /\ FlattenSeq([k \in DOMAIN answer(n) |-> Content(answer(n)[k])]) = Answer(ended[n])
          /\ \A k \in DOMAIN answer(n) :
               /\ Id(answer(n)[k]) = Id(received[ended[n]])
               /\ Type(answer(n)[k]) = "stdout" => Len(Content(answer(n)[k])) \in 1..OutSize
          /\ ~KeepsConn(received[ended[n]]) <=> (n = Len(ends) /\ state = "disconnected")

===============================================================================
