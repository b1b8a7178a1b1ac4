------------------------------- MODULE MCChannel -------------------------------
(* Small instances of Channel: the messages of the protocols, each with some *)
(* content, next to a second thread that sends a ping.                       *)
EXTENDS Channel, NetMessages

\* Different values in all fields; strings and arrays of n elements.
Content(id, n) ==
  <<>> \o [i \in DOMAIN Descriptor(id) |->
     LET type == Descriptor(id)[i] IN
     IF type \in {"string", "var"} THEN [j \in 1..n |-> 10 * i + j]
     ELSE IF type = "count" THEN n ELSE 10 * i]

Of(ids, n) == {[id |-> id, data |-> Content(id, n)] : id \in ids}

Ranks == "Auth2Cli_ScoreGetRanksReply"

\* All messages with strings and arrays of two elements, some with empty ones.
ButRanks ==
  Of(DOMAIN MessageFields \ {Ranks}, 2) \union
  Of(DOMAIN GameFields \union {"Auth2Cli_AcctPlayerInfo"}, 0)

\* One message is one that the receiver does not know.
PingOrUnknown == {[id |-> "Cli2Game_PingRequest", data |-> <<1>>],
                  [id |-> "Auth2Cli_AcctData", data |-> <<>>]}

EveryMessage == [h1 |-> <<ButRanks>>, h2 |-> <<PingOrUnknown>>]

RanksOnly == [h1 |-> <<Of({Ranks}, 2)>>]
=============================================================================
