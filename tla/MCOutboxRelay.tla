---------------------------- MODULE MCOutboxRelay ----------------------------
(* Model-checking instances of OutboxRelay. *)
EXTENDS OutboxRelay, TLC

\* Every relay claims under the default consumer_name, "scoring-outbox-relay".
MCConsumerName == [w \in Worker |-> CHOOSE c \in Consumer : TRUE]
=============================================================================
