------------------------------ MODULE MCPolicy ------------------------------
(* Module Policy for all files of up to MaxLines chunks.                   *)
EXTENDS Policy

MaxLines == 4
MCChunks == {[entry |-> FALSE, key |-> "read", value |-> "other"]}
              \cup [entry : {TRUE}, key : CallNumbers,
                    value : {"ALLOW_LIND", "DENY_LIND", "other"}]
MCFiles == UNION {[1..n -> MCChunks] : n \in 0..MaxLines}
=============================================================================
