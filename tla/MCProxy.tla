------------------------------ MODULE MCProxy ------------------------------
(* Instances of Proxy for TLC: the sets of handles are sets of model values, *)
(* the handles of a kind are interchangeable, and a bound on the bytes that  *)
(* arrive is given for the clients and for the upstreams.                    *)
EXTENDS Proxy

CONSTANTS DownBytes,  \* bound of the model: bytes that arrive from a client
          UpBytes     \* bound of the model: bytes that arrive from an upstream

MCMaxBytes == [h \in Handle |-> IF h \in Down THEN DownBytes ELSE UpBytes]

MCSymmetry == Permutations(Down) \cup Permutations(Up)
=============================================================================
