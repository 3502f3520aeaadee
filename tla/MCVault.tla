------------------------------- MODULE MCVault -------------------------------
(* A small instance of Vault: an upload of three chunks through the tunnel    *)
(* and one of one chunk at the API, under the same name, so that a download   *)
(* can meet either of them unfinished, or both; an upload under a shorter     *)
(* name, which a cut request for the other reads as; a chat message, typed on *)
(* either page.  In base 2 the request for chunk 2 can be cut to one for 1.   *)
EXTENDS Vault

CONSTANTS tunnelled, direct, other

MCNameOf   == [u \in {tunnelled, direct, other} |-> IF u = other THEN "fil" ELSE "file"]
MCChunksOf == [u \in {tunnelled, direct, other} |->
                 IF u = tunnelled THEN 3 ELSE 1]
MCReadAs   == [f \in {"file", "fil"} |-> IF f = "file" THEN {"fil"} ELSE {}]
=============================================================================
