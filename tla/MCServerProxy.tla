---------------------------- MODULE MCServerProxy ----------------------------
(* A small instance of ServerProxy: a request answered by the proxy itself,   *)
(* one that ends within its headers, a reply that ends within a block, and    *)
(* one of two full blocks, which is too large for a datagram.                 *)
EXTENDS ServerProxy

CONSTANTS local, headless, page, image

MCSizeOf == [r \in {local, headless, page, image} |->
               CASE r = page -> 3 [] r = image -> 4 [] OTHER -> 1]
=============================================================================
