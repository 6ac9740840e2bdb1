---------------------------- MODULE MCPGPeering ----------------------------
(* Instances of PGPeering. *)
EXTENDS PGPeering

Pool(size, k, min_size, max_interval) ==
  [size |-> size, k |-> k, min_size |-> min_size, max_interval |-> max_interval]

(* Any two acting sets of the first pool share enough shards to read an object,
   those of the second at least one, those of the third may share none. *)
SmallPools == {Pool(4, 2, 3, 4), Pool(3, 2, 2, 4), Pool(4, 2, 2, 3)}
=============================================================================
