---------------------------- MODULE MC_GrpcServer ----------------------------
(* Two concurrent calls, streams of at most two of two different requests, with *)
(* and without a stub, TensorFlow Serving hanging for any of the calls or none. *)
EXTENDS GrpcServer
=============================================================================
