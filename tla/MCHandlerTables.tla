-------------------------- MODULE MCHandlerTables --------------------------
(***************************************************************************)
(* Small instances of HandlerTables: two cages and what register_raw,      *)
(* register_raw_with_argcages and register_grate register.                 *)
(***************************************************************************)
EXTENDS HandlerTables, TLC

Zeros == "zeros"
Pins  == "pins"
Rec(kind, g, f, args) == [kind |-> kind, grateid |-> g, fnptr |-> f, args |-> args]

Plain      == Rec("raw", 1, 9, Zeros)
Pinned     == Rec("raw", 1, 9, Pins)
Grate100   == Rec("grate", 100, 1, Zeros)

RaceHandlers   == {Pinned, Grate100}
NarrowHandlers == {Plain, Pinned, Grate100}

AllBackends == {"mutex", "dash", "flat"}
Alike == Permutations(Thread)
=============================================================================
