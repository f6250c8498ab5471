-------------------------------- MODULE MCCodec --------------------------------
(***************************************************************************)
(* Instances of Codec for TLC: the inputs <<bytesoftype, bytes>> of each   *)
(* run, given to compress in any order on the same context.                *)
(***************************************************************************)
EXTENDS Codec

\* Empty; one superblock by default, three with the custom shift 0; one and two
\* whole superblocks with it; three superblocks at level 1 and two at level 3
\* by default.
MCInputs == {<<1, 0>>, <<2, 1300>>, <<1, 512>>, <<1, 262145>>}

\* A frame made with default parameters at any level, kept while the context serves
\* calls for the input of MCBetween: with other superblock sizes, custom or not.
MCKept == {<<1, 512, 0>>}
MCBetween == {<<2, 1300>>}

\* A whole number of default superblocks, and a size none divides.
RoundTripInputs == {<<4, 131072>>, <<4, 262144>>, <<4, 40000>>}

MCShortfalls == {0, 5, 100000}
MCCuts == {0, 5}
NoShortfall == {0}
NoCut == {0}
NoInput == {}
===============================================================================
