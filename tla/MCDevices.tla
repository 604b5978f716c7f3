------------------------------ MODULE MCDevices ------------------------------
(***************************************************************************)
(* Small modules for TLC.  The view is the module's own, over an empty     *)
(* module, an instrument, and two units in a row; or that of an instrument *)
(* which has an effect inside, expressions and a stream interface.         *)
(***************************************************************************)
EXTENDS Devices

MCProcPorts ==
    [t \in {"force", "pitch", "add", "stream"} |->
        CASE t = "add" -> {In(0), In(1), Out(0)}
          [] t = "stream" -> {In(0), Out(0)}
          [] OTHER -> {Out(0)}]

OneInstrument == AddInstrument(NoDevices, <<0>>, 0)
InstrumentAndEffect == AddEffect(OneInstrument, <<1>>, 1)
TwoInstruments == AddInstrument(OneInstrument, <<1>>, 1)
Chained ==
    [InstrumentAndEffect EXCEPT
       !.edges[<<>>] = <<<<MakePath(UnitDevice(<<1>>), Out(0)), <<Out(0)>>>>,
                         <<MakePath(UnitDevice(<<0>>), Out(0)), MakePath(UnitDevice(<<1>>), In(0))>>>>,
       !.placed[<<>>] = {Master, UnitDevice(<<0>>)},
       !.channels[1] = 1]

(* Instruments that have lost processors they were made with: one has a    *)
(* stream processor and an expression, the other an effect inside.         *)
Without(d, n) ==
    DropLayout(RemoveProcessor(DisconnectDevice(d, <<0>>, ProcDevice(n)), <<0>>, n), <<0>>, ProcDevice(n))
Small == Without(Without(OneInstrument, 0), 1)
Expressive ==
    LET exprs == AddExpression(AddStream(AddProcessor(Without(Small, 2), <<0>>, 0, "stream"), <<0>>), <<0>>)
    IN SetDefaultExpression(ToggleFilter(exprs, <<0>>, 0, ProcDevice(0)), <<0>>, 0)
Nesting == AddNestedEffect(Small, <<0, 0>>)
MCBeginnings == (<<>> :> {NoDevices, TwoInstruments, Chained}) @@ (<<0>> :> {Expressive, Nesting})
=============================================================================
