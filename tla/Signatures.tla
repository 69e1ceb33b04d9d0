----------------------------- MODULE Signatures -----------------------------
(***************************************************************************)
(* What the generated bindings say of the protocols: for each interface,   *)
(* the arguments each request method encodes and each case of Dispatch     *)
(* decodes, in the order the code handles them, the opcodes HasFD answers  *)
(* true for and the opcodes AbsorbNewIDs handles.  The three come from     *)
(* three functions of each proxy type: nothing makes them agree but the    *)
(* scanner that wrote them.                                                *)
(*                                                                         *)
(* An argument is one letter, as in the protocol: "u", "i" and "f" are     *)
(* 32-bit words, "o" is an object, "n" a new_id, "s" a string, "a" an      *)
(* array, "h" a descriptor (no bytes in the body); "?" marks those that    *)
(* may be null.  Registry.Bind's untyped new_id is "s", "u", "n".          *)
(* A sequence is indexed by opcode + 1.                                    *)
(***************************************************************************)
EXTENDS Naturals, Sequences

(* A request and the proxy its method marks a zombie when it returns.      *)
Req(sig) == [sig |-> sig, marks |-> "none"]
Dtor(sig) == [sig |-> sig, marks |-> "self"]
DtorOf(sig) == [sig |-> sig, marks |-> "argument"]

(* The core protocol (client/client.go).                                   *)
DisplayRequests == << Req(<<"n">>), Req(<<"n">>) >>
DisplayEvents == << <<"o", "u", "s">>, <<"u">> >>
RegistryRequests == << Req(<<"u", "s", "u", "n">>) >>
RegistryEvents == << <<"u", "s", "u">>, <<"u">> >>
CallbackEvents == << <<"u">> >>
CompositorRequests == << Req(<<"n">>), Req(<<"n">>) >>
ShmPoolRequests == << Req(<<"n", "i", "i", "i", "i", "u">>), Dtor(<< >>), Req(<<"i">>) >>
ShmRequests == << Req(<<"n", "h", "i">>), Dtor(<< >>) >>
ShmEvents == << <<"u">> >>
BufferRequests == << Dtor(<< >>) >>
BufferEvents == << << >> >>
DataOfferTransfer == << Req(<<"u", "?s">>), Req(<<"s", "h">>), Dtor(<< >>) >>
DataOfferActions == << Req(<< >>), Req(<<"u", "u">>) >>
DataOfferEvents == << <<"s">>, <<"u">>, <<"u">> >>
DataSourceRequests == << Req(<<"s">>), Dtor(<< >>), Req(<<"u">>) >>
DataSourceEvents == << <<"?s">>, <<"s", "h">>, << >>, << >>, << >>, <<"u">> >>
WrongDataSourceHasFD == {0}
DataSourceHasFD == {1}
DataDeviceRequests == << Req(<<"?o", "o", "?o", "u">>), Req(<<"?o", "u">>), Dtor(<< >>) >>
DataDeviceEvents ==
    << <<"n">>, <<"u", "o", "f", "f", "o">>, << >>, <<"u", "f", "f">>, << >>, <<"o">> >>
DataDeviceAbsorbs == {0}
DataDeviceManagerRequests == << Req(<<"n">>), Req(<<"n", "o">>) >>
ShellRequests == << Req(<<"n", "o">>) >>
ShellSurfaceInteraction ==
    << Req(<<"u">>), Req(<<"o", "u">>), Req(<<"o", "u", "u">>), Req(<< >>),
       Req(<<"o", "i", "i", "u">>) >>
ShellSurfaceModes == << Req(<<"u", "u", "?o">>), Req(<<"o", "u", "o", "i", "i", "u">>) >>
ShellSurfaceTitles == << Req(<<"?o">>), Req(<<"s">>), Req(<<"s">>) >>
ShellSurfaceEvents == << <<"u">>, <<"u", "i", "i">>, << >> >>
SurfaceContent ==
    << Dtor(<< >>), Req(<<"?o", "i", "i">>), Req(<<"i", "i", "i", "i">>), Req(<<"n">>) >>
SurfaceRegions == << Req(<<"?o">>), Req(<<"?o">>), Req(<< >>) >>
SurfaceBuffer ==
    << Req(<<"i">>), Req(<<"i">>), Req(<<"i", "i", "i", "i">>), Req(<<"i", "i">>) >>
SurfaceEvents == << <<"o">>, <<"o">>, <<"i">>, <<"u">> >>
SeatRequests == << Req(<<"n">>), Req(<<"n">>), Req(<<"n">>), Dtor(<< >>) >>
SeatEvents == << <<"u">>, <<"s">> >>
PointerRequests == << Req(<<"u", "?o", "i", "i">>), Dtor(<< >>) >>
PointerEvents ==
    << <<"u", "o", "f", "f">>, <<"u", "o">>, <<"u", "f", "f">>, <<"u", "u", "u", "u">>,
       <<"u", "u", "f">>, << >>, <<"u">>, <<"u", "u">>, <<"u", "i">>, <<"u", "i">>,
       <<"u", "u">> >>
KeyboardRequests == << Dtor(<< >>) >>
KeyboardEvents ==
    << <<"u", "h", "u">>, <<"u", "o", "a">>, <<"u", "o">>, <<"u", "u", "u", "u">>,
       <<"u", "u", "u", "u", "u">>, <<"i", "i">> >>
WrongKeyboardHasFD == {}
KeyboardHasFD == {0}
TouchRequests == << Dtor(<< >>) >>
TouchEvents ==
    << <<"u", "u", "o", "i", "f", "f">>, <<"u", "u", "i">>, <<"u", "i", "f", "f">>, << >>,
       << >>, <<"i", "f", "f">>, <<"i", "f">> >>
OutputRequests == << Dtor(<< >>) >>
OutputEvents ==
    << <<"i", "i", "i", "i", "i", "s", "s", "i">>, <<"u", "i", "i", "i">>, << >>, <<"i">>,
       <<"s">>, <<"s">> >>
RegionRequests ==
    << Dtor(<< >>), Req(<<"i", "i", "i", "i">>), Req(<<"i", "i", "i", "i">>) >>
SubcompositorRequests == << Dtor(<< >>), Req(<<"n", "o", "o">>) >>
SubsurfacePlace == << Dtor(<< >>), Req(<<"i", "i">>), Req(<<"o">>), Req(<<"o">>) >>
SubsurfaceMode == << Req(<< >>), Req(<< >>) >>
FixesRequests == << Dtor(<< >>), DtorOf(<<"o">>) >>

(* cursor-shape-v1.                                                        *)
CursorShapeManagerRequests == << Dtor(<< >>), Req(<<"n", "o">>), Req(<<"n", "o">>) >>
CursorShapeDeviceRequests == << Dtor(<< >>), Req(<<"u", "u">>) >>

(* tablet-v2: a seat introduces its pads, a pad its groups, a group its    *)
(* rings and strips.                                                       *)
TabletManagerRequests == << Req(<<"n", "o">>), Dtor(<< >>) >>
TabletSeatRequests == << Dtor(<< >>) >>
TabletSeatEvents == << <<"n">>, <<"n">>, <<"n">> >>
TabletSeatAbsorbs == {0, 1, 2}
TabletToolRequests == << Req(<<"u", "?o", "i", "i">>), Dtor(<< >>) >>
TabletToolPresence ==
    << <<"u">>, <<"u", "u">>, <<"u", "u">>, <<"u">>, << >>, << >>, <<"u", "o", "o">>,
       << >>, <<"u">> >>
TabletToolAxes ==
    << << >>, <<"f", "f">>, <<"u">>, <<"u">>, <<"f", "f">>, <<"f">>, <<"i">>, <<"f", "i">>,
       <<"u", "u", "u">>, <<"u">> >>
TabletRequests == << Dtor(<< >>) >>
TabletEvents == << <<"s">>, <<"u", "u">>, <<"s">>, << >>, << >> >>
PadRingRequests == << Req(<<"s", "u">>), Dtor(<< >>) >>
PadRingEvents == << <<"u">>, <<"f">>, << >>, <<"u">> >>
PadStripRequests == << Req(<<"s", "u">>), Dtor(<< >>) >>
PadStripEvents == << <<"u">>, <<"u">>, << >>, <<"u">> >>
PadGroupRequests == << Dtor(<< >>) >>
PadGroupEvents == << <<"a">>, <<"n">>, <<"n">>, <<"u">>, << >>, <<"u", "u", "u">> >>
PadGroupAbsorbs == {1, 2}
PadRequests == << Req(<<"u", "s", "u">>), Dtor(<< >>) >>
PadEvents ==
    << <<"n">>, <<"s">>, <<"u">>, << >>, <<"u", "u", "u">>, <<"u", "o", "o">>,
       <<"u", "o">>, << >> >>
PadAbsorbs == {0}

(* ext-idle-notify-v1.                                                     *)
IdleNotifierRequests == << Dtor(<< >>), Req(<<"n", "u", "o">>), Req(<<"n", "u", "o">>) >>
IdleNotificationRequests == << Dtor(<< >>) >>
IdleNotificationEvents == << << >>, << >> >>

(* ext-session-lock-v1.                                                    *)
SessionLockManagerRequests == << Dtor(<< >>), Req(<<"n">>) >>
SessionLockRequests == << Dtor(<< >>), Req(<<"n", "o", "o">>), Dtor(<< >>) >>
SessionLockEvents == << << >>, << >> >>
LockSurfaceRequests == << Dtor(<< >>), Req(<<"u">>) >>
LockSurfaceEvents == << <<"u", "u", "u">> >>

(* text-input-unstable-v3.                                                 *)
TextInputState == << Dtor(<< >>), Req(<< >>), Req(<< >>), Req(<<"s", "i", "i">>) >>
TextInputContent ==
    << Req(<<"u">>), Req(<<"u", "u">>), Req(<<"i", "i", "i", "i">>), Req(<< >>) >>
TextInputEvents ==
    << <<"o">>, <<"o">>, <<"?s", "i", "i">>, <<"?s">>, <<"u", "u">>, <<"u">> >>
TextInputManagerRequests == << Dtor(<< >>), Req(<<"n", "o">>) >>

-----------------------------------------------------------------------------
(* The interfaces.  A type without events has no Dispatch method.          *)
Both(requests, events, hasFD, absorbs) ==
    [requests |-> requests, events |-> events, hasFD |-> hasFD, absorbs |-> absorbs]
RequestsOnly(requests) == Both(requests, << >>, {}, {})

Interfaces == [
    Display |-> Both(DisplayRequests, DisplayEvents, {}, {}),
    Registry |-> Both(RegistryRequests, RegistryEvents, {}, {}),
    Callback |-> Both(<< >>, CallbackEvents, {}, {}),
    Compositor |-> RequestsOnly(CompositorRequests),
    ShmPool |-> RequestsOnly(ShmPoolRequests),
    Shm |-> Both(ShmRequests, ShmEvents, {}, {}),
    Buffer |-> Both(BufferRequests, BufferEvents, {}, {}),
    DataOffer |-> Both(DataOfferTransfer \o DataOfferActions, DataOfferEvents, {}, {}),
    DataSource |-> Both(DataSourceRequests, DataSourceEvents, DataSourceHasFD, {}),
    DataDevice |-> Both(DataDeviceRequests, DataDeviceEvents, {}, DataDeviceAbsorbs),
    DataDeviceManager |-> RequestsOnly(DataDeviceManagerRequests),
    Shell |-> RequestsOnly(ShellRequests),
    ShellSurface |-> Both(ShellSurfaceInteraction \o ShellSurfaceModes \o ShellSurfaceTitles,
        ShellSurfaceEvents, {}, {}),
    Surface |-> Both(SurfaceContent \o SurfaceRegions \o SurfaceBuffer,
        SurfaceEvents, {}, {}),
    Seat |-> Both(SeatRequests, SeatEvents, {}, {}),
    Pointer |-> Both(PointerRequests, PointerEvents, {}, {}),
    Keyboard |-> Both(KeyboardRequests, KeyboardEvents, KeyboardHasFD, {}),
    Touch |-> Both(TouchRequests, TouchEvents, {}, {}),
    Output |-> Both(OutputRequests, OutputEvents, {}, {}),
    Region |-> RequestsOnly(RegionRequests),
    Subcompositor |-> RequestsOnly(SubcompositorRequests),
    Subsurface |-> RequestsOnly(SubsurfacePlace \o SubsurfaceMode),
    Fixes |-> RequestsOnly(FixesRequests),
    CursorShapeManager |-> RequestsOnly(CursorShapeManagerRequests),
    CursorShapeDevice |-> RequestsOnly(CursorShapeDeviceRequests),
    TabletManager |-> RequestsOnly(TabletManagerRequests),
    TabletSeat |-> Both(TabletSeatRequests, TabletSeatEvents, {}, TabletSeatAbsorbs),
    TabletTool |-> Both(TabletToolRequests,
        TabletToolPresence \o TabletToolAxes, {}, {}),
    Tablet |-> Both(TabletRequests, TabletEvents, {}, {}),
    PadRing |-> Both(PadRingRequests, PadRingEvents, {}, {}),
    PadStrip |-> Both(PadStripRequests, PadStripEvents, {}, {}),
    PadGroup |-> Both(PadGroupRequests, PadGroupEvents, {}, PadGroupAbsorbs),
    Pad |-> Both(PadRequests, PadEvents, {}, PadAbsorbs),
    IdleNotifier |-> RequestsOnly(IdleNotifierRequests),
    IdleNotification |-> Both(IdleNotificationRequests, IdleNotificationEvents, {}, {}),
    SessionLockManager |-> RequestsOnly(SessionLockManagerRequests),
    SessionLock |-> Both(SessionLockRequests, SessionLockEvents, {}, {}),
    LockSurface |-> Both(LockSurfaceRequests, LockSurfaceEvents, {}, {}),
    TextInput |-> Both(TextInputState \o TextInputContent, TextInputEvents, {}, {}),
    TextInputManager |-> RequestsOnly(TextInputManagerRequests)
]

(* One record for each case of each Dispatch, and for the opcode one past  *)
(* the last.  wl_display's events are acted on without a handler ("loud"), *)
(* and its error, opcode 0, fails the connection.                          *)
Event(i, op) ==
    LET type == Interfaces[i]
        known == op < Len(type.events)
    IN  [iface |-> i, known |-> known,
         sig |-> IF known THEN type.events[op + 1] ELSE << >>,
         dispatcher |-> type.events # << >>,
         fails |-> i = "Display" /\ op = 0,
         hasFD |-> op \in type.hasFD,
         absorbs |-> op \in type.absorbs,
         loud |-> i = "Display"]
ShippedEvents ==
    UNION {{Event(i, op) : op \in 0 .. Len(Interfaces[i].events)} : i \in DOMAIN Interfaces}

ShippedRequests ==
    UNION {{Interfaces[i].requests[k] : k \in DOMAIN Interfaces[i].requests} : i \in DOMAIN Interfaces}

(* What the scanner writes for an interface it is given: HasFD and         *)
(* AbsorbNewIDs follow the signature.                                      *)
Has(sig, letter) == \E k \in 1 .. Len(sig) : sig[k] = letter
GeneratedEvent(sig) ==
    [iface |-> "Generated", known |-> TRUE, sig |-> sig, dispatcher |-> TRUE,
     hasFD |-> Has(sig, "h"), absorbs |-> Has(sig, "n"), loud |-> FALSE, fails |-> FALSE]
=============================================================================
