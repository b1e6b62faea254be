--------------------------- MODULE SessionProofs ---------------------------
(* Theorems about Session, whichever calls may fail.                        *)
EXTENDS Session, TLAPS

-----------------------------------------------------------------------------
(* The inductive invariant, in parts.                                       *)

\* Where main() is tells what the view and the flag are, and nothing is checked
\* for use once the flag is set.
MainInv ==
    /\ stopped <=> mainPc \in {"stopping", "returned"}
    /\ viewLive <=> mainPc \in {"running", "stopping"}
    /\ mainPc # "running" => guiUse = "none"
    /\ rdpPc = "none" => mainPc \in {"loading", "returned"}
    /\ mainPc = "loading" => rdpPc = "none"
    /\ mainPc = "returned" => rdpPc \in {"none", "done"}

\* The states of the RDP thread in which the library's objects are there.
Unconnected == {"none", "started", "new", "preConnect"}
Underway == {"connecting", "loop", "waiting", "checking"}

LibraryInv ==
    /\ rdpPc \in {"none", "started"} => instance = "none"
    /\ rdpPc = "done" => instance # "live"
    /\ rdpPc \in {"none", "started", "new"} => context = "none"
    /\ rdpPc \in Underway \cup {"preConnect", "disconnect"} => context = "live"
    /\ rdpPc \in {"free"} => context # "freed"
    /\ rdpPc = "done" => context # "live"

\* A plugin that is allocated is registered and has a context, until it is freed.
PluginInv ==
    /\ rdpPc \in Unconnected => plugin = "none" /\ ~connected
    /\ rdpPc \in Underway => plugin = "live"
    /\ rdpPc = "done" => plugin # "live"
    /\ plugin = "live" => registered /\ context = "live"

\* It is freed as often as the count says.
CountInv == frees = (IF plugin = "freed" THEN 1 ELSE 0)

\* A channel that is open is connected, and its plugin is there.
ChannelInv ==
    /\ opened = "open" \/ channel = "running" => connected
    /\ connected => plugin = "live"

\* What the GUI thread uses was checked when it was there to be checked.
ViewInv ==
    /\ rdpPc \in Established => connected /\ viewContext = "context"
    /\ rdpPc = "connecting" => ~(connected /\ viewContext = "context")
    /\ rdpPc \in Unconnected => viewContext # "context"

IndInv ==
    /\ TypeOK /\ MainInv /\ LibraryInv /\ PluginInv /\ CountInv /\ ChannelInv
    /\ ViewInv

-----------------------------------------------------------------------------
(* Each part is kept by every step.                                         *)

\* The initial states satisfy it.
LEMMA InitInv == Init => IndInv
  BY DEF Init, IndInv, TypeOK, MainInv, LibraryInv, PluginInv, CountInv,
         ChannelInv, ViewInv, Unconnected, Underway, Established

\* The plugin is freed once: by the entry function before it is registered, or
\* on termination.
LEMMA CountStep ==
    TypeOK /\ PluginInv /\ CountInv /\ [Next]_vars => CountInv'
<1>1. TypeOK /\ PluginInv /\ CountInv /\ LoadChannels => CountInv'
  BY DEF LoadChannels, PluginInv, Unconnected, CountInv, TypeOK, main, view,
     library, channelVars, events
<1>2. TypeOK /\ PluginInv /\ CountInv /\ ChannelTerminated => CountInv'
  BY DEF ChannelTerminated, CountInv, TypeOK, main, view, library,
     channelVars, events
<1>3. TypeOK /\ PluginInv /\ CountInv /\ (LoadFails \/ Start \/ Quit \/
      CheckContext \/ UseContext \/ Join \/ New \/ NewContext \/ ConnectFails
      \/ PostConnect \/ ChannelConnected \/ LoopTest \/ Wake \/ CheckHandles
      \/ ChannelDisconnected \/ Disconnected \/ Free \/ ChannelMonitorReady \/ ChannelQuits \/ ChannelStrays \/
      ChannelFails \/ ServerSends \/ ServerGoes) => CountInv'
  BY DEF LoadFails, Start, Quit, CheckContext, UseContext, Join, New,
     NewContext, ConnectFails, PostConnect, ChannelConnected, LoopTest,
     Wake, CheckHandles, ChannelDisconnected, QuitHandler, CloseChannel, Disconnected, Free,
     ChannelMonitorReady, ChannelQuits, ChannelStrays, ChannelFails, ServerSends, ServerGoes, CountInv,
     TypeOK, main, view, library, channelVars, events
<1>4. TypeOK /\ PluginInv /\ CountInv /\ UNCHANGED vars => CountInv'
  BY DEF CountInv, TypeOK, main, view, library, channelVars, events, vars
<1> QED  BY <1>1, <1>2, <1>3, <1>4 DEF Next, Gui, Rdp, Channel

\* Every action keeps the types of the variables, if the plugin is freed at
\* most once.
LEMMA TypeStep ==
    TypeOK /\ frees' \in {0, 1} /\ [Next]_vars => TypeOK'
<1>1. TypeOK /\ frees' \in {0, 1} /\ UseContext => TypeOK'
  BY DEF UseContext, TypeOK, main, view, library, channelVars, events
<1>2. TypeOK /\ frees' \in {0, 1} /\ LoadChannels => TypeOK'
  BY DEF LoadChannels, TypeOK, main, view, library, channelVars, events
<1>3. TypeOK /\ frees' \in {0, 1} /\ ChannelConnected => TypeOK'
  BY DEF ChannelConnected, TypeOK, main, view, library, channelVars, events
<1>4. TypeOK /\ frees' \in {0, 1} /\ CheckHandles => TypeOK'
  BY DEF CheckHandles, TypeOK, main, view, library, channelVars, events
<1>5. TypeOK /\ frees' \in {0, 1} /\ ChannelTerminated => TypeOK'
  BY DEF ChannelTerminated, TypeOK, main, view, library, channelVars, events
<1>6. TypeOK /\ frees' \in {0, 1} /\ (LoadFails \/ Start \/ Quit \/
      CheckContext \/ Join) => TypeOK'
  BY DEF LoadFails, Start, Quit, CheckContext, Join, TypeOK, main, view,
     library, channelVars, events
<1>7. TypeOK /\ frees' \in {0, 1} /\ (New \/ NewContext \/ ConnectFails \/
      PostConnect) => TypeOK'
  BY DEF New, NewContext, ConnectFails, PostConnect, TypeOK, main, view,
     library, channelVars, events
<1>8. TypeOK /\ frees' \in {0, 1} /\ (LoopTest \/ Wake \/ ChannelDisconnected
      \/ Disconnected \/ Free) => TypeOK'
  BY DEF LoopTest, Wake, ChannelDisconnected, QuitHandler, CloseChannel, Disconnected, Free, TypeOK,
     main, view, library, channelVars, events
<1>9. TypeOK /\ frees' \in {0, 1} /\ (ChannelMonitorReady \/ ChannelQuits \/ ChannelStrays \/ ChannelFails \/
      ServerSends \/ ServerGoes) => TypeOK'
  BY DEF ChannelMonitorReady, ChannelQuits, ChannelStrays, ChannelFails, ServerSends, ServerGoes, TypeOK,
     main, view, library, channelVars, events
<1>10. TypeOK /\ frees' \in {0, 1} /\ UNCHANGED vars => TypeOK'
  BY DEF TypeOK, main, view, library, channelVars, events, vars
<1> QED  BY <1>1, <1>2, <1>3, <1>4, <1>5, <1>6, <1>7, <1>8, <1>9, <1>10 DEF
     Next, Gui, Rdp, Channel

\* main() and the flag keep in step, whatever the other threads do.
LEMMA MainStep ==
    TypeOK /\ MainInv /\ [Next]_vars => MainInv'
<1>1. TypeOK /\ MainInv /\ LoadFails => MainInv'
  BY DEF LoadFails, MainInv, TypeOK, main, view, library, channelVars, events
<1>2. TypeOK /\ MainInv /\ Start => MainInv'
  BY DEF Start, MainInv, TypeOK, main, view, library, channelVars, events
<1>3. TypeOK /\ MainInv /\ Quit => MainInv'
  BY DEF Quit, MainInv, TypeOK, main, view, library, channelVars, events
<1>4. TypeOK /\ MainInv /\ CheckContext => MainInv'
  BY DEF CheckContext, MainInv, TypeOK, main, view, library, channelVars,
     events
<1>5. TypeOK /\ MainInv /\ UseContext => MainInv'
  BY DEF UseContext, MainInv, TypeOK, main, view, library, channelVars, events
<1>6. TypeOK /\ MainInv /\ Join => MainInv'
  BY DEF Join, MainInv, TypeOK, main, view, library, channelVars, events
<1>7. TypeOK /\ MainInv /\ Free => MainInv'
  BY DEF Free, MainInv, TypeOK, main, view, library, channelVars, events
<1>8. TypeOK /\ MainInv /\ ChannelConnected => MainInv'
  BY DEF ChannelConnected, MainInv, TypeOK, main, view, library, channelVars,
     events
<1>9. TypeOK /\ MainInv /\ (New \/ NewContext \/ LoadChannels \/ ConnectFails
      \/ PostConnect) => MainInv'
  BY DEF New, NewContext, LoadChannels, ConnectFails, PostConnect, MainInv,
     TypeOK, main, view, library, channelVars, events
<1>10. TypeOK /\ MainInv /\ (LoopTest \/ Wake \/ CheckHandles \/ Disconnected)
      => MainInv'
  BY DEF LoopTest, Wake, CheckHandles, Disconnected, MainInv, TypeOK, main,
     view, library, channelVars, events
<1>11. TypeOK /\ MainInv /\ (ChannelDisconnected \/ ChannelTerminated \/
      ChannelMonitorReady \/ ChannelQuits \/ ChannelStrays \/ ChannelFails \/ ServerSends \/ ServerGoes) =>
      MainInv'
  BY DEF ChannelDisconnected, QuitHandler, CloseChannel, ChannelTerminated, ChannelMonitorReady, ChannelQuits, ChannelStrays,
     ChannelFails, ServerSends, ServerGoes, MainInv, TypeOK, main, view,
     library, channelVars, events
<1>12. TypeOK /\ MainInv /\ UNCHANGED vars => MainInv'
  BY DEF MainInv, TypeOK, main, view, library, channelVars, events, vars
<1> QED  BY <1>1, <1>2, <1>3, <1>4, <1>5, <1>6, <1>7, <1>8, <1>9, <1>10,
     <1>11, <1>12 DEF Next, Gui, Rdp, Channel

\* The instance and the context are made and freed at their states of the RDP
\* thread.
LEMMA LibraryStep ==
    TypeOK /\ MainInv /\ LibraryInv /\ [Next]_vars => LibraryInv'
<1>1. TypeOK /\ MainInv /\ LibraryInv /\ Start => LibraryInv'
  BY DEF Start, LibraryInv, MainInv, Underway, TypeOK, main, view, library,
     channelVars, events
<1>2. TypeOK /\ MainInv /\ LibraryInv /\ (New \/ NewContext) => LibraryInv'
  BY DEF New, NewContext, LibraryInv, MainInv, Underway, TypeOK, main, view,
     library, channelVars, events
<1>3. TypeOK /\ MainInv /\ LibraryInv /\ (LoadChannels \/ ConnectFails \/
      PostConnect \/ ChannelConnected) => LibraryInv'
  BY DEF LoadChannels, ConnectFails, PostConnect, ChannelConnected,
     LibraryInv, MainInv, Underway, TypeOK, main, view, library,
     channelVars, events
<1>4. TypeOK /\ MainInv /\ LibraryInv /\ (LoopTest \/ Wake \/ CheckHandles \/
      Disconnected \/ Free) => LibraryInv'
  BY DEF LoopTest, Wake, CheckHandles, Disconnected, Free, LibraryInv,
     MainInv, Underway, TypeOK, main, view, library, channelVars, events
<1>5. TypeOK /\ MainInv /\ LibraryInv /\ (LoadFails \/ Quit \/ CheckContext \/
      UseContext \/ Join \/ ChannelDisconnected \/ ChannelTerminated \/
      ChannelMonitorReady \/ ChannelQuits \/ ChannelStrays \/ ChannelFails \/ ServerSends \/ ServerGoes) =>
      LibraryInv'
  BY DEF LoadFails, Quit, CheckContext, UseContext, Join, ChannelDisconnected, QuitHandler, CloseChannel,
     ChannelTerminated, ChannelMonitorReady, ChannelQuits, ChannelStrays, ChannelFails, ServerSends,
     ServerGoes, LibraryInv, MainInv, Underway, TypeOK, main, view, library,
     channelVars, events
<1>6. TypeOK /\ MainInv /\ LibraryInv /\ UNCHANGED vars => LibraryInv'
  BY DEF LibraryInv, MainInv, Underway, TypeOK, main, view, library,
     channelVars, events, vars
<1> QED  BY <1>1, <1>2, <1>3, <1>4, <1>5, <1>6 DEF Next, Gui, Rdp, Channel

\* The plugin is registered or freed when it is made, freed when it is
\* terminated, and never left behind.
LEMMA PluginStep ==
    TypeOK /\ MainInv /\ LibraryInv /\ PluginInv /\ ChannelInv /\ [Next]_vars => PluginInv'
<1>1. TypeOK /\ MainInv /\ LibraryInv /\ PluginInv /\ ChannelInv /\ Start =>
      PluginInv'
  BY DEF Start, PluginInv, ChannelInv, LibraryInv, MainInv, Unconnected,
     Underway, TypeOK, main, view, library, channelVars, events
<1>2. TypeOK /\ MainInv /\ LibraryInv /\ PluginInv /\ ChannelInv /\ UseContext
      => PluginInv'
  BY DEF UseContext, PluginInv, ChannelInv, LibraryInv, MainInv, Unconnected,
     Underway, TypeOK, main, view, library, channelVars, events
<1>3. TypeOK /\ MainInv /\ LibraryInv /\ PluginInv /\ ChannelInv /\
      LoadChannels => PluginInv'
  BY DEF LoadChannels, PluginInv, ChannelInv, LibraryInv, MainInv,
     Unconnected, Underway, TypeOK, main, view, library, channelVars, events
<1>4. TypeOK /\ MainInv /\ LibraryInv /\ PluginInv /\ ChannelInv /\
      ChannelConnected => PluginInv'
  BY DEF ChannelConnected, PluginInv, ChannelInv, LibraryInv, MainInv,
     Unconnected, Underway, TypeOK, main, view, library, channelVars, events
<1>5. TypeOK /\ MainInv /\ LibraryInv /\ PluginInv /\ ChannelInv /\
      ChannelDisconnected => PluginInv'
  BY DEF ChannelDisconnected, QuitHandler, CloseChannel, PluginInv, ChannelInv, LibraryInv, MainInv,
     Unconnected, Underway, TypeOK, main, view, library, channelVars, events
<1>6. TypeOK /\ MainInv /\ LibraryInv /\ PluginInv /\ ChannelInv /\
      ChannelTerminated => PluginInv'
  BY DEF ChannelTerminated, PluginInv, ChannelInv, LibraryInv, MainInv,
     Unconnected, Underway, TypeOK, main, view, library, channelVars, events
<1>7. TypeOK /\ MainInv /\ LibraryInv /\ PluginInv /\ ChannelInv /\ Free =>
      PluginInv'
  BY DEF Free, PluginInv, ChannelInv, LibraryInv, MainInv, Unconnected,
     Underway, TypeOK, main, view, library, channelVars, events
<1>8. TypeOK /\ MainInv /\ LibraryInv /\ PluginInv /\ ChannelInv /\ (New \/
      NewContext) => PluginInv'
  BY DEF New, NewContext, PluginInv, ChannelInv, LibraryInv, MainInv,
     Unconnected, Underway, TypeOK, main, view, library, channelVars, events
<1>9. TypeOK /\ MainInv /\ LibraryInv /\ PluginInv /\ ChannelInv /\
      (ConnectFails \/ PostConnect) => PluginInv'
  BY DEF ConnectFails, PostConnect, PluginInv, ChannelInv, LibraryInv,
     MainInv, Unconnected, Underway, TypeOK, main, view, library,
     channelVars, events
<1>10. TypeOK /\ MainInv /\ LibraryInv /\ PluginInv /\ ChannelInv /\ (LoopTest
      \/ Wake \/ CheckHandles \/ Disconnected) => PluginInv'
  BY DEF LoopTest, Wake, CheckHandles, Disconnected, PluginInv, ChannelInv,
     LibraryInv, MainInv, Unconnected, Underway, TypeOK, main, view,
     library, channelVars, events
<1>11. TypeOK /\ MainInv /\ LibraryInv /\ PluginInv /\ ChannelInv /\
      (LoadFails \/ Quit \/ CheckContext \/ Join \/ ChannelMonitorReady \/ ChannelQuits \/ ChannelStrays \/
      ChannelFails \/ ServerSends \/ ServerGoes) => PluginInv'
  BY DEF LoadFails, Quit, CheckContext, Join, ChannelMonitorReady, ChannelQuits, ChannelStrays,
     ChannelFails, ServerSends, ServerGoes, PluginInv, ChannelInv,
     LibraryInv, MainInv, Unconnected, Underway, TypeOK, main, view,
     library, channelVars, events
<1>12. TypeOK /\ MainInv /\ LibraryInv /\ PluginInv /\ ChannelInv /\ UNCHANGED
      vars => PluginInv'
  BY DEF PluginInv, ChannelInv, LibraryInv, MainInv, Unconnected, Underway,
     TypeOK, main, view, library, channelVars, events, vars
<1> QED  BY <1>1, <1>2, <1>3, <1>4, <1>5, <1>6, <1>7, <1>8, <1>9, <1>10,
     <1>11, <1>12 DEF Next, Gui, Rdp, Channel

\* A channel is opened with its connection and closed with it, while the plugin
\* is there.
LEMMA ChannelStep ==
    TypeOK /\ PluginInv /\ ChannelInv /\ [Next]_vars => ChannelInv'
<1>1. TypeOK /\ PluginInv /\ ChannelInv /\ UseContext => ChannelInv'
  BY DEF UseContext, ChannelInv, PluginInv, Unconnected, Underway, TypeOK,
     main, view, library, channelVars, events
<1>2. TypeOK /\ PluginInv /\ ChannelInv /\ LoadChannels => ChannelInv'
  BY DEF LoadChannels, ChannelInv, PluginInv, Unconnected, Underway, TypeOK,
     main, view, library, channelVars, events
<1>3. TypeOK /\ PluginInv /\ ChannelInv /\ ChannelConnected => ChannelInv'
  BY DEF ChannelConnected, ChannelInv, PluginInv, Unconnected, Underway,
     TypeOK, main, view, library, channelVars, events
<1>4. TypeOK /\ PluginInv /\ ChannelInv /\ ChannelDisconnected => ChannelInv'
  BY DEF ChannelDisconnected, QuitHandler, CloseChannel, ChannelInv, PluginInv, Unconnected, Underway,
     TypeOK, main, view, library, channelVars, events
<1>5. TypeOK /\ PluginInv /\ ChannelInv /\ ChannelTerminated => ChannelInv'
  BY DEF ChannelTerminated, ChannelInv, PluginInv, Unconnected, Underway,
     TypeOK, main, view, library, channelVars, events
<1>6. TypeOK /\ PluginInv /\ ChannelInv /\ ChannelFails => ChannelInv'
  BY DEF ChannelFails, ChannelInv, PluginInv, Unconnected, Underway, TypeOK,
     main, view, library, channelVars, events
<1>7. TypeOK /\ PluginInv /\ ChannelInv /\ (LoadFails \/ Start \/ Quit \/
      CheckContext \/ Join) => ChannelInv'
  BY DEF LoadFails, Start, Quit, CheckContext, Join, ChannelInv, PluginInv,
     Unconnected, Underway, TypeOK, main, view, library, channelVars, events
<1>8. TypeOK /\ PluginInv /\ ChannelInv /\ (New \/ NewContext \/ ConnectFails
      \/ PostConnect) => ChannelInv'
  BY DEF New, NewContext, ConnectFails, PostConnect, ChannelInv, PluginInv,
     Unconnected, Underway, TypeOK, main, view, library, channelVars, events
<1>9. TypeOK /\ PluginInv /\ ChannelInv /\ (LoopTest \/ Wake \/ CheckHandles
      \/ Disconnected \/ Free) => ChannelInv'
  BY DEF LoopTest, Wake, CheckHandles, Disconnected, Free, ChannelInv,
     PluginInv, Unconnected, Underway, TypeOK, main, view, library,
     channelVars, events
<1>10. TypeOK /\ PluginInv /\ ChannelInv /\ (ChannelMonitorReady \/ ChannelQuits \/ ChannelStrays \/
      ServerSends \/ ServerGoes) => ChannelInv'
  BY DEF ChannelMonitorReady, ChannelQuits, ChannelStrays, ServerSends, ServerGoes, ChannelInv, PluginInv,
     Unconnected, Underway, TypeOK, main, view, library, channelVars, events
<1>11. TypeOK /\ PluginInv /\ ChannelInv /\ UNCHANGED vars => ChannelInv'
  BY DEF ChannelInv, PluginInv, Unconnected, Underway, TypeOK, main, view,
     library, channelVars, events, vars
<1> QED  BY <1>1, <1>2, <1>3, <1>4, <1>5, <1>6, <1>7, <1>8, <1>9, <1>10, <1>11
     DEF Next, Gui, Rdp, Channel

\* The event loop is reached, and left, with the view's pointer and the
\* channel.
LEMMA ViewStep ==
    TypeOK /\ MainInv /\ PluginInv /\ ViewInv /\ [Next]_vars => ViewInv'
<1>1. TypeOK /\ MainInv /\ PluginInv /\ ViewInv /\ Start => ViewInv'
  BY DEF Start, ViewInv, PluginInv, MainInv, Unconnected, Underway,
     Established, TypeOK, main, view, library, channelVars, events
<1>2. TypeOK /\ MainInv /\ PluginInv /\ ViewInv /\ UseContext => ViewInv'
  BY DEF UseContext, ViewInv, PluginInv, MainInv, Unconnected, Underway,
     Established, TypeOK, main, view, library, channelVars, events
<1>3. TypeOK /\ MainInv /\ PluginInv /\ ViewInv /\ PostConnect => ViewInv'
  BY DEF PostConnect, ViewInv, PluginInv, MainInv, Unconnected, Underway,
     Established, TypeOK, main, view, library, channelVars, events
<1>4. TypeOK /\ MainInv /\ PluginInv /\ ViewInv /\ ChannelConnected =>
      ViewInv'
  BY DEF ChannelConnected, ViewInv, PluginInv, MainInv, Unconnected, Underway,
     Established, TypeOK, main, view, library, channelVars, events
<1>5. TypeOK /\ MainInv /\ PluginInv /\ ViewInv /\ ChannelDisconnected =>
      ViewInv'
  BY DEF ChannelDisconnected, QuitHandler, CloseChannel, ViewInv, PluginInv, MainInv, Unconnected,
     Underway, Established, TypeOK, main, view, library, channelVars, events
<1>6. TypeOK /\ MainInv /\ PluginInv /\ ViewInv /\ (New \/ NewContext \/
      LoadChannels \/ ConnectFails) => ViewInv'
  BY DEF New, NewContext, LoadChannels, ConnectFails, ViewInv, PluginInv,
     MainInv, Unconnected, Underway, Established, TypeOK, main, view,
     library, channelVars, events
<1>7. TypeOK /\ MainInv /\ PluginInv /\ ViewInv /\ (LoopTest \/ Wake \/
      CheckHandles) => ViewInv'
  BY DEF LoopTest, Wake, CheckHandles, ViewInv, PluginInv, MainInv,
     Unconnected, Underway, Established, TypeOK, main, view, library,
     channelVars, events
<1>8. TypeOK /\ MainInv /\ PluginInv /\ ViewInv /\ (ChannelTerminated \/
      Disconnected \/ Free) => ViewInv'
  BY DEF ChannelTerminated, Disconnected, Free, ViewInv, PluginInv, MainInv,
     Unconnected, Underway, Established, TypeOK, main, view, library,
     channelVars, events
<1>9. TypeOK /\ MainInv /\ PluginInv /\ ViewInv /\ (LoadFails \/ Quit \/
      CheckContext \/ Join \/ ChannelMonitorReady \/ ChannelQuits \/ ChannelStrays \/ ChannelFails \/
      ServerSends \/ ServerGoes) => ViewInv'
  BY DEF LoadFails, Quit, CheckContext, Join, ChannelMonitorReady, ChannelQuits, ChannelStrays,
     ChannelFails, ServerSends, ServerGoes, ViewInv, PluginInv, MainInv,
     Unconnected, Underway, Established, TypeOK, main, view, library,
     channelVars, events
<1>10. TypeOK /\ MainInv /\ PluginInv /\ ViewInv /\ UNCHANGED vars => ViewInv'
  BY DEF ViewInv, PluginInv, MainInv, Unconnected, Underway, Established,
     TypeOK, main, view, library, channelVars, events, vars
<1> QED  BY <1>1, <1>2, <1>3, <1>4, <1>5, <1>6, <1>7, <1>8, <1>9, <1>10 DEF
     Next, Gui, Rdp, Channel

\* The parts together are inductive.
THEOREM Invariance == Spec => []IndInv
<1>1. CountInv' => frees' \in {0, 1}
  BY DEF CountInv
<1>2. IndInv /\ [Next]_vars => IndInv'
  BY <1>1, CountStep, TypeStep, MainStep, LibraryStep, PluginStep, ChannelStep,
     ViewStep DEF IndInv
<1> QED  BY <1>2, InitInv, PTL DEF Spec

-----------------------------------------------------------------------------
(* What the invariant says of the session.                                  *)

\* The variables keep their types.
THEOREM TypeCorrect == Spec => []TypeOK
<1>1. IndInv => TypeOK
  BY DEF IndInv
<1> QED  BY <1>1, Invariance, PTL

\* Whichever calls fail, the thread ends with the instance, the context and the
\* plugin freed, each once (rdp_loop_thread's fail:, VirtualChannelEntryEx).
THEOREM NothingLeaks == Spec => []ReleasedOnce
<1>1. IndInv => ReleasedOnce
  BY DEF IndInv, TypeOK, LibraryInv, PluginInv, CountInv, ChannelInv, ReleasedOnce
<1> QED  BY <1>1, Invariance, PTL

\* The channel thread is joined before its plugin and the context go, unless the
\* message to quit could not be posted or the wait for it failed; the RDP thread is
\* joined before the view goes (channel_client_quit_handler, the order of the
\* events, stop()).
THEOREM ThreadsAreJoined == Spec => []OwnersOutliveThreads
<1>1. IndInv => OwnersOutliveThreads
  BY DEF IndInv, TypeOK, MainInv, PluginInv, ChannelInv, OwnersOutliveThreads
<1> QED  BY <1>1, Invariance, PTL

\* While the session is up, and once the user has quit, nothing that is not
\* there is used (m_rdpContext, cliprdr_client_context_).
THEOREM PointersHold == Spec => []UsesWhatIsThere
<1>1. IndInv => UsesWhatIsThere
  BY DEF IndInv, TypeOK, MainInv, LibraryInv, PluginInv, ViewInv, UsesNothing,
         UsesWhatIsThere, Established, Underway
<1> QED  BY <1>1, Invariance, PTL
=============================================================================
