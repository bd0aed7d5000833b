------------------------------ MODULE MCEdges ------------------------------
(***************************************************************************)
(* The parts around the service that share no state with each other: the   *)
(* two sessions of CloudClient, the tray, the configuration window's       *)
(* login, its arrangement of the screens and its errors, the Windows       *)
(* controller and the Linux session monitor.  One run checks them side by  *)
(* side: part chooses the one that moves.                                  *)
(***************************************************************************)
EXTENDS HttpJobs, Websocket, Tray, Arrangement, Login, Controller, Sessions,
        Window, Notices

VARIABLE part

Parts == {"jobs", "websocket", "tray", "arrangement", "login", "controller", "sessions",
          "window", "notices"}

MCVars == <<httpVars, wsVars, trayVars, arrVars, loginVars, ctlVars, sessVars, windowVars,
            noticeVars, part>>

\* Where icons are dropped, and where the cloud has them.
MSpot == {<<0, 0>>, <<250, 180>>, <<300, 190>>, <<560, 0>>, <<330, 130>>, <<20, 20>>, <<172, 350>>}
MPlace == {<<250, 180>>, <<336, 180>>, <<300, 240>>, <<0, 0>>}

MCInit ==
  /\ part \in Parts
  /\ HttpInit /\ WsInit /\ TrayInit /\ ArrInit /\ LoginInit /\ CtlInit /\ SessInit
  /\ WindowInit /\ NoticesInit
  /\ part # "controller" => console = 1
  /\ part # "window" => link = "none"
  /\ part # "sessions" =>
       active = 0 /\ named = {} /\ \A s, d \in XSession : process[s][d] = (IF d = s THEN 1 ELSE 0)

JobsMove(A) ==
  /\ part = "jobs" /\ A
  /\ UNCHANGED <<wsVars, trayVars, arrVars, loginVars, ctlVars, sessVars, windowVars,
                 noticeVars, part>>
WebsocketMoves(A) ==
  /\ part = "websocket" /\ A
  /\ UNCHANGED <<httpVars, trayVars, arrVars, loginVars, ctlVars, sessVars, windowVars,
                 noticeVars, part>>
TrayMoves(A) ==
  /\ part = "tray" /\ A
  /\ UNCHANGED <<httpVars, wsVars, arrVars, loginVars, ctlVars, sessVars, windowVars,
                 noticeVars, part>>
ArrangementMoves(A) ==
  /\ part = "arrangement" /\ A
  /\ UNCHANGED <<httpVars, wsVars, trayVars, loginVars, ctlVars, sessVars, windowVars,
                 noticeVars, part>>
LoginMoves(A) ==
  /\ part = "login" /\ A
  /\ UNCHANGED <<httpVars, wsVars, trayVars, arrVars, ctlVars, sessVars, windowVars,
                 noticeVars, part>>
ControllerMoves(A) ==
  /\ part = "controller" /\ A
  /\ UNCHANGED <<httpVars, wsVars, trayVars, arrVars, loginVars, sessVars, windowVars,
                 noticeVars, part>>
SessionsMove(A) ==
  /\ part = "sessions" /\ A
  /\ UNCHANGED <<httpVars, wsVars, trayVars, arrVars, loginVars, ctlVars, windowVars,
                 noticeVars, part>>
WindowMoves(A) ==
  /\ part = "window" /\ A
  /\ UNCHANGED <<httpVars, wsVars, trayVars, arrVars, loginVars, ctlVars, sessVars,
                 noticeVars, part>>
NoticesMove(A) ==
  /\ part = "notices" /\ A
  /\ UNCHANGED <<httpVars, wsVars, trayVars, arrVars, loginVars, ctlVars, sessVars,
                 windowVars, part>>

MCNext ==
  \/ JobsMove(HttpNext) \/ WebsocketMoves(WsNext) \/ TrayMoves(TrayNext)
  \/ ArrangementMoves(ArrNext) \/ LoginMoves(LoginNext)
  \/ ControllerMoves(CtlNext) \/ SessionsMove(SessNext)
  \/ WindowMoves(WindowNext) \/ NoticesMove(NoticesNext)

MCSpec ==
  /\ MCInit /\ [][MCNext]_MCVars
  /\ WF_MCVars(JobsMove(Handler))
  /\ WF_MCVars(WebsocketMoves(WsHandler))
  /\ SF_MCVars(WebsocketMoves(HandshakeOk))
  /\ WF_MCVars(ControllerMoves(Start))
  /\ WF_MCVars(ControllerMoves(MonitorService))
  /\ WF_MCVars(TrayMoves(\E t \in TrayId : TrayCut(t)))
  /\ WF_MCVars(WindowMoves(WindowHears)) /\ WF_MCVars(WindowMoves(ServiceAnswers))
  /\ WF_MCVars(WindowMoves(CallLost)) /\ WF_MCVars(WindowMoves(KeepAlive))
  /\ WF_MCVars(WindowMoves(LinkConnects)) /\ WF_MCVars(WindowMoves(LinkRetries))
=============================================================================
