--------------------------- MODULE BleClientProofs ---------------------------
(***************************************************************************)
(* BleClient proved: types, that descriptors are discovered and written    *)
(* only with the handles of this connection, and that a board that has     *)
(* stopped trying shows a steady red led.                                  *)
(*                                                                         *)
(* The inductive invariant has a part for the connection and one for the   *)
(* led.  LinkInv is what DISCONNECT clears, and why the two conditions of  *)
(* try_start_dsc_discovery() can only be met by events of this connection. *)
(* LedInv follows a colour through UPDATE_LED: between the stop of the     *)
(* timer and the refresh the timer task cannot start to paint again, so    *)
(* the red of a failure is what the led shows once the main task is idle,  *)
(* and it stays as long as nothing that is still under way could end in a  *)
(* subscription (Hopeful).                                                 *)
(***************************************************************************)
EXTENDS BleClient, TLAPS

\* Where the main task is updating the led, and where it is about to scan.
Updating == {"ledStop", "ledPixel", "ledRefresh"}
Scanning == {"scanStop", "scanStart", "disc"}

LinkInv ==
  /\ gap \notin {"connected", "broken"} =>
       procs = {} /\ enc = "none" /\ ~subscribed /\ ~s_enc_done /\ ~s_chr_found
  /\ host \in Scanning \/ (host \in Updating /\ after = "scanStop") => gap = "off"
  /\ host = "setup" => gap = "off" /\ ~synced
  /\ s_enc_done <=> enc = "on"
  /\ s_chr_found => s_chr_val_handle = "current"
  /\ procs \cap {"dsc", "dscEnd", "write"} # {} \/ subscribed => s_enc_done /\ s_chr_found

\* Something that is under way can still end in a subscription.
Hopeful ==
  \/ subscribed
  \/ procs \cap {"dsc", "write"} # {}
  \/ enc \in {"pending", "on"} /\ procs \cap {"svc", "chr"} # {}
  \/ enc = "pending" /\ s_chr_found

\* Nobody but the main task will change the led, and it is red.
SteadyRed == led = "red" /\ timer # "refresh" /\ (active => timer = "halted")

LedInv ==
  /\ host \in Updating /\ after = "idle" => hsv = "red" \/ subscribed
  /\ host \in {"ledPixel", "ledRefresh"} => (active => timer = "halted")
  /\ host = "ledRefresh" => pixel = hsv
  /\ host = "idle" /\ synced /\ gap \in {"off", "heard"} => SteadyRed
  /\ host = "idle" /\ gap = "connected" /\ ~Hopeful => SteadyRed

IInv == TypeOK /\ LinkInv /\ LedInv

\* The names of groups of variables and states are expanded everywhere.
USE DEF hostVars, timerVars, ledVars, linkVars, peerVars, Colour, Updating, Scanning

\* A handler that goes on leaves the main task idle; one that gives up is
\* about to show red.
LEMMA GoesOnSplit ==
  ASSUME NEW ok
  PROVE  closing \in BOOLEAN /\ GoesOn(ok) =>
           /\ closing' \in BOOLEAN
           /\ \/ ok /\ host' = host /\ hsv' = hsv /\ after' = after
              \/ ~ok /\ host' = "ledStop" /\ hsv' = "red" /\ after' = "idle"
<1>. SUFFICES ASSUME closing \in BOOLEAN, GoesOn(ok)
              PROVE  /\ closing' \in BOOLEAN
                     /\ \/ ok /\ host' = host /\ hsv' = hsv /\ after' = after
                        \/ ~ok /\ host' = "ledStop" /\ hsv' = "red" /\ after' = "idle"
  OBVIOUS
<1>1. CASE ok
  BY <1>1 DEF GoesOn
<1>2. CASE ~ok
  <2>1. closing' \in {closing, closing \/ gap' = "connected"}
    BY <1>2 DEF GoesOn
  <2>2. closing' \in BOOLEAN
    BY <2>1
  <2>3. QED
    BY <1>2, <2>2 DEF GoesOn, UpdateLed
<1>3. QED
  BY <1>1, <1>2

\* A board that has just booted.
LEMMA InitIInv == Init => IInv
  BY DEF Init, IInv, TypeOK, LinkInv, LedInv, Hopeful, SteadyRed

-----------------------------------------------------------------------------

\* Every step keeps the types.
LEMMA TypeStep == TypeOK /\ Next => TypeOK'
<1>1. TypeOK /\ Fire => TypeOK'
  BY DEF TypeOK, Fire, MainUnchanged
<1>2. TypeOK /\ TimerRefresh => TypeOK'
  BY DEF TypeOK, TimerRefresh, MainUnchanged
<1>3. TypeOK /\ TimerFails => TypeOK'
  BY DEF TypeOK, TimerFails, BlinkError, MainUnchanged
<1>4. TypeOK /\ SetupSucceeds => TypeOK'
  BY DEF TypeOK, SetupSucceeds, Goto, LinkUnchanged
<1>5. TypeOK /\ LedStop => TypeOK'
  BY DEF TypeOK, LedStop, Goto, LinkUnchanged
<1>6. TypeOK /\ LedPixel => TypeOK'
  BY DEF TypeOK, LedPixel, Goto, LinkUnchanged
<1>7. TypeOK /\ LedRefresh => TypeOK'
  BY DEF TypeOK, LedRefresh, Goto, LinkUnchanged
<1>8. TypeOK /\ ScanStop => TypeOK'
  BY ZenonT(30) DEF TypeOK, ScanStop, Goto, LinkUnchanged
<1>9. TypeOK /\ ScanStart => TypeOK'
  BY DEF TypeOK, ScanStart, Goto, LinkUnchanged
<1>10. TypeOK /\ Disc => TypeOK'
  BY DEF TypeOK, Disc, Goto, PeerUnchanged
<1>11. TypeOK /\ DiscFails => TypeOK'
  BY DEF TypeOK, DiscFails, UpdateLed, PeerUnchanged
<1>12. TypeOK /\ AssertFails => TypeOK'
  BY ZenonT(30) DEF TypeOK, AssertFails, BlinkError, LinkUnchanged
<1>13. TypeOK /\ Sync => TypeOK'
  BY DEF TypeOK, Sync, Event
<1>14. ASSUME NEW then \in {"connecting", "off", "heard"}
      PROVE  TypeOK /\ ServerHeard(then) => TypeOK'
  BY DEF TypeOK, ServerHeard, Event, UpdateLed
<1>15. TypeOK /\ NotConnected => TypeOK'
  BY DEF TypeOK, NotConnected, Event, UpdateLed
<1>16. TypeOK /\ SecurityFails => TypeOK'
  <2>1. closing \in BOOLEAN /\ SecurityFails =>
          host' = "ledStop" /\ hsv' = "red" /\ after' = "idle" /\ closing' \in BOOLEAN
    BY GoesOnSplit DEF SecurityFails
  <2>2. QED
    BY <2>1 DEF TypeOK, SecurityFails, Event
<1>17. ASSUME NEW ok \in BOOLEAN
      PROVE  TypeOK /\ Connected(ok) => TypeOK'
  <2>1. Connected(ok) => GoesOn(ok)
    BY DEF Connected, Event
  <2>2. QED
    BY <2>1, GoesOnSplit DEF TypeOK, Connected, Event
<1>18. ASSUME NEW ok \in BOOLEAN
      PROVE  TypeOK /\ ServiceFound(ok) => TypeOK'
  <2>1. ServiceFound(ok) => GoesOn(ok)
    BY DEF ServiceFound, Reports, OfLink, Event
  <2>2. QED
    BY <2>1, GoesOnSplit DEF TypeOK, ServiceFound, Reports, OfLink, Event, FlagsUnchanged
<1>19. ASSUME NEW ok \in BOOLEAN
      PROVE  TypeOK /\ DescriptorFound(ok) => TypeOK'
  <2>1. DescriptorFound(ok) => GoesOn(ok)
    BY DEF DescriptorFound, Reports, OfLink, Event
  <2>2. QED
    BY <2>1, GoesOnSplit DEF TypeOK, DescriptorFound, Reports, OfLink, Event, FlagsUnchanged
<1>20. TypeOK /\ DiscoveryEnds => TypeOK'
  <2>1. DiscoveryEnds =>
          /\ procs' \subseteq procs
          /\ UNCHANGED << hostVars, timer, timerVars, ledVars, synced, gap, closing, enc,
                          subscribed, peerVars >>
    BY DEF DiscoveryEnds, Reports, GoesOn, OfLink, Event, FlagsUnchanged
  <2>2. TypeOK /\ procs' \subseteq procs
          /\ UNCHANGED << hostVars, timer, timerVars, ledVars, synced, gap, closing, enc,
                          subscribed, peerVars >> => TypeOK'
    BY DEF TypeOK
  <2>3. QED
    BY <2>1, <2>2
<1>21. ASSUME NEW ok \in BOOLEAN
      PROVE  TypeOK /\ CharacteristicFound(ok) => TypeOK'
  <2>1. CharacteristicFound(ok) => GoesOn(ok)
    BY DEF CharacteristicFound, TryStart, OfLink, Event
  <2>2. QED
    BY <2>1, GoesOnSplit DEF TypeOK, CharacteristicFound, TryStart, OfLink, Event
<1>22. ASSUME NEW ok \in BOOLEAN
      PROVE  TypeOK /\ Encrypted(ok) => TypeOK'
  <2>1. Encrypted(ok) => GoesOn(ok)
    BY DEF Encrypted, TryStart, OfLink, Event
  <2>2. QED
    BY <2>1, GoesOnSplit DEF TypeOK, Encrypted, TryStart, OfLink, Event
<1>23. ASSUME NEW link \in {"connected", "broken"}
      PROVE  TypeOK /\ EncryptionFails(link) => TypeOK'
  BY DEF TypeOK, EncryptionFails, OfLink, Event, UpdateLed, FlagsUnchanged
<1>24. TypeOK /\ Subscribed => TypeOK'
  BY DEF TypeOK, Subscribed, OfLink, Event, UpdateLed, FlagsUnchanged
<1>25. ASSUME NEW link \in {"connected", "broken"}
      PROVE  TypeOK /\ ProcedureFails(link) => TypeOK'
  <2>1. closing \in BOOLEAN /\ ProcedureFails(link) =>
          /\ host' = "ledStop" /\ hsv' = "red" /\ after' = "idle"
          /\ closing' \in BOOLEAN /\ procs' \subseteq procs
          /\ UNCHANGED << timer, timerVars, ledVars, synced, gap, enc, subscribed, peerVars >>
    BY GoesOnSplit DEF ProcedureFails, OfLink, Event, FlagsUnchanged
  <2>2. /\ TypeOK
        /\ host' = "ledStop" /\ hsv' = "red" /\ after' = "idle"
        /\ closing' \in BOOLEAN /\ procs' \subseteq procs
        /\ UNCHANGED << timer, timerVars, ledVars, synced, gap, enc, subscribed, peerVars >>
        => TypeOK'
    BY DEF TypeOK
  <2>3. TypeOK => closing \in BOOLEAN
    BY DEF TypeOK
  <2>4. QED
    BY <2>1, <2>2, <2>3
<1>26. TypeOK /\ NotifyMalformed => TypeOK'
  BY DEF TypeOK, NotifyMalformed, OfLink, Event, UpdateLed, FlagsUnchanged
<1>27. TypeOK /\ LinkBreaks => TypeOK'
  BY DEF TypeOK, LinkBreaks, Event
<1>28. TypeOK /\ Disconnected => TypeOK'
  BY DEF TypeOK, Disconnected, Event
<1>29. TypeOK /\ HostReset => TypeOK'
  <2>1. HostReset =>
          /\ gap' \in {"off", "refused", "broken"} /\ synced' = FALSE
          /\ UNCHANGED << hostVars, timer, timerVars, ledVars, closing, enc, procs, subscribed,
                          peerVars >>
    BY DEF HostReset, Event
  <2>2. TypeOK /\ gap' \in {"off", "refused", "broken"} /\ synced' = FALSE
          /\ UNCHANGED << hostVars, timer, timerVars, ledVars, closing, enc, procs, subscribed,
                          peerVars >> => TypeOK'
    BY ZenonT(30) DEF TypeOK
  <2>3. QED
    BY <2>1, <2>2
<1>30. TypeOK /\ Reboot => TypeOK'
  BY DEF TypeOK, Reboot
<1>31. QED
  BY <1>1, <1>2, <1>3, <1>4, <1>5, <1>6, <1>7, <1>8, <1>9, <1>10, <1>11, <1>12, <1>13,
     <1>14, <1>15, <1>16, <1>17, <1>18, <1>19, <1>20, <1>21, <1>22, <1>23, <1>24, <1>25,
     <1>26, <1>27, <1>28, <1>29, <1>30 DEF Next, TimerProgress, MainProgress, LedBusy, Fault

\* Every step keeps what is known of the connection.
LEMMA LinkStep == TypeOK /\ LinkInv /\ Next => LinkInv'
<1>1. TypeOK /\ LinkInv /\ Fire => LinkInv'
  BY DEF TypeOK, LinkInv, Fire, MainUnchanged
<1>2. TypeOK /\ LinkInv /\ TimerRefresh => LinkInv'
  BY DEF TypeOK, LinkInv, TimerRefresh, MainUnchanged
<1>3. TypeOK /\ LinkInv /\ TimerFails => LinkInv'
  BY DEF TypeOK, LinkInv, TimerFails, BlinkError, MainUnchanged
<1>4. TypeOK /\ LinkInv /\ SetupSucceeds => LinkInv'
  BY DEF TypeOK, LinkInv, SetupSucceeds, Goto, LinkUnchanged
<1>5. TypeOK /\ LinkInv /\ LedStop => LinkInv'
  BY DEF TypeOK, LinkInv, LedStop, Goto, LinkUnchanged
<1>6. TypeOK /\ LinkInv /\ LedPixel => LinkInv'
  BY DEF TypeOK, LinkInv, LedPixel, Goto, LinkUnchanged
<1>7. TypeOK /\ LinkInv /\ LedRefresh => LinkInv'
  BY DEF TypeOK, LinkInv, LedRefresh, Goto, LinkUnchanged
<1>8. TypeOK /\ LinkInv /\ ScanStop => LinkInv'
  BY DEF TypeOK, LinkInv, ScanStop, Goto, LinkUnchanged
<1>9. TypeOK /\ LinkInv /\ ScanStart => LinkInv'
  BY DEF TypeOK, LinkInv, ScanStart, Goto, LinkUnchanged
<1>10. TypeOK /\ LinkInv /\ Disc => LinkInv'
  BY DEF TypeOK, LinkInv, Disc, Goto, PeerUnchanged
<1>11. TypeOK /\ LinkInv /\ DiscFails => LinkInv'
  BY DEF TypeOK, LinkInv, DiscFails, UpdateLed, PeerUnchanged
<1>12. TypeOK /\ LinkInv /\ AssertFails => LinkInv'
  BY DEF TypeOK, LinkInv, AssertFails, BlinkError, LinkUnchanged
<1>13. TypeOK /\ LinkInv /\ Sync => LinkInv'
  BY DEF TypeOK, LinkInv, Sync, Event
<1>14. ASSUME NEW then \in {"connecting", "off", "heard"}
      PROVE  TypeOK /\ LinkInv /\ ServerHeard(then) => LinkInv'
  BY DEF TypeOK, LinkInv, ServerHeard, Event, UpdateLed
<1>15. TypeOK /\ LinkInv /\ NotConnected => LinkInv'
  BY DEF TypeOK, LinkInv, NotConnected, Event, UpdateLed
<1>16. TypeOK /\ LinkInv /\ SecurityFails => LinkInv'
  <2>1. SecurityFails => GoesOn(FALSE)
    BY DEF SecurityFails, Event
  <2>2. QED
    BY <2>1, GoesOnSplit DEF TypeOK, LinkInv, SecurityFails, Event
<1>17. ASSUME NEW ok \in BOOLEAN
      PROVE  TypeOK /\ LinkInv /\ Connected(ok) => LinkInv'
  <2>1. Connected(ok) => GoesOn(ok)
    BY DEF Connected, Event
  <2>2. QED
    BY <2>1, GoesOnSplit DEF TypeOK, LinkInv, Connected, Event
<1>18. ASSUME NEW ok \in BOOLEAN
      PROVE  TypeOK /\ LinkInv /\ ServiceFound(ok) => LinkInv'
  <2>1. ServiceFound(ok) => GoesOn(ok)
    BY DEF ServiceFound, Reports, OfLink, Event
  <2>2. QED
    BY <2>1, GoesOnSplit DEF TypeOK, LinkInv, ServiceFound, Reports, OfLink, Event,
       FlagsUnchanged
<1>19. ASSUME NEW ok \in BOOLEAN
      PROVE  TypeOK /\ LinkInv /\ DescriptorFound(ok) => LinkInv'
  <2>1. DescriptorFound(ok) => GoesOn(ok)
    BY DEF DescriptorFound, Reports, OfLink, Event
  <2>2. QED
    BY <2>1, GoesOnSplit DEF TypeOK, LinkInv, DescriptorFound, Reports, OfLink, Event,
       FlagsUnchanged
<1>20. TypeOK /\ LinkInv /\ DiscoveryEnds => LinkInv'
  <2>1. DiscoveryEnds =>
          /\ host = "idle" /\ gap = "connected"
          /\ procs' \subseteq procs /\ procs \ procs' \subseteq {"svcEnd", "chrEnd", "dscEnd"}
          /\ UNCHANGED << hostVars, timer, timerVars, ledVars, synced, gap, closing, enc,
                          subscribed, peerVars >>
    BY DEF DiscoveryEnds, Reports, GoesOn, OfLink, Event, FlagsUnchanged
  <2>2. QED
    BY <2>1 DEF TypeOK, LinkInv
<1>21. ASSUME NEW ok \in BOOLEAN
      PROVE  TypeOK /\ LinkInv /\ CharacteristicFound(ok) => LinkInv'
  <2>1. CharacteristicFound(ok) => GoesOn(ok)
    BY DEF CharacteristicFound, TryStart, OfLink, Event
  <2>2. QED
    BY <2>1, GoesOnSplit DEF TypeOK, LinkInv, CharacteristicFound, TryStart, OfLink, Event
<1>22. ASSUME NEW ok \in BOOLEAN
      PROVE  TypeOK /\ LinkInv /\ Encrypted(ok) => LinkInv'
  <2>1. Encrypted(ok) => GoesOn(ok)
    BY DEF Encrypted, TryStart, OfLink, Event
  <2>2. QED
    BY <2>1, GoesOnSplit DEF TypeOK, LinkInv, Encrypted, TryStart, OfLink, Event
<1>23. ASSUME NEW link \in {"connected", "broken"}
      PROVE  TypeOK /\ LinkInv /\ EncryptionFails(link) => LinkInv'
  BY DEF TypeOK, LinkInv, EncryptionFails, OfLink, Event, UpdateLed, FlagsUnchanged
<1>24. TypeOK /\ LinkInv /\ Subscribed => LinkInv'
  BY DEF TypeOK, LinkInv, Subscribed, OfLink, Event, UpdateLed, FlagsUnchanged
<1>25. ASSUME NEW link \in {"connected", "broken"}
      PROVE  TypeOK /\ LinkInv /\ ProcedureFails(link) => LinkInv'
  <2>1. closing \in BOOLEAN /\ ProcedureFails(link) =>
          /\ host = "idle" /\ gap = link /\ host' = "ledStop" /\ hsv' = "red" /\ after' = "idle"
          /\ closing' \in BOOLEAN /\ procs' \subseteq procs
          /\ UNCHANGED << timer, timerVars, ledVars, synced, gap, enc, subscribed, peerVars >>
    BY GoesOnSplit DEF ProcedureFails, OfLink, Event, FlagsUnchanged
  <2>2. QED
    BY <2>1 DEF TypeOK, LinkInv
<1>26. TypeOK /\ LinkInv /\ NotifyMalformed => LinkInv'
  BY DEF TypeOK, LinkInv, NotifyMalformed, OfLink, Event, UpdateLed, FlagsUnchanged
<1>27. TypeOK /\ LinkInv /\ LinkBreaks => LinkInv'
  BY DEF TypeOK, LinkInv, LinkBreaks, Event
<1>28. TypeOK /\ LinkInv /\ Disconnected => LinkInv'
  BY DEF TypeOK, LinkInv, Disconnected, Event
<1>29. TypeOK /\ LinkInv /\ HostReset => LinkInv'
  BY DEF TypeOK, LinkInv, HostReset, Event
<1>30. TypeOK /\ LinkInv /\ Reboot => LinkInv'
  BY DEF TypeOK, LinkInv, Reboot
<1>31. QED
  BY <1>1, <1>2, <1>3, <1>4, <1>5, <1>6, <1>7, <1>8, <1>9, <1>10, <1>11, <1>12, <1>13,
     <1>14, <1>15, <1>16, <1>17, <1>18, <1>19, <1>20, <1>21, <1>22, <1>23, <1>24, <1>25,
     <1>26, <1>27, <1>28, <1>29, <1>30 DEF Next, TimerProgress, MainProgress, LedBusy, Fault

\* Every step keeps what is known of the led.
LEMMA LedStep == TypeOK /\ LinkInv /\ LedInv /\ Next => LedInv'
<1>1. TypeOK /\ LinkInv /\ LedInv /\ Fire => LedInv'
  BY DEF TypeOK, LinkInv, LedInv, Hopeful, SteadyRed, Fire, MainUnchanged
<1>2. TypeOK /\ LinkInv /\ LedInv /\ TimerRefresh => LedInv'
  BY DEF TypeOK, LinkInv, LedInv, Hopeful, SteadyRed, TimerRefresh, MainUnchanged
<1>3. TypeOK /\ LinkInv /\ LedInv /\ TimerFails => LedInv'
  BY DEF TypeOK, LinkInv, LedInv, Hopeful, SteadyRed, TimerFails, BlinkError, MainUnchanged
<1>4. TypeOK /\ LinkInv /\ LedInv /\ SetupSucceeds => LedInv'
  BY DEF TypeOK, LinkInv, LedInv, Hopeful, SteadyRed, SetupSucceeds, Goto, LinkUnchanged
<1>5. TypeOK /\ LinkInv /\ LedInv /\ LedStop => LedInv'
  BY DEF TypeOK, LinkInv, LedInv, Hopeful, SteadyRed, LedStop, Goto, LinkUnchanged
<1>6. TypeOK /\ LinkInv /\ LedInv /\ LedPixel => LedInv'
  BY DEF TypeOK, LinkInv, LedInv, Hopeful, SteadyRed, LedPixel, Goto, LinkUnchanged
<1>7. TypeOK /\ LinkInv /\ LedInv /\ LedRefresh => LedInv'
  BY DEF TypeOK, LinkInv, LedInv, Hopeful, SteadyRed, LedRefresh, Goto, LinkUnchanged
<1>8. TypeOK /\ LinkInv /\ LedInv /\ ScanStop => LedInv'
  BY DEF TypeOK, LinkInv, LedInv, Hopeful, SteadyRed, ScanStop, Goto, LinkUnchanged
<1>9. TypeOK /\ LinkInv /\ LedInv /\ ScanStart => LedInv'
  BY DEF TypeOK, LinkInv, LedInv, Hopeful, SteadyRed, ScanStart, Goto, LinkUnchanged
<1>10. TypeOK /\ LinkInv /\ LedInv /\ Disc => LedInv'
  BY DEF TypeOK, LinkInv, LedInv, Hopeful, SteadyRed, Disc, Goto, PeerUnchanged
<1>11. TypeOK /\ LinkInv /\ LedInv /\ DiscFails => LedInv'
  BY DEF TypeOK, LinkInv, LedInv, Hopeful, SteadyRed, DiscFails, UpdateLed, PeerUnchanged
<1>12. TypeOK /\ LinkInv /\ LedInv /\ AssertFails => LedInv'
  BY DEF TypeOK, LinkInv, LedInv, Hopeful, SteadyRed, AssertFails, BlinkError,
     LinkUnchanged
<1>13. TypeOK /\ LinkInv /\ LedInv /\ Sync => LedInv'
  BY DEF TypeOK, LinkInv, LedInv, Hopeful, SteadyRed, Sync, Event
<1>14. ASSUME NEW then \in {"connecting", "off", "heard"}
      PROVE  TypeOK /\ LinkInv /\ LedInv /\ ServerHeard(then) => LedInv'
  BY DEF TypeOK, LinkInv, LedInv, Hopeful, SteadyRed, ServerHeard, Event, UpdateLed
<1>15. TypeOK /\ LinkInv /\ LedInv /\ NotConnected => LedInv'
  BY DEF TypeOK, LinkInv, LedInv, Hopeful, SteadyRed, NotConnected, Event, UpdateLed
<1>16. TypeOK /\ LinkInv /\ LedInv /\ SecurityFails => LedInv'
  <2>1. SecurityFails => GoesOn(FALSE)
    BY DEF SecurityFails, Event
  <2>2. QED
    BY <2>1, GoesOnSplit DEF TypeOK, LinkInv, LedInv, Hopeful, SteadyRed, SecurityFails,
       Event
<1>17. ASSUME NEW ok \in BOOLEAN
      PROVE  TypeOK /\ LinkInv /\ LedInv /\ Connected(ok) => LedInv'
  <2>1. Connected(ok) => GoesOn(ok)
    BY DEF Connected, Event
  <2>2. QED
    BY <2>1, GoesOnSplit DEF TypeOK, LinkInv, LedInv, Hopeful, SteadyRed, Connected, Event
<1>18. ASSUME NEW ok \in BOOLEAN
      PROVE  TypeOK /\ LinkInv /\ LedInv /\ ServiceFound(ok) => LedInv'
  <2>1. ServiceFound(ok) => GoesOn(ok)
    BY DEF ServiceFound, Reports, OfLink, Event
  <2>2. QED
    BY <2>1, GoesOnSplit DEF TypeOK, LinkInv, LedInv, Hopeful, SteadyRed, ServiceFound,
       Reports, OfLink, Event, FlagsUnchanged
<1>19. ASSUME NEW ok \in BOOLEAN
      PROVE  TypeOK /\ LinkInv /\ LedInv /\ DescriptorFound(ok) => LedInv'
  <2>1. DescriptorFound(ok) => GoesOn(ok)
    BY DEF DescriptorFound, Reports, OfLink, Event
  <2>2. QED
    BY <2>1, GoesOnSplit DEF TypeOK, LinkInv, LedInv, Hopeful, SteadyRed, DescriptorFound,
       Reports, OfLink, Event, FlagsUnchanged
<1>20. TypeOK /\ LinkInv /\ LedInv /\ DiscoveryEnds => LedInv'
  <2>1. DiscoveryEnds =>
          /\ host = "idle" /\ gap = "connected"
          /\ procs' \subseteq procs /\ procs \ procs' \subseteq {"svcEnd", "chrEnd", "dscEnd"}
          /\ UNCHANGED << hostVars, timer, timerVars, ledVars, synced, gap, closing, enc,
                          subscribed, peerVars >>
    BY DEF DiscoveryEnds, Reports, GoesOn, OfLink, Event, FlagsUnchanged
  <2>2. QED
    BY <2>1 DEF TypeOK, LinkInv, LedInv, Hopeful, SteadyRed
<1>21. ASSUME NEW ok \in BOOLEAN
      PROVE  TypeOK /\ LinkInv /\ LedInv /\ CharacteristicFound(ok) => LedInv'
  <2>1. CharacteristicFound(ok) => GoesOn(ok)
    BY DEF CharacteristicFound, TryStart, OfLink, Event
  <2>2. QED
    BY <2>1, GoesOnSplit DEF TypeOK, LinkInv, LedInv, Hopeful, SteadyRed,
       CharacteristicFound, TryStart, OfLink, Event
<1>22. ASSUME NEW ok \in BOOLEAN
      PROVE  TypeOK /\ LinkInv /\ LedInv /\ Encrypted(ok) => LedInv'
  <2>1. Encrypted(ok) => GoesOn(ok)
    BY DEF Encrypted, TryStart, OfLink, Event
  <2>2. QED
    BY <2>1, GoesOnSplit DEF TypeOK, LinkInv, LedInv, Hopeful, SteadyRed, Encrypted,
       TryStart, OfLink, Event
<1>23. ASSUME NEW link \in {"connected", "broken"}
      PROVE  TypeOK /\ LinkInv /\ LedInv /\ EncryptionFails(link) => LedInv'
  BY DEF TypeOK, LinkInv, LedInv, Hopeful, SteadyRed, EncryptionFails, OfLink, Event,
     UpdateLed, FlagsUnchanged
<1>24. TypeOK /\ LinkInv /\ LedInv /\ Subscribed => LedInv'
  BY DEF TypeOK, LinkInv, LedInv, Hopeful, SteadyRed, Subscribed, OfLink, Event, UpdateLed,
     FlagsUnchanged
<1>25. ASSUME NEW link \in {"connected", "broken"}
      PROVE  TypeOK /\ LinkInv /\ LedInv /\ ProcedureFails(link) => LedInv'
  <2>1. ProcedureFails(link) => GoesOn(FALSE)
    BY DEF ProcedureFails, OfLink, Event
  <2>2. QED
    BY <2>1, GoesOnSplit DEF TypeOK, LinkInv, LedInv, Hopeful, SteadyRed, ProcedureFails,
       OfLink, Event, FlagsUnchanged
<1>26. TypeOK /\ LinkInv /\ LedInv /\ NotifyMalformed => LedInv'
  BY DEF TypeOK, LinkInv, LedInv, Hopeful, SteadyRed, NotifyMalformed, OfLink, Event,
     UpdateLed, FlagsUnchanged
<1>27. TypeOK /\ LinkInv /\ LedInv /\ LinkBreaks => LedInv'
  BY DEF TypeOK, LinkInv, LedInv, Hopeful, SteadyRed, LinkBreaks, Event
<1>28. TypeOK /\ LinkInv /\ LedInv /\ Disconnected => LedInv'
  BY DEF TypeOK, LinkInv, LedInv, Hopeful, SteadyRed, Disconnected, Event
<1>29. TypeOK /\ LinkInv /\ LedInv /\ HostReset => LedInv'
  BY DEF TypeOK, LinkInv, LedInv, Hopeful, SteadyRed, HostReset, Event
<1>30. TypeOK /\ LinkInv /\ LedInv /\ Reboot => LedInv'
  BY DEF TypeOK, LinkInv, LedInv, Hopeful, SteadyRed, Reboot
<1>31. QED
  BY <1>1, <1>2, <1>3, <1>4, <1>5, <1>6, <1>7, <1>8, <1>9, <1>10, <1>11, <1>12, <1>13,
     <1>14, <1>15, <1>16, <1>17, <1>18, <1>19, <1>20, <1>21, <1>22, <1>23, <1>24, <1>25,
     <1>26, <1>27, <1>28, <1>29, <1>30 DEF Next, TimerProgress, MainProgress, LedBusy, Fault

-----------------------------------------------------------------------------

LEMMA NextIInv == IInv /\ [Next]_vars => IInv'
<1>1. IInv /\ Next => IInv'
  BY TypeStep, LinkStep, LedStep DEF IInv
<1>2. IInv /\ UNCHANGED vars => IInv'
  <2>1. TypeOK /\ UNCHANGED vars => TypeOK'
    BY DEF TypeOK, vars
  <2>2. LinkInv /\ UNCHANGED vars => LinkInv'
    BY DEF LinkInv, vars
  <2>3. LedInv /\ UNCHANGED vars => LedInv'
    BY DEF LedInv, Hopeful, SteadyRed, vars
  <2>4. QED
    BY <2>1, <2>2, <2>3 DEF IInv
<1>3. QED
  BY <1>1, <1>2

LEMMA SpecIInv == Spec => []IInv
  BY InitIInv, NextIInv, PTL DEF Spec

-----------------------------------------------------------------------------

\* Every variable keeps its type, whatever the two tasks and the host do
\* (esp32/client/src/main.c).
THEOREM BleTypeCorrect == Spec => []TypeOK
<1>1. IInv => TypeOK
  BY DEF IInv
<1>2. QED
  BY <1>1, SpecIInv, PTL

\* try_start_dsc_discovery() starts only once the link is encrypted and with the
\* handles found on this connection, and so does all that follows from it.
THEOREM HandlesOfThisLink == Spec => []DescriptorsOfThisLink
<1>1. IInv => DescriptorsOfThisLink
  BY DEF IInv, LinkInv, DescriptorsOfThisLink
<1>2. QED
  BY <1>1, SpecIInv, PTL

\* A board that has stopped trying to subscribe shows steady red, whatever call
\* or event failed and whatever the timer task was doing meanwhile.
THEOREM GivingUpShows == Spec => []StuckIsRed
<1>1. IInv => StuckIsRed
  BY DEF IInv, TypeOK, LinkInv, LedInv, Hopeful, SteadyRed, Stuck, StuckIsRed
<1>2. QED
  BY <1>1, SpecIInv, PTL

=============================================================================
