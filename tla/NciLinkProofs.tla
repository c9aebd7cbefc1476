---------------------------- MODULE NciLinkProofs ----------------------------
(***************************************************************************)
(* Proofs about NciLink for every error limit, number and kind of faults   *)
(* and length of the chip's queue: the types, that the configuration the   *)
(* driver recorded is the one in force, that driver and chip do not wait   *)
(* for each other, and, with fewer faults than retries, when a shift of    *)
(* the answers can make the driver give up.                                *)
(***************************************************************************)
EXTENDS NciLink, TLAPS

\* The groups of variables that UNCHANGED names
USE DEF host, cfg, history

-----------------------------------------------------------------------------
(* The chip and the exchange *)

Commands ==
  [oid : {"RESET", "INIT", "PROPRIETARY", "SET_CONFIG", "DISCOVER_MAP", "ROUTING",
          "DISCOVER", "SELECT", "DEACTIVATE", "DATA"},
   config : {"none", "solo", "rw_ce"}]

\* The chip appends what it says; nothing else changes.
LEMMA SaysType ==
  ASSUME NEW c \in Chip, NEW messages \in Seq(Message)
  PROVE  Says(c, messages) \in Chip /\ Says(c, messages).config = c.config
<1>1. c.out \o messages \in Seq(Message)
  BY DEF Chip
<1> DEFINE out == c.out \o messages
<1>2. Says(c, messages) = [c EXCEPT !.out = out]
  BY DEF Says
<1>3. out \in Seq(Message)
  BY <1>1
<1> HIDE DEF out
<1>4. ASSUME NEW o \in Seq(Message)
      PROVE  [c EXCEPT !.out = o] \in Chip /\ [c EXCEPT !.out = o].config = c.config
  BY DEF Chip
<1> QED
  BY <1>2, <1>3, <1>4

\* A command leaves a chip a chip.  Only RESET and a command that carries a
\* core configuration change the one in force.
LEMMA ExecuteType ==
  ASSUME NEW c \in Chip, NEW cmd \in Commands
  PROVE  /\ Execute(c, cmd) \in Chip
         /\ cmd.oid # "RESET" /\ cmd.config = "none"
              => Execute(c, cmd).config = c.config
<1> DEFINE State == {"idle", "discovery", "w4_all_discoveries", "w4_host_select",
                     "selecting", "active", "listen", "listen_sleep"}
<1>1. ASSUME NEW rf \in State
      PROVE  [c EXCEPT !.rf = rf] \in Chip /\ [c EXCEPT !.rf = rf].config = c.config
  BY <1>1 DEF Chip
<1>2. ASSUME NEW oid \in {"RESET", "INIT", "PROPRIETARY", "SET_CONFIG", "DISCOVER_MAP",
                          "ROUTING", "DISCOVER", "SELECT", "DEACTIVATE"},
             NEW status \in {"ok", "discovery", "other"}
      PROVE  <<Rsp(oid, status)>> \in Seq(Message)
  BY <1>2 DEF Rsp, Message
<1>3. CASE cmd.oid = "RESET"
  <2>1. [c EXCEPT !.rf = "idle", !.config = "default"] \in Chip
    BY DEF Chip
  <2>2. <<Rsp("RESET", "ok"), ResetNtf>> \in Seq(Message)
    BY DEF Rsp, ResetNtf, Ntf, Message
  <2> QED
    BY <1>3, <2>1, <2>2, SaysType DEF Execute
<1>4. CASE cmd.oid \in {"INIT", "PROPRIETARY", "SET_CONFIG", "DISCOVER_MAP", "ROUTING"}
  <2> DEFINE d == [c EXCEPT !.config = IF cmd.config = "none" THEN @ ELSE cmd.config]
  <2>1. d \in Chip /\ (cmd.config = "none" => d.config = c.config)
    BY DEF Chip, Commands
  <2>2. Execute(c, cmd) = IF c.rf = "idle" THEN Says(d, <<Rsp(cmd.oid, "ok")>>)
                                           ELSE Says(c, <<Rsp(cmd.oid, "other")>>)
    BY <1>4 DEF Execute
  <2>3. <<Rsp(cmd.oid, "ok")>> \in Seq(Message) /\ <<Rsp(cmd.oid, "other")>> \in Seq(Message)
    BY <1>4, <1>2
  <2> QED
    BY <2>1, <2>2, <2>3, SaysType
<1>5. CASE cmd.oid = "DISCOVER"
  <2> DEFINE d == [c EXCEPT !.rf = "discovery"]
             ok == <<Rsp("DISCOVER", "ok")>>
             again == <<Rsp("DISCOVER", "discovery")>>
             no == <<Rsp("DISCOVER", "other")>>
  <2>1. ok \in Seq(Message) /\ again \in Seq(Message) /\ no \in Seq(Message)
    BY <1>2
  <2>2. d \in Chip /\ d.config = c.config
    BY <1>1
  <2>3. Execute(c, cmd) \in {Says(d, ok), Says(c, again), Says(c, no)}
    BY <1>5 DEF Execute
  <2> HIDE DEF d, ok, again, no
  <2> QED
    BY <2>1, <2>2, <2>3, SaysType
<1>6. CASE cmd.oid = "SELECT"
  <2> DEFINE d == [c EXCEPT !.rf = "selecting"]
             ok == <<Rsp("SELECT", "ok")>>
             no == <<Rsp("SELECT", "other")>>
  <2>1. ok \in Seq(Message) /\ no \in Seq(Message)
    BY <1>2
  <2>2. d \in Chip /\ d.config = c.config
    BY <1>1
  <2>3. Execute(c, cmd) \in {Says(d, ok), Says(c, no)}
    BY <1>6 DEF Execute
  <2> HIDE DEF d, ok, no
  <2> QED
    BY <2>1, <2>2, <2>3, SaysType
<1>7. CASE cmd.oid = "DEACTIVATE"
  <2> DEFINE d == [c EXCEPT !.rf = "idle"]
             denied == <<Rsp("DEACTIVATE", "other")>>
             stopped == <<Rsp("DEACTIVATE", "ok")>>
             left == <<Rsp("DEACTIVATE", "ok"), Deactivated("idle")>>
  <2>1. denied \in Seq(Message) /\ stopped \in Seq(Message)
    BY <1>2
  <2>2. left \in Seq(Message)
    BY DEF Rsp, Deactivated, Ntf, Message
  <2>3. d \in Chip /\ d.config = c.config
    BY <1>1
  <2>4. Execute(c, cmd) \in {Says(c, denied), Says(d, left), Says(d, stopped)}
    BY <1>7 DEF Execute
  <2> HIDE DEF d, denied, stopped, left
  <2> QED
    BY <2>1, <2>2, <2>3, <2>4, SaysType
<1>8. CASE cmd.oid = "DATA"
  <2>1. <<Credits, TagData>> \in Seq(Message)
    BY DEF Credits, Ntf, TagData, Message
  <2> QED
    BY <1>8, <2>1, SaysType DEF Execute
<1> QED
  BY <1>3, <1>4, <1>5, <1>6, <1>7, <1>8 DEF Commands

\* What a read or an exchange may return, with a fault only if there is one
\* to come
Outcomes ==
  {x \in [chip : Chip, rx : Message \cup {NoMessage}, fault : {"none"} \cup FaultKinds] :
     x.fault # "none" => faults > 0}

LEMMA ReadHeadType ==
  ASSUME NEW c \in Chip, NEW fault \in {"none"} \cup FaultKinds, fault # "none" => faults > 0
  PROVE  /\ ReadHead(c, fault) \in Outcomes
         /\ ReadHead(c, fault).chip.config = c.config
         /\ Drop(c) \in Chip
         /\ Drop(c).config = c.config
<1>1. CASE c.out = <<>>
  BY <1>1 DEF ReadHead, Drop, Outcome, Outcomes
<1>2. CASE c.out # <<>>
  <2> DEFINE d == [c EXCEPT !.out = Tail(@)]
  <2>1. Head(c.out) \in Message /\ Tail(c.out) \in Seq(Message)
    BY <1>2 DEF Chip
  <2>2. d \in Chip /\ d.config = c.config
    BY <2>1 DEF Chip
  <2>3. Drop(c) = d /\ ReadHead(c, fault) = Outcome(d, Head(c.out), fault)
    BY <1>2 DEF ReadHead, Drop
  <2> HIDE DEF d
  <2> QED
    BY <2>1, <2>2, <2>3 DEF Outcome, Outcomes
<1> QED
  BY <1>1, <1>2

LEMMA ReadsType ==
  ASSUME NEW c \in Chip, NEW x \in Reads(c)
  PROVE  x \in Outcomes /\ x.chip.config = c.config
<1>1. CASE x = ReadHead(c, "none")
  BY <1>1, ReadHeadType
<1>2. CASE x \in Faulty("dropped", Outcome(Drop(c), NoMessage, "dropped"))
  <2>1. /\ "dropped" \in FaultKinds /\ faults > 0
        /\ x = Outcome(Drop(c), NoMessage, "dropped")
    BY <1>2 DEF Faulty
  <2>2. Drop(c) \in Chip /\ Drop(c).config = c.config
    BY ReadHeadType
  <2> QED
    BY <2>1, <2>2 DEF Outcome, Outcomes
<1> QED
  BY <1>1, <1>2 DEF Reads

\* An exchange changes the configuration in force only by a RESET or by the
\* configuration its command carries.
LEMMA TransceiveType ==
  ASSUME NEW c \in Chip, NEW cmd \in Commands, NEW x \in Transceive(c, cmd)
  PROVE  /\ x \in Outcomes
         /\ cmd.oid # "RESET" /\ cmd.config = "none" => x.chip.config = c.config
<1> DEFINE done == Execute(c, cmd)
<1>1. /\ done \in Chip
      /\ cmd.oid # "RESET" /\ cmd.config = "none" => done.config = c.config
  BY ExecuteType
<1>2. \/ x = ReadHead(done, "none")
      \/ x \in Faulty("unsent", Outcome(c, NoMessage, "unsent"))
      \/ x \in Faulty("lost", ReadHead(c, "lost"))
      \/ x \in Faulty("dropped", ReadHead(Drop(done), "dropped"))
      \/ x \in Faulty("late", Outcome(done, NoMessage, "late"))
  BY DEF Transceive
<1> HIDE DEF done
<1>3. CASE x = ReadHead(done, "none")
  BY <1>1, <1>3, ReadHeadType
<1>4. CASE x \in Faulty("unsent", Outcome(c, NoMessage, "unsent"))
  BY <1>4 DEF Faulty, Outcome, Outcomes
<1>5. CASE x \in Faulty("lost", ReadHead(c, "lost"))
  BY <1>5, ReadHeadType DEF Faulty
<1>6. CASE x \in Faulty("dropped", ReadHead(Drop(done), "dropped"))
  <2>1. "dropped" \in FaultKinds /\ faults > 0 /\ x = ReadHead(Drop(done), "dropped")
    BY <1>6 DEF Faulty
  <2>2. Drop(done) \in Chip /\ Drop(done).config = done.config
    BY <1>1, ReadHeadType
  <2> QED
    BY <1>1, <2>1, <2>2, ReadHeadType
<1>7. CASE x \in Faulty("late", Outcome(done, NoMessage, "late"))
  BY <1>1, <1>7 DEF Faulty, Outcome, Outcomes
<1> QED
  BY <1>2, <1>3, <1>4, <1>5, <1>6, <1>7

LEMMA CommandTypes ==
  /\ \A oid \in {"RESET", "INIT", "PROPRIETARY", "SET_CONFIG", "DISCOVER_MAP", "ROUTING",
                  "DISCOVER", "SELECT", "DEACTIVATE", "DATA"} :
       Cmd(oid) \in Commands /\ Cmd(oid).oid = oid /\ Cmd(oid).config = "none"
  /\ \A solo \in BOOLEAN : /\ CoreConfig(solo) \in Commands
                            /\ CoreConfig(solo).oid = "SET_CONFIG"
BY DEF Cmd, CoreConfig, Commands

LEMMA PowerCycleType ==
  ASSUME NEW c \in Chip
  PROVE  PowerCycle(c) \in Chip
<1>1. <<>> \in Seq(Message)
  OBVIOUS
<1> QED
  BY <1>1 DEF PowerCycle, Chip

-----------------------------------------------------------------------------
(* Types *)

\* The conjuncts of TypeOK, by who changes them
LinkTypeOK == /\ chip \in Chip
              /\ faults \in 0..MaxFaults
              /\ lost \in BOOLEAN
              /\ lateInBoot \in BOOLEAN
              /\ outOfStep \in BOOLEAN

HostTypeOK == /\ nci_state \in NCIState
              /\ error_count \in 0..(NFCC_MAX_ERROR_COUNT + 1)

LoopTypeOK == pc \in PC /\ sent \in 0..Len(InitConfig)

CfgTypeOK == /\ listening_enabled \in BOOLEAN
             /\ config_refresh_pending \in BOOLEAN
             /\ core_config_is_solo \in BOOLEAN
             /\ refused \in BOOLEAN

LEMMA TypeParts == TypeOK <=> LinkTypeOK /\ HostTypeOK /\ LoopTypeOK /\ CfgTypeOK
BY DEF TypeOK, LinkTypeOK, HostTypeOK, LoopTypeOK, CfgTypeOK

LEMMA ExchangedType ==
  ASSUME LinkTypeOK, NEW x \in Outcomes, Exchanged(x)
  PROVE  LinkTypeOK'
<1>1. chip' \in Chip /\ faults' \in 0..MaxFaults
  BY LinkAssumption DEF LinkTypeOK, Outcomes, Exchanged
<1>2. lost' \in BOOLEAN /\ lateInBoot' \in BOOLEAN /\ outOfStep' \in BOOLEAN
  BY DEF Exchanged, LinkTypeOK
<1> QED
  BY <1>1, <1>2 DEF LinkTypeOK

LEMMA NoExchangeType ==
  ASSUME LinkTypeOK, NoExchange
  PROVE  LinkTypeOK'
BY DEF LinkTypeOK, NoExchange

LEMMA SetStateType ==
  ASSUME NEW s \in NCIState, SetState(s)
  PROVE  HostTypeOK'
BY LinkAssumption DEF SetState, HostTypeOK

LEMMA SetErrorStateType ==
  ASSUME HostTypeOK, SetErrorState
  PROVE  HostTypeOK'
<1>1. CASE error_count > NFCC_MAX_ERROR_COUNT
  <2>1. (IF nci_state \in BootStates THEN "FAILED" ELSE "NFCC_RESET") \in NCIState
    BY DEF NCIState, BootStates
  <2> QED
    BY <1>1, <2>1, SetStateType DEF SetErrorState
<1>2. CASE ~(error_count > NFCC_MAX_ERROR_COUNT)
  BY <1>2, LinkAssumption DEF SetErrorState, HostTypeOK
<1> QED
  BY <1>1, <1>2

LEMMA NoNewHost ==
  ASSUME HostTypeOK, UNCHANGED host
  PROVE  HostTypeOK'
BY DEF HostTypeOK

\* An exchange with a command that has no configuration keeps the types and,
\* but for RESET, the configuration in force.
LEMMA ExchangeStep ==
  ASSUME LinkTypeOK,
         NEW oid \in {"INIT", "PROPRIETARY", "SET_CONFIG", "DISCOVER_MAP", "ROUTING",
                     "DISCOVER", "SELECT", "DEACTIVATE", "DATA"},
         NEW x \in Transceive(chip, Cmd(oid)),
         Exchanged(x)
  PROVE  LinkTypeOK' /\ chip'.config = chip.config
<1>1. chip \in Chip
  BY DEF LinkTypeOK
<1>2. Cmd(oid) \in Commands /\ Cmd(oid).oid # "RESET" /\ Cmd(oid).config = "none"
  BY CommandTypes
<1>3. x \in Outcomes /\ x.chip.config = chip.config
  BY <1>1, <1>2, TransceiveType
<1> QED
  BY <1>3, ExchangedType DEF Exchanged

LEMMA ReadStep ==
  ASSUME LinkTypeOK, NEW x \in Reads(chip), Exchanged(x)
  PROVE  LinkTypeOK' /\ chip'.config = chip.config
<1>1. x \in Outcomes /\ x.chip.config = chip.config
  BY ReadsType DEF LinkTypeOK
<1> QED
  BY <1>1, ExchangedType DEF Exchanged

\* What every action that talks to the chip does to the chip's side
Talks == \/ \E oid \in {"INIT", "PROPRIETARY", "SET_CONFIG", "DISCOVER_MAP", "ROUTING",
                        "DISCOVER", "SELECT", "DEACTIVATE", "DATA"} :
              \E x \in Transceive(chip, Cmd(oid)) : Exchanged(x)
         \/ \E x \in Reads(chip) : Exchanged(x)
         \/ NoExchange

LEMMA TalksStep ==
  ASSUME LinkTypeOK, Talks
  PROVE  LinkTypeOK' /\ chip'.config = chip.config
BY ExchangeStep, ReadStep, NoExchangeType DEF Talks, NoExchange

\* send_core_config_() in both places that call it
LEMMA CoreConfigStep ==
  ASSUME LinkTypeOK, CfgTypeOK, NEW x, SendCoreConfig(x)
  PROVE  /\ LinkTypeOK'
         /\ core_config_is_solo' \in BOOLEAN
         /\ refused' \in BOOLEAN
         /\ ~refused' => chip'.config = CoreConfig(core_config_is_solo').config
<1>1. ShouldBeSolo \in BOOLEAN
  BY DEF ShouldBeSolo, CfgTypeOK
<1>2. CoreConfig(ShouldBeSolo) \in Commands
  BY <1>1, CommandTypes
<1>3. chip \in Chip
  BY DEF LinkTypeOK
<1>4. x \in Transceive(chip, CoreConfig(ShouldBeSolo)) /\ Exchanged(x)
  BY DEF SendCoreConfig
<1>5. x \in Outcomes
  BY <1>2, <1>3, <1>4, TransceiveType
<1>6. LinkTypeOK'
  BY <1>4, <1>5, ExchangedType
<1>7. /\ core_config_is_solo' = ShouldBeSolo
      /\ refused' = (chip'.config # CoreConfig(ShouldBeSolo).config)
  BY <1>4 DEF SendCoreConfig, Exchanged
<1> QED
  BY <1>1, <1>6, <1>7

\* What the chip starts by itself is one more message.
LEMMA NotifyStep ==
  ASSUME LinkTypeOK, NEW from, NEW to \in {"discovery", "w4_all_discoveries",
           "w4_host_select", "active", "listen", "listen_sleep"},
         NEW message \in Message, Notify(from, to, message)
  PROVE  /\ LinkTypeOK' /\ chip'.config = chip.config
         /\ UNCHANGED <<pc, host, sent, listening_enabled, cfg>>
<1> DEFINE d == [chip EXCEPT !.rf = to]
<1>1. d \in Chip /\ d.config = chip.config
  BY DEF LinkTypeOK, Chip
<1>2. <<message>> \in Seq(Message)
  OBVIOUS
<1>3. chip' = Says(d, <<message>>) /\ UNCHANGED <<faults, history>>
      /\ UNCHANGED <<pc, host, sent, listening_enabled, cfg>>
  BY DEF Notify
<1> HIDE DEF d
<1>4. chip' \in Chip /\ chip'.config = chip.config
  BY <1>1, <1>2, <1>3, SaysType
<1> QED
  BY <1>3, <1>4 DEF LinkTypeOK

LEMMA NfccStep ==
  ASSUME LinkTypeOK, Nfcc
  PROVE  /\ LinkTypeOK' /\ chip'.config = chip.config
         /\ UNCHANGED <<pc, host, sent, listening_enabled, cfg>>
<1>1. {Activated("poll"), Activated("listen"), ActivationFailed, Discovered("more"),
       Discovered("last"), Deactivated("discovery"), Deactivated("sleep")} \subseteq Message
  BY DEF Activated, ActivationFailed, Discovered, Deactivated, Ntf, Message
<1> QED
  BY <1>1, NotifyStep
  DEF Nfcc, Unasked, TagActivated, ActivationFails, FirstTag, LastTag, Selected,
      ReaderActivates, ReaderSleeps, ReaderWakes, ReaderLeaves

LEMMA TypeStep ==
  ASSUME TypeOK, [Next]_vars
  PROVE  TypeOK'
<1> SUFFICES ASSUME LinkTypeOK, HostTypeOK, LoopTypeOK, CfgTypeOK, [Next]_vars
             PROVE  LinkTypeOK' /\ HostTypeOK' /\ LoopTypeOK' /\ CfgTypeOK'
  BY TypeParts, PTL
<1>0. Len(InitConfig) \in Nat
  BY DEF InitConfig
<1>a. ASSUME UNCHANGED cfg, UNCHANGED listening_enabled
      PROVE  CfgTypeOK'
  BY <1>a DEF CfgTypeOK
<1>b. ASSUME UNCHANGED sent, pc' \in PC
      PROVE  LoopTypeOK'
  BY <1>b DEF LoopTypeOK
<1>c. ASSUME NEW s \in NCIState, Succeeds(s)
      PROVE  HostTypeOK' /\ pc' \in PC
  BY <1>c, SetStateType DEF Succeeds, PC
<1>d. ASSUME Fails
      PROVE  HostTypeOK' /\ pc' \in PC
  BY <1>d, SetErrorStateType DEF Fails, PC
<1>1. CASE ResetCore
  <2>1. PICK x \in Transceive(PowerCycle(chip), Cmd("RESET")) :
          /\ chip' = x.chip
          /\ faults' = IF x.fault = "none" THEN faults ELSE faults - 1
          /\ lost' = (x.fault \in {"lost", "dropped"})
          /\ outOfStep' = (x.fault # "none")
          /\ UNCHANGED lateInBoot
          /\ IF Accepted(Cmd("RESET"), x.rx)
             THEN pc' = "reset_ntf" /\ UNCHANGED host
             ELSE Fails
    BY <1>1 DEF ResetCore
  <2>2. x \in Outcomes
    BY CommandTypes, PowerCycleType, TransceiveType DEF LinkTypeOK
  <2>3. chip' \in Chip /\ faults' \in 0..MaxFaults
    BY <2>1, <2>2, LinkAssumption DEF LinkTypeOK, Outcomes
  <2>4. LinkTypeOK'
    BY <2>1, <2>3 DEF LinkTypeOK
  <2>5. HostTypeOK' /\ pc' \in PC
    BY <2>1, <1>d, NoNewHost DEF PC
  <2> QED
    BY <1>1, <1>a, <1>b, <2>4, <2>5 DEF ResetCore
<1>2. CASE ResetNotification
  <2>1. Talks
    BY <1>2 DEF ResetNotification, Talks
  <2>2. HostTypeOK' /\ pc' \in PC
    BY <1>2, <1>c, <1>d DEF ResetNotification, NCIState, BootStates
  <2> QED
    BY <1>2, <1>a, <1>b, <2>1, <2>2, TalksStep DEF ResetNotification
<1>3. ASSUME NEW state, NEW to \in NCIState,
             NEW oid \in {"INIT", "DISCOVER_MAP", "ROUTING"}, Step(state, oid, to)
      PROVE  LinkTypeOK' /\ HostTypeOK' /\ LoopTypeOK' /\ CfgTypeOK'
  <2>1. Talks
    BY <1>3 DEF Step, Talks
  <2>2. HostTypeOK' /\ pc' \in PC
    BY <1>3, <1>c, <1>d DEF Step
  <2> QED
    BY <1>3, <1>a, <1>b, <2>1, <2>2, TalksStep DEF Step
<1>4. CASE InitCore \/ SetDiscoverMap \/ SetListenModeRouting
  BY <1>3, <1>4 DEF InitCore, SetDiscoverMap, SetListenModeRouting, NCIState, BootStates
<1>5. CASE SendInitConfig
  <2> DEFINE next == InitConfig[sent + 1]
             cmd == Cmd(IF next = "PROPRIETARY" THEN next ELSE "SET_CONFIG")
  <2>1. PICK x \in Transceive(chip, cmd) :
          /\ Exchanged(x)
          /\ IF Accepted(cmd, x.rx) \/ next = "RF"
             THEN sent' = sent + 1 /\ pc' = "fsm" /\ UNCHANGED host
             ELSE sent' = 0 /\ Fails
    BY <1>5 DEF SendInitConfig
  <2>2. Talks
    <3>1. (IF next = "PROPRIETARY" THEN next ELSE "SET_CONFIG") \in {"PROPRIETARY", "SET_CONFIG"}
      OBVIOUS
    <3> QED
      BY <2>1, <3>1 DEF Talks
  <2>3. HostTypeOK' /\ pc' \in PC
    BY <2>1, <1>d, NoNewHost DEF PC
  <2>4. sent' \in 0..Len(InitConfig)
    BY <1>0, <1>5, <2>1 DEF SendInitConfig, LoopTypeOK
  <2>5. CfgTypeOK'
    BY <1>5, <1>a DEF SendInitConfig
  <2> QED
    BY <2>2, <2>3, <2>4, <2>5, TalksStep DEF LoopTypeOK
<1>6. CASE SendInitCoreConfig
  <2>1. PICK x \in Transceive(chip, CoreConfig(ShouldBeSolo)) :
          /\ SendCoreConfig(x)
          /\ IF Accepted(CoreConfig(ShouldBeSolo), x.rx)
             THEN Succeeds("NFCC_SET_DISCOVER_MAP") /\ config_refresh_pending' = FALSE
             ELSE Fails /\ UNCHANGED config_refresh_pending
    BY <1>6 DEF SendInitCoreConfig
  <2>2. HostTypeOK' /\ pc' \in PC
    BY <2>1, <1>c, <1>d DEF NCIState
  <2>3. CfgTypeOK'
    BY <1>6, <2>1, CoreConfigStep DEF SendInitCoreConfig, CfgTypeOK
  <2>4. LoopTypeOK'
    BY <1>0, <1>6, <2>2 DEF SendInitCoreConfig, LoopTypeOK
  <2> QED
    BY <2>1, <2>2, <2>3, <2>4, CoreConfigStep
<1>7. CASE Idle
  <2>1. Talks
    BY <1>7 DEF Idle, StopDiscovery, Talks
  <2>2. pc' \in PC
    BY <1>7 DEF Idle, PC
  <2> QED
    BY <1>7, <1>a, <1>b, <2>1, <2>2, TalksStep, NoNewHost DEF Idle
<1>8. CASE StartDiscovery
  <2>1. Talks
    BY <1>8 DEF StartDiscovery, Talks
  <2>2. HostTypeOK' /\ pc' \in PC
    BY <1>8, SetStateType, SetErrorStateType DEF StartDiscovery, NCIState, PC
  <2> QED
    BY <1>8, <1>a, <1>b, <2>1, <2>2, TalksStep DEF StartDiscovery
<1>9. CASE RefreshStop
  <2>1. Talks
    BY <1>9 DEF RefreshStop, StopDiscovery, Talks
  <2>2. HostTypeOK'
    BY <1>9, SetStateType DEF RefreshStop, NCIState, BootStates
  <2>3. pc' \in PC
    BY <1>9 DEF RefreshStop, AfterRefresh, PC
  <2> QED
    BY <1>9, <1>a, <1>b, <2>1, <2>2, <2>3, TalksStep DEF RefreshStop
<1>10. CASE Refresh
  <2>1. pc' \in PC
    BY <1>10 DEF Refresh, AfterRefresh, PC
  <2>2. HostTypeOK' /\ LoopTypeOK'
    BY <1>10, <1>b, <2>1, NoNewHost DEF Refresh
  <2>3. LinkTypeOK' /\ core_config_is_solo' \in BOOLEAN /\ refused' \in BOOLEAN
    BY <1>10, CoreConfigStep, NoExchangeType DEF Refresh, CfgTypeOK
  <2>4. config_refresh_pending' \in BOOLEAN /\ UNCHANGED listening_enabled
    BY <1>10 DEF Refresh, Accepted
  <2> QED
    BY <2>2, <2>3, <2>4 DEF CfgTypeOK
<1>11. CASE SelectEndpoint
  <2>1. Talks
    BY <1>11 DEF SelectEndpoint, Talks
  <2>2. HostTypeOK' /\ pc' \in PC
    BY <1>11, SetStateType, NoNewHost
    DEF SelectEndpoint, WaitOrRefresh, NCIState, EpStates, PC
  <2> QED
    BY <1>11, <1>a, <1>b, <2>1, <2>2, TalksStep DEF SelectEndpoint
<1>12. CASE NothingToSelect \/ StopAfterFailedActivation
  <2>1. Talks
    BY <1>12 DEF NothingToSelect, StopAfterFailedActivation, StopDiscovery, Talks
  <2>2. HostTypeOK' /\ pc' \in PC
    BY <1>12, SetStateType
    DEF NothingToSelect, StopAfterFailedActivation, WaitOrRefresh, NCIState, PC
  <2> QED
    BY <1>12, <1>a, <1>b, <2>1, <2>2, TalksStep
    DEF NothingToSelect, StopAfterFailedActivation
<1>13. CASE Wait \/ FastRecovery
  <2>1. Talks
    BY <1>13 DEF Wait, FastRecovery, Talks
  <2>2. HostTypeOK' /\ pc' \in PC
    BY <1>13, SetStateType, NoNewHost
    DEF Wait, FastRecovery, WaitOrRefresh, NCIState, BootStates, PC
  <2> QED
    BY <1>13, <1>a, <1>b, <2>1, <2>2, TalksStep DEF Wait, FastRecovery
<1>14. CASE ProcessMessage
  <2>1. Talks
    BY <1>14 DEF ProcessMessage, Talks
  <2>2. \A rx : NextState(rx) \subseteq NCIState
    BY DEF NextState, AfterSleep, NCIState
  <2>3. HostTypeOK'
    BY <1>14, <2>2, SetStateType, NoNewHost DEF ProcessMessage
  <2>4. pc' \in PC
    BY <1>14 DEF ProcessMessage, PC
  <2> QED
    BY <1>14, <1>a, <1>b, <2>1, <2>3, <2>4, TalksStep DEF ProcessMessage
<1>15. CASE TagExchange \/ TagAnswer
  <2>1. Talks
    BY <1>15 DEF TagExchange, TagAnswer, Talks
  <2>2. pc' \in PC
    BY <1>15 DEF TagExchange, TagAnswer, PC
  <2> QED
    BY <1>15, <1>a, <1>b, <2>1, <2>2, TalksStep, NoNewHost DEF TagExchange, TagAnswer
<1>16. CASE Deactivate
  <2>1. Talks
    BY <1>16 DEF Deactivate, StopDiscovery, Talks
  <2>2. HostTypeOK' /\ pc' \in PC
    BY <1>16, SetStateType DEF Deactivate, NCIState, BootStates, EpStates, PC
  <2> QED
    BY <1>16, <1>a, <1>b, <2>1, <2>2, TalksStep DEF Deactivate
<1>17. CASE SetTagEmulation
  <2>1. LinkTypeOK'
    BY <1>17, NoExchangeType DEF SetTagEmulation
  <2>2. HostTypeOK' /\ LoopTypeOK'
    BY <1>17, NoNewHost DEF SetTagEmulation, LoopTypeOK
  <2>3. CfgTypeOK'
    BY <1>17 DEF SetTagEmulation, CfgTypeOK
  <2> QED
    BY <2>1, <2>2, <2>3
<1>18. CASE Nfcc
  <2>1. LinkTypeOK' /\ UNCHANGED <<pc, host, sent, listening_enabled, cfg>>
    BY <1>18, NfccStep
  <2> QED
    BY <1>a, <2>1, NoNewHost DEF LoopTypeOK
<1>19. CASE UNCHANGED vars
  BY <1>19 DEF vars, LinkTypeOK, HostTypeOK, LoopTypeOK, CfgTypeOK
<1> QED
  BY <1>1, <1>2, <1>4, <1>5, <1>6, <1>7, <1>8, <1>9, <1>10, <1>11, <1>12, <1>13,
     <1>14, <1>15, <1>16, <1>17, <1>18, <1>19
  DEF Next, Driver, BringUp

\* Every variable keeps its type, and the chip queues only messages.
THEOREM TypeCorrect == Spec => []TypeOK
<1>1. Init => TypeOK
  <2> SUFFICES ASSUME Init PROVE TypeOK
    OBVIOUS
  <2>1. chip \in Chip
    <3>1. <<>> \in Seq(Message)
      OBVIOUS
    <3> QED
      BY <3>1 DEF Init, Chip
  <2>2. LinkTypeOK
    <3>1. faults \in 0..MaxFaults
      BY LinkAssumption DEF Init
    <3>2. lost \in BOOLEAN /\ lateInBoot \in BOOLEAN /\ outOfStep \in BOOLEAN
      BY Zenon DEF Init
    <3> QED
      BY <2>1, <3>1, <3>2 DEF LinkTypeOK
  <2>3. HostTypeOK
    <3>1. "NFCC_RESET" \in NCIState
      BY DEF NCIState, BootStates
    <3> QED
      BY <3>1, LinkAssumption DEF Init, HostTypeOK
  <2>4. CfgTypeOK
    BY DEF Init, CfgTypeOK
  <2>5. LoopTypeOK
    <3>1. Len(InitConfig) \in Nat
      BY DEF InitConfig
    <3>2. 0 \in 0..Len(InitConfig)
      BY <3>1
    <3> QED
      BY <3>2 DEF Init, LoopTypeOK, PC
  <2> QED
    BY <2>2, <2>3, <2>4, <2>5, TypeParts
<1>2. TypeOK /\ [Next]_vars => TypeOK'
  BY TypeStep
<1> QED
  BY <1>1, <1>2, PTL DEF Spec

-----------------------------------------------------------------------------
(* The configuration in force *)

Recorded == CoreConfig(core_config_is_solo).config

\* While the chip is brought up it may have lost what the driver recorded.
\* A refresh that decides on a reset does so with the chip still configured,
\* and a message of the same pass may overrule it: until its end the record
\* has to be true.
BeingBroughtUp ==
  pc \in {"loop", "fsm", "reset_ntf"} /\ nci_state \in BootStates \cup {"FAILED"}

\* ConfigInForce, strengthened to be inductive
RecordTrue == ~refused => chip.config = Recorded \/ BeingBroughtUp

LEMMA RecordImplies ==
  ASSUME RecordTrue
  PROVE  ConfigInForce
BY DEF RecordTrue, BeingBroughtUp, ConfigInForce, Recorded

\* A step that leaves record and configuration alone keeps the record true if
\* it does not leave the bring-up.
LEMMA RecordKept ==
  ASSUME RecordTrue, UNCHANGED <<core_config_is_solo, refused>>,
         chip'.config = chip.config, BeingBroughtUp => BeingBroughtUp'
  PROVE  RecordTrue'
BY DEF RecordTrue, Recorded

LEMMA RecordMade ==
  ASSUME LinkTypeOK, CfgTypeOK, NEW x, SendCoreConfig(x)
  PROVE  RecordTrue'
BY CoreConfigStep DEF RecordTrue, Recorded

LEMMA FailsInBoot ==
  ASSUME Fails, BeingBroughtUp
  PROVE  BeingBroughtUp'
BY DEF Fails, SetErrorState, SetState, BeingBroughtUp, BootStates

LEMMA RecordStep ==
  ASSUME TypeOK, RecordTrue, [Next]_vars
  PROVE  RecordTrue'
<1> USE TypeParts
<1>a. ASSUME Talks, UNCHANGED <<core_config_is_solo, refused>>,
             BeingBroughtUp => BeingBroughtUp'
      PROVE  RecordTrue'
  BY <1>a, TalksStep, RecordKept
<1>1. CASE ResetCore
  <2>1. BeingBroughtUp'
    BY <1>1 DEF ResetCore, Bring, Fails, SetErrorState, SetState, BeingBroughtUp, BootStates
  <2> QED
    BY <2>1 DEF RecordTrue
<1>2. CASE ResetNotification
  <2>1. Talks
    BY <1>2 DEF ResetNotification, Talks
  <2>2. BeingBroughtUp => BeingBroughtUp'
    BY <1>2, FailsInBoot
    DEF ResetNotification, Succeeds, SetState, BeingBroughtUp, BootStates
  <2> QED
    BY <1>2, <1>a, <2>1, <2>2 DEF ResetNotification
<1>3. ASSUME NEW state, NEW to,
             NEW oid \in {"INIT", "DISCOVER_MAP", "ROUTING"}, Step(state, oid, to),
             state \in BootStates \cup {"FAILED"} => to \in BootStates
      PROVE  RecordTrue'
  <2>1. Talks
    BY <1>3 DEF Step, Talks
  <2>2. BeingBroughtUp => BeingBroughtUp'
    BY <1>3, FailsInBoot DEF Step, Bring, Succeeds, SetState, BeingBroughtUp
  <2> QED
    BY <1>3, <1>a, <2>1, <2>2 DEF Step
<1>4. CASE InitCore \/ SetDiscoverMap \/ SetListenModeRouting
  BY <1>3, <1>4 DEF InitCore, SetDiscoverMap, SetListenModeRouting, BootStates
<1>5. CASE SendInitConfig
  <2> DEFINE next == InitConfig[sent + 1]
             cmd == Cmd(IF next = "PROPRIETARY" THEN next ELSE "SET_CONFIG")
  <2>1. PICK x \in Transceive(chip, cmd) :
          /\ Exchanged(x)
          /\ IF Accepted(cmd, x.rx) \/ next = "RF"
             THEN sent' = sent + 1 /\ pc' = "fsm" /\ UNCHANGED host
             ELSE sent' = 0 /\ Fails
    BY <1>5 DEF SendInitConfig
  <2>2. Talks
    <3>1. (IF next = "PROPRIETARY" THEN next ELSE "SET_CONFIG") \in {"PROPRIETARY", "SET_CONFIG"}
      OBVIOUS
    <3> QED
      BY <2>1, <3>1 DEF Talks
  <2>3. BeingBroughtUp => BeingBroughtUp'
    BY <2>1, FailsInBoot DEF BeingBroughtUp
  <2> QED
    BY <1>5, <1>a, <2>2, <2>3 DEF SendInitConfig
<1>6. CASE SendInitCoreConfig
  BY <1>6, RecordMade DEF SendInitCoreConfig
<1>7. CASE Idle
  <2>1. Talks
    BY <1>7 DEF Idle, StopDiscovery, Talks
  <2>2. ~BeingBroughtUp
    BY <1>7 DEF Idle, Bring, BeingBroughtUp, BootStates
  <2> QED
    BY <1>7, <1>a, <2>1, <2>2 DEF Idle
<1>8. CASE StartDiscovery \/ RefreshStop
  <2>1. Talks
    BY <1>8 DEF StartDiscovery, RefreshStop, StopDiscovery, Talks
  <2>2. ~BeingBroughtUp
    BY <1>8 DEF StartDiscovery, RefreshStop, BeingBroughtUp
  <2> QED
    BY <1>8, <1>a, <2>1, <2>2 DEF StartDiscovery, RefreshStop
<1>9. CASE Refresh
  <2>1. CASE NoExchange /\ UNCHANGED <<core_config_is_solo, refused>>
    BY <1>9, <1>a, <2>1 DEF Refresh, Talks, BeingBroughtUp
  <2>2. CASE \E x \in Transceive(chip, CoreConfig(ShouldBeSolo)) : SendCoreConfig(x)
    BY <2>2, RecordMade
  <2> QED
    BY <1>9, <2>1, <2>2 DEF Refresh
<1>10. CASE SelectEndpoint \/ NothingToSelect
  <2>1. Talks
    BY <1>10 DEF SelectEndpoint, NothingToSelect, StopDiscovery, Talks
  <2>2. ~BeingBroughtUp
    BY <1>10 DEF SelectEndpoint, NothingToSelect, Bring, BeingBroughtUp, BootStates
  <2> QED
    BY <1>10, <1>a, <2>1, <2>2 DEF SelectEndpoint, NothingToSelect
<1>11. CASE Wait \/ FastRecovery
  <2>1. Talks
    BY <1>11 DEF Wait, FastRecovery, Talks
  <2>2. ~BeingBroughtUp
    BY <1>11 DEF Wait, FastRecovery, EpStates, BeingBroughtUp, BootStates
  <2> QED
    BY <1>11, <1>a, <2>1, <2>2 DEF Wait, FastRecovery
<1>12. CASE ProcessMessage \/ StopAfterFailedActivation \/ TagExchange \/ TagAnswer
  <2>1. Talks
    BY <1>12
    DEF ProcessMessage, StopAfterFailedActivation, TagExchange, TagAnswer, StopDiscovery, Talks
  <2>2. ~BeingBroughtUp
    BY <1>12
    DEF ProcessMessage, StopAfterFailedActivation, TagExchange, TagAnswer, BeingBroughtUp
  <2> QED
    BY <1>12, <1>a, <2>1, <2>2
    DEF ProcessMessage, StopAfterFailedActivation, TagExchange, TagAnswer
<1>13. CASE Deactivate
  <2>1. Talks
    BY <1>13 DEF Deactivate, StopDiscovery, Talks
  <2>2. ~BeingBroughtUp
    BY <1>13 DEF Deactivate, BeingBroughtUp
  <2> QED
    BY <1>13, <1>a, <2>1, <2>2 DEF Deactivate
<1>14. CASE SetTagEmulation
  <2>1. Talks
    BY <1>14 DEF SetTagEmulation, Talks
  <2> QED
    BY <1>14, <1>a, <2>1 DEF SetTagEmulation, BeingBroughtUp
<1>15. CASE Nfcc
  BY <1>15, NfccStep, RecordKept DEF BeingBroughtUp
<1>16. CASE UNCHANGED vars
  BY <1>16 DEF vars, RecordTrue, Recorded, BeingBroughtUp
<1> QED
  BY <1>1, <1>2, <1>4, <1>5, <1>6, <1>7, <1>8, <1>9, <1>10, <1>11, <1>12, <1>13,
     <1>14, <1>15, <1>16
  DEF Next, Driver, BringUp

\* Whatever answers are late, lost or crossed, however many, and whoever
\* resets the chip: after the bring-up the chip has the core configuration the
\* driver recorded, unless it did not take the last command that carried it.
THEOREM ConfigInForceCorrect == Spec => []ConfigInForce
<1>1. Init => RecordTrue
  BY DEF Init, RecordTrue, BeingBroughtUp, BootStates
<1>2. TypeOK /\ RecordTrue /\ [Next]_vars => RecordTrue'
  BY RecordStep
<1>3. RecordTrue => ConfigInForce
  BY RecordImplies
<1> QED
  BY <1>1, <1>2, <1>3, TypeCorrect, PTL DEF Spec

-----------------------------------------------------------------------------
(* Giving up *)

\* Sequences of one and two messages
LEMMA Short ==
  ASSUME NEW a \in Message, NEW b \in Message
  PROVE  /\ <<>> \o <<a>> = <<a>> /\ <<>> \o <<a, b>> = <<a, b>>
         /\ Head(<<a>>) = a /\ Tail(<<a>>) = <<>> /\ <<a>> # <<>>
         /\ Head(<<a, b>>) = a /\ Tail(<<a, b>>) = <<b>> /\ <<a, b>> # <<>>
OBVIOUS

\* A chip that is idle and has nothing to say answers a command that configures
\* it, and has nothing to say again; without a fault its answer is accepted.
LEMMA QuietExchange ==
  ASSUME NEW c \in Chip, c.rf = "idle", c.out = <<>>,
         NEW cmd \in Commands, cmd.oid \in {"INIT", "PROPRIETARY", "SET_CONFIG"},
         NEW x \in Transceive(c, cmd), x.fault # "late"
  PROVE  /\ x.chip.rf = "idle" /\ x.chip.out = <<>>
         /\ x.fault = "none" => Accepted(cmd, x.rx)
         /\ x.fault # "none" => faults > 0
<1> DEFINE done == Execute(c, cmd)
           answer == Rsp(cmd.oid, "ok")
<1>1. answer \in Message /\ answer.oid = cmd.oid /\ answer.status = "ok"
  BY DEF Rsp, Message
<1>2. /\ done.out = <<answer>> /\ done.rf = "idle"
      /\ [done EXCEPT !.out = Tail(@)].out = Tail(done.out)
      /\ [done EXCEPT !.out = Tail(@)].rf = "idle"
  <2> DEFINE d == [c EXCEPT !.config = IF cmd.config = "none" THEN @ ELSE cmd.config]
  <2>1. d \in Chip /\ d.rf = "idle" /\ d.out = <<>>
    BY DEF Chip, Commands
  <2>2. done = Says(d, <<answer>>)
    BY DEF Execute
  <2>3. <<>> \o <<answer>> = <<answer>>
    BY <1>1, Short
  <2> HIDE DEF d, answer, done
  <2>4. done = [d EXCEPT !.out = <<answer>>]
    BY <2>1, <2>2, <2>3 DEF Says
  <2> QED
    BY <2>1, <2>4 DEF Chip
<1>3. Head(done.out) = answer /\ Tail(done.out) = <<>> /\ done.out # <<>>
  <2> HIDE DEF answer
  <2> QED
    BY <1>1, <1>2, Short
<1>4. \/ x = ReadHead(done, "none")
      \/ x \in Faulty("unsent", Outcome(c, NoMessage, "unsent"))
      \/ x \in Faulty("lost", ReadHead(c, "lost"))
      \/ x \in Faulty("dropped", ReadHead(Drop(done), "dropped"))
      \/ x \in Faulty("late", Outcome(done, NoMessage, "late"))
  BY DEF Transceive
<1> HIDE DEF done
<1>5. CASE x = ReadHead(done, "none")
  BY <1>1, <1>2, <1>3, <1>5 DEF ReadHead, Outcome, Accepted, Matches
<1>6. CASE x \in Faulty("unsent", Outcome(c, NoMessage, "unsent"))
  BY <1>6 DEF Faulty, Outcome
<1>7. CASE x \in Faulty("lost", ReadHead(c, "lost"))
  BY <1>7 DEF Faulty, ReadHead, Outcome
<1>8. CASE x \in Faulty("dropped", ReadHead(Drop(done), "dropped"))
  <2>1. Drop(done).out = <<>> /\ Drop(done).rf = "idle"
    BY <1>2, <1>3 DEF Drop
  <2> QED
    BY <1>8, <2>1 DEF Faulty, ReadHead, Outcome
<1>9. CASE x \in Faulty("late", Outcome(done, NoMessage, "late"))
  BY <1>9 DEF Faulty, Outcome
<1> QED
  BY <1>4, <1>5, <1>6, <1>7, <1>8, <1>9

\* After the power cycle the RESET command is answered, with the notification
\* next in the queue, or there was a fault.
LEMMA ResetExchange ==
  ASSUME NEW c \in Chip, NEW x \in Transceive(PowerCycle(c), Cmd("RESET"))
  PROVE  /\ x.fault # "none" => faults > 0
         /\ x.fault = "none" => Accepted(Cmd("RESET"), x.rx)
         /\ Accepted(Cmd("RESET"), x.rx) => x.chip.rf = "idle" /\ x.chip.out = <<ResetNtf>>
<1> DEFINE p == PowerCycle(c)
           cmd == Cmd("RESET")
           done == Execute(p, cmd)
           answer == Rsp("RESET", "ok")
<1>1. /\ answer \in Message /\ answer.oid = "RESET" /\ answer.status = "ok"
      /\ ResetNtf \in Message /\ ResetNtf.status = "other"
      /\ NoMessage.oid = "none" /\ cmd.oid = "RESET"
  BY DEF Rsp, Message, ResetNtf, Ntf, NoMessage, Cmd
<1>2. p \in Chip /\ p.rf = "idle" /\ p.out = <<>>
  BY PowerCycleType DEF PowerCycle, Chip
<1>3. done.rf = "idle" /\ done.out = <<answer, ResetNtf>> /\ done \in Chip
  <2> DEFINE d == [p EXCEPT !.rf = "idle", !.config = "default"]
  <2>1. d \in Chip /\ d.rf = "idle" /\ d.out = <<>>
    BY <1>2 DEF Chip
  <2>2. done = Says(d, <<answer, ResetNtf>>)
    BY DEF Execute, Cmd
  <2>3. <<>> \o <<answer, ResetNtf>> = <<answer, ResetNtf>> /\ <<answer, ResetNtf>> \in Seq(Message)
    BY <1>1, Short
  <2> HIDE DEF d, answer, done
  <2>4. done = [d EXCEPT !.out = <<answer, ResetNtf>>]
    BY <2>1, <2>2, <2>3 DEF Says
  <2>5. ASSUME NEW o \in Seq(Message)
        PROVE  /\ [d EXCEPT !.out = o].rf = "idle" /\ [d EXCEPT !.out = o].out = o
               /\ [d EXCEPT !.out = o] \in Chip
    BY <2>1 DEF Chip
  <2> QED
    BY <2>3, <2>4, <2>5
<1>4. /\ done.out # <<>> /\ Head(done.out) = answer /\ Tail(done.out) = <<ResetNtf>>
      /\ <<ResetNtf>> # <<>> /\ Head(<<ResetNtf>>) = ResetNtf
  <2> HIDE DEF answer, done
  <2> QED
    BY <1>1, <1>3, Short
<1>5. /\ [done EXCEPT !.out = Tail(@)].rf = "idle"
      /\ [done EXCEPT !.out = Tail(@)].out = <<ResetNtf>>
  <2> HIDE DEF answer, done
  <2> QED
    BY <1>3, <1>4 DEF Chip
<1>6. \/ x = ReadHead(done, "none")
      \/ x \in Faulty("unsent", Outcome(p, NoMessage, "unsent"))
      \/ x \in Faulty("lost", ReadHead(p, "lost"))
      \/ x \in Faulty("dropped", ReadHead(Drop(done), "dropped"))
      \/ x \in Faulty("late", Outcome(done, NoMessage, "late"))
  BY DEF Transceive
<1> HIDE DEF done, p, cmd
<1>7. CASE x = ReadHead(done, "none")
  <2>1. x = Outcome([done EXCEPT !.out = Tail(@)], answer, "none")
    BY <1>4, <1>7 DEF ReadHead
  <2> QED
    BY <1>1, <1>5, <2>1 DEF Outcome, Accepted, Matches, cmd
<1>8. CASE x.rx = NoMessage /\ x.fault # "none" /\ faults > 0
  BY <1>1, <1>8 DEF Accepted, Matches, cmd
<1>9. CASE x \in Faulty("dropped", ReadHead(Drop(done), "dropped"))
  <2>1. Drop(done).out = <<ResetNtf>>
    BY <1>4, <1>5 DEF Drop
  <2>2. x.rx = ResetNtf /\ x.fault = "dropped" /\ faults > 0
    BY <1>4, <1>9, <2>1 DEF Faulty, ReadHead, Outcome
  <2> QED
    BY <1>1, <2>2 DEF Accepted
<1>10. x \in Faulty("lost", ReadHead(p, "lost")) => x.rx = NoMessage /\ x.fault # "none" /\ faults > 0
  BY <1>2 DEF Faulty, ReadHead, Outcome
<1>11. x \in Faulty("unsent", Outcome(p, NoMessage, "unsent"))
         => x.rx = NoMessage /\ x.fault # "none" /\ faults > 0
  BY DEF Faulty, Outcome
<1>12. x \in Faulty("late", Outcome(done, NoMessage, "late"))
         => x.rx = NoMessage /\ x.fault # "none" /\ faults > 0
  BY DEF Faulty, Outcome
<1> QED
  BY <1>6, <1>7, <1>8, <1>9, <1>10, <1>11, <1>12

\* The notification of a reset is read, or the read was at fault.
LEMMA ResetRead ==
  ASSUME NEW c \in Chip, c.rf = "idle", c.out = <<ResetNtf>>, NEW x \in Reads(c)
  PROVE  /\ x.fault # "none" => faults > 0
         /\ x.fault = "none" => x.rx = ResetNtf
         /\ x.rx = ResetNtf => x.chip.rf = "idle" /\ x.chip.out = <<>>
<1>1. ResetNtf \in Message /\ ResetNtf # NoMessage
  BY DEF ResetNtf, Ntf, Message, NoMessage
<1>2. c.out # <<>> /\ Head(c.out) = ResetNtf /\ Tail(c.out) = <<>>
  BY <1>1, Short
<1>3. [c EXCEPT !.out = Tail(@)].rf = "idle" /\ [c EXCEPT !.out = Tail(@)].out = <<>>
  BY <1>2 DEF Chip
<1>4. CASE x = ReadHead(c, "none")
  BY <1>2, <1>3, <1>4 DEF ReadHead, Outcome
<1>5. CASE x \in Faulty("dropped", Outcome(Drop(c), NoMessage, "dropped"))
  BY <1>1, <1>5 DEF Faulty, Outcome
<1> QED
  BY <1>4, <1>5 DEF Reads

\* FatalOnlyInBoot, strengthened to be inductive.  As long as no answer was late
\* in NFCC_INIT or NFCC_CONFIG the chip has nothing to say there but the answer
\* to the next command, so that every failure takes a fault of its own, and
\* error_count with the faults to come never exceeds MaxFaults.
BootInv ==
  /\ pc \in {"refresh", "start"} => nci_state = "RFST_IDLE"
  /\ nci_state \in {"NFCC_INIT", "NFCC_CONFIG"} => pc \in {"loop", "fsm"}
  /\ pc = "reset_ntf" =>
       nci_state = "NFCC_RESET" /\ chip.rf = "idle" /\ chip.out = <<ResetNtf>>
  /\ ~lateInBoot =>
       /\ nci_state \in BootStates => error_count + faults <= MaxFaults
       /\ nci_state \in {"NFCC_INIT", "NFCC_CONFIG"} => chip.rf = "idle" /\ chip.out = <<>>
       /\ nci_state # "FAILED"

\* Fewer faults than retries
FewFaults == MaxFaults <= NFCC_MAX_ERROR_COUNT + 1

CountsOK == /\ error_count \in Nat
            /\ faults \in Nat /\ faults <= MaxFaults
            /\ MaxFaults \in Nat /\ NFCC_MAX_ERROR_COUNT \in Nat

LEMMA Counts == TypeOK => CountsOK
<1>1. MaxFaults \in Nat /\ NFCC_MAX_ERROR_COUNT \in Nat
  BY LinkAssumption
<1>2. TypeOK => error_count \in 0..(NFCC_MAX_ERROR_COUNT + 1) /\ faults \in 0..MaxFaults
  BY DEF TypeOK
<1> QED
  BY <1>1, <1>2 DEF CountsOK

LEMMA CountsNext ==
  ASSUME TypeOK', error_count' = 0
  PROVE  error_count' + faults' <= MaxFaults
<1>1. CountsOK'
  BY Counts, PTL
<1>2. faults' \in Nat /\ faults' <= MaxFaults /\ MaxFaults \in Nat
  BY <1>1 DEF CountsOK
<1>3. \A f, m \in Nat : f <= m => 0 + f <= m
  OBVIOUS
<1> QED
  BY <1>2, <1>3

\* The sum of failures and faults to come does not grow with a step that
\* counts no failure.
LEMMA SumBounded ==
  ASSUME TypeOK, TypeOK', faults' = faults \/ faults' = faults - 1,
         UNCHANGED error_count \/ error_count' = 0,
         error_count + faults <= MaxFaults
  PROVE  error_count' + faults' <= MaxFaults
<1>1. CountsOK /\ CountsOK'
  BY Counts, PTL
<1>2. /\ error_count \in Nat /\ faults \in Nat /\ MaxFaults \in Nat
      /\ error_count' \in Nat /\ faults' \in Nat
  BY <1>1 DEF CountsOK
<1>3. \A e, f, g, m \in Nat : (g = f \/ g = f - 1) /\ e + f <= m => e + g <= m /\ 0 + g <= m
  OBVIOUS
<1> QED
  BY <1>2, <1>3

\* An exchange spends at most one fault, and outside of NFCC_INIT and
\* NFCC_CONFIG a late answer is not recorded.
LEMMA ExchangedFaults ==
  ASSUME TypeOK, NEW x, Exchanged(x)
  PROVE  /\ faults' = faults \/ faults' = faults - 1
         /\ nci_state \notin {"NFCC_INIT", "NFCC_CONFIG"} => lateInBoot' = lateInBoot
<1>1. lateInBoot \in BOOLEAN
  BY DEF TypeOK
<1>2. lateInBoot' = (\/ lateInBoot
                     \/ x.fault = "late" /\ nci_state \in {"NFCC_INIT", "NFCC_CONFIG"})
  BY DEF Exchanged
<1>3. nci_state \notin {"NFCC_INIT", "NFCC_CONFIG"} => lateInBoot' = lateInBoot
  BY <1>1, <1>2, Zenon
<1>4. faults' = faults \/ faults' = faults - 1
  BY DEF Exchanged
<1> QED
  BY <1>3, <1>4

LEMMA TalksFaults ==
  ASSUME TypeOK, Talks
  PROVE  /\ faults' = faults \/ faults' = faults - 1
         /\ nci_state \notin {"NFCC_INIT", "NFCC_CONFIG"} => lateInBoot' = lateInBoot
BY ExchangedFaults DEF Talks, NoExchange

\* A failure with a fault of its own never is the last one.
LEMMA FailsByFault ==
  ASSUME FewFaults, HostTypeOK, faults \in 0..MaxFaults, SetErrorState,
         nci_state \in BootStates, error_count + faults <= MaxFaults,
         faults > 0, faults' = faults - 1
  PROVE  nci_state' = nci_state /\ error_count' + faults' <= MaxFaults
<1>1. ~(error_count > NFCC_MAX_ERROR_COUNT)
  BY LinkAssumption DEF FewFaults, HostTypeOK
<1>2. nci_state' = nci_state /\ error_count' = error_count + 1
  BY <1>1 DEF SetErrorState
<1> QED
  BY <1>2, LinkAssumption DEF HostTypeOK

\* A step outside the bring-up, that may enter NFCC_RESET
LEMMA BootEntered ==
  ASSUME TypeOK', BootInv, lateInBoot' = lateInBoot,
         nci_state' \notin {"NFCC_INIT", "NFCC_CONFIG", "FAILED"},
         nci_state' = "NFCC_RESET" => error_count' = 0,
         pc' # "reset_ntf",
         pc' \in {"refresh", "start"} => nci_state' = "RFST_IDLE"
  PROVE  BootInv'
<1>1. faults' <= MaxFaults /\ faults' \in Nat
  BY LinkAssumption DEF TypeOK
<1>2. nci_state' \in BootStates => error_count' + faults' <= MaxFaults
  BY <1>1, LinkAssumption DEF BootStates
<1> QED
  BY <1>2 DEF BootInv

\* An exchange of the bring-up's commands in NFCC_INIT or NFCC_CONFIG
LEMMA BootExchange ==
  ASSUME FewFaults, TypeOK, TypeOK', BootInv,
         nci_state \in {"NFCC_INIT", "NFCC_CONFIG"},
         NEW cmd \in Commands, cmd.oid \in {"INIT", "PROPRIETARY", "SET_CONFIG"},
         NEW x \in Transceive(chip, cmd), Exchanged(x),
         \/ pc' = "fsm" /\ UNCHANGED host
         \/ pc' = "fsm" /\ nci_state' \in {"NFCC_CONFIG", "NFCC_SET_DISCOVER_MAP"} /\ error_count' = 0
         \/ Fails /\ ~Accepted(cmd, x.rx)
  PROVE  BootInv'
<1>1. CASE lateInBoot'
  BY <1>1 DEF BootInv, Fails, SetErrorState, SetState, BootStates
<1>2. CASE ~lateInBoot'
  <2>1. ~lateInBoot /\ x.fault # "late"
    BY <1>2 DEF Exchanged
  <2>2. /\ chip.rf = "idle" /\ chip.out = <<>> /\ chip \in Chip
        /\ error_count + faults <= MaxFaults
    BY <2>1 DEF BootInv, TypeOK, BootStates
  <2>3. /\ chip'.rf = "idle" /\ chip'.out = <<>>
        /\ x.fault = "none" => Accepted(cmd, x.rx) /\ faults' = faults
        /\ x.fault # "none" => faults > 0 /\ faults' = faults - 1
    BY <2>1, <2>2, QuietExchange DEF Exchanged
  <2>4. UNCHANGED error_count \/ error_count' = 0 => error_count' + faults' <= MaxFaults
    BY <2>2, ExchangedFaults, SumBounded
  <2>5. CASE pc' = "fsm" /\ UNCHANGED host
    <3>1. error_count' + faults' <= MaxFaults
      BY <2>4, <2>5
    <3> QED
      BY <2>3, <2>5, <3>1 DEF BootInv
  <2>6. CASE pc' = "fsm" /\ nci_state' \in {"NFCC_CONFIG", "NFCC_SET_DISCOVER_MAP"} /\ error_count' = 0
    <3>1. error_count' + faults' <= MaxFaults
      BY <2>4, <2>6
    <3> QED
      BY <2>3, <2>6, <3>1 DEF BootInv
  <2>7. CASE Fails /\ ~Accepted(cmd, x.rx)
    <3>1. faults > 0 /\ faults' = faults - 1 /\ pc' = "loop" /\ SetErrorState
      BY <2>3, <2>7 DEF Fails
    <3>2. nci_state' = nci_state /\ error_count' + faults' <= MaxFaults
      BY <2>2, <3>1, FailsByFault DEF TypeOK, HostTypeOK, BootStates
    <3> QED
      BY <2>3, <3>1, <3>2 DEF BootInv
  <2> QED
    BY <2>5, <2>6, <2>7
<1> QED
  BY <1>1, <1>2

\* A step that leaves the driver where it is
LEMMA BootStays ==
  ASSUME TypeOK, BootInv, UNCHANGED <<host, faults, lateInBoot>>,
         pc' = pc, chip.rf = "idle" => chip' = chip
  PROVE  BootInv'
BY DEF BootInv

LEMMA BootStep ==
  ASSUME FewFaults, TypeOK, TypeOK', BootInv, [Next]_vars
  PROVE  BootInv'
<1>1. CASE ResetCore
  <2>1. PICK x \in Transceive(PowerCycle(chip), Cmd("RESET")) :
          /\ chip' = x.chip
          /\ faults' = IF x.fault = "none" THEN faults ELSE faults - 1
          /\ UNCHANGED lateInBoot
          /\ IF Accepted(Cmd("RESET"), x.rx)
             THEN pc' = "reset_ntf" /\ UNCHANGED host
             ELSE Fails
    BY <1>1 DEF ResetCore
  <2>2. nci_state = "NFCC_RESET" /\ chip \in Chip
    BY <1>1 DEF ResetCore, Bring, TypeOK
  <2>3. /\ x.fault # "none" => faults > 0
        /\ x.fault = "none" => Accepted(Cmd("RESET"), x.rx)
        /\ Accepted(Cmd("RESET"), x.rx) => chip'.rf = "idle" /\ chip'.out = <<ResetNtf>>
    BY <2>1, <2>2, ResetExchange
  <2>4. CASE Accepted(Cmd("RESET"), x.rx)
    <3>1. UNCHANGED error_count /\ (faults' = faults \/ faults' = faults - 1)
      BY <2>1, <2>4
    <3>2. ~lateInBoot => error_count' + faults' <= MaxFaults
      BY <2>2, <3>1, SumBounded DEF BootInv, BootStates
    <3> QED
      BY <2>1, <2>2, <2>3, <2>4, <3>2 DEF BootInv
  <2>5. CASE ~Accepted(Cmd("RESET"), x.rx)
    <3>1. Fails /\ faults > 0 /\ faults' = faults - 1
      BY <2>1, <2>3, <2>5
    <3>2. ~lateInBoot => nci_state' = nci_state /\ error_count' + faults' <= MaxFaults
      BY <2>2, <3>1, FailsByFault DEF BootInv, BootStates, TypeOK, HostTypeOK, Fails
    <3>3. nci_state' \in {"NFCC_RESET", "FAILED"} /\ pc' = "loop"
      BY <2>2, <3>1 DEF Fails, SetErrorState, SetState, BootStates
    <3> QED
      BY <2>1, <2>2, <3>2, <3>3 DEF BootInv
  <2> QED
    BY <2>4, <2>5
<1>2. CASE ResetNotification
  <2>1. PICK x \in Reads(chip) :
          Exchanged(x) /\ (IF x.rx = ResetNtf THEN Succeeds("NFCC_INIT") ELSE Fails)
    BY <1>2 DEF ResetNotification
  <2>2. nci_state = "NFCC_RESET" /\ chip.rf = "idle" /\ chip.out = <<ResetNtf>> /\ chip \in Chip
    BY <1>2 DEF ResetNotification, BootInv, TypeOK
  <2>3. /\ x.fault # "none" => faults > 0
        /\ x.fault = "none" => x.rx = ResetNtf
        /\ x.rx = ResetNtf => chip'.rf = "idle" /\ chip'.out = <<>>
    BY <2>1, <2>2, ResetRead DEF Exchanged
  <2>4. lateInBoot' = lateInBoot
    BY <2>1, <2>2, ExchangedFaults
  <2>5. CASE x.rx = ResetNtf
    <3>1. nci_state' = "NFCC_INIT" /\ error_count' = 0 /\ pc' = "fsm"
      BY <2>1, <2>5 DEF Succeeds, SetState
    <3>2. error_count' + faults' <= MaxFaults
      BY <3>1, CountsNext
    <3> QED
      BY <2>3, <2>5, <3>1, <3>2 DEF BootInv
  <2>6. CASE x.rx # ResetNtf
    <3>1. Fails /\ faults > 0 /\ faults' = faults - 1
      BY <2>1, <2>3, <2>6 DEF Exchanged
    <3>2. ~lateInBoot => nci_state' = nci_state /\ error_count' + faults' <= MaxFaults
      BY <2>2, <3>1, FailsByFault DEF BootInv, BootStates, TypeOK, HostTypeOK, Fails
    <3>3. nci_state' \in {"NFCC_RESET", "FAILED"} /\ pc' = "loop"
      BY <2>2, <3>1 DEF Fails, SetErrorState, SetState, BootStates
    <3> QED
      BY <2>2, <2>4, <3>2, <3>3 DEF BootInv
  <2> QED
    BY <2>5, <2>6
<1>3. CASE InitCore
  <2>1. PICK x \in Transceive(chip, Cmd("INIT")) :
          /\ Exchanged(x)
          /\ IF Accepted(Cmd("INIT"), x.rx) THEN Succeeds("NFCC_CONFIG") ELSE Fails
    BY <1>3 DEF InitCore, Step
  <2>2. nci_state = "NFCC_INIT" /\ Cmd("INIT") \in Commands /\ Cmd("INIT").oid = "INIT"
    BY <1>3, CommandTypes DEF InitCore, Step, Bring
  <2> QED
    BY <2>1, <2>2, BootExchange DEF Succeeds, SetState
<1>4. CASE SendInitConfig
  <2> DEFINE next == InitConfig[sent + 1]
             oid == IF next = "PROPRIETARY" THEN next ELSE "SET_CONFIG"
  <2>1. PICK x \in Transceive(chip, Cmd(oid)) :
          /\ Exchanged(x)
          /\ IF Accepted(Cmd(oid), x.rx) \/ next = "RF"
             THEN sent' = sent + 1 /\ pc' = "fsm" /\ UNCHANGED host
             ELSE sent' = 0 /\ Fails
    BY <1>4 DEF SendInitConfig
  <2>2. nci_state = "NFCC_CONFIG" /\ oid \in {"PROPRIETARY", "SET_CONFIG"}
    BY <1>4 DEF SendInitConfig, Bring
  <2> HIDE DEF oid
  <2>3. Cmd(oid) \in Commands /\ Cmd(oid).oid = oid
    BY <2>2, CommandTypes
  <2> QED
    BY <2>1, <2>2, <2>3, BootExchange
<1>5. CASE SendInitCoreConfig
  <2> DEFINE cmd == CoreConfig(ShouldBeSolo)
  <2>1. PICK x \in Transceive(chip, cmd) :
          /\ SendCoreConfig(x)
          /\ IF Accepted(cmd, x.rx)
             THEN Succeeds("NFCC_SET_DISCOVER_MAP") /\ config_refresh_pending' = FALSE
             ELSE Fails /\ UNCHANGED config_refresh_pending
    BY <1>5 DEF SendInitCoreConfig
  <2>2. nci_state = "NFCC_CONFIG" /\ ShouldBeSolo \in BOOLEAN
    BY <1>5 DEF SendInitCoreConfig, Bring, ShouldBeSolo, TypeOK
  <2>3. cmd \in Commands /\ cmd.oid = "SET_CONFIG"
    BY <2>2, CommandTypes
  <2>4. Exchanged(x)
    BY <2>1 DEF SendCoreConfig
  <2> HIDE DEF cmd
  <2> QED
    BY <2>1, <2>2, <2>3, <2>4, BootExchange DEF Succeeds, SetState
<1>6. CASE SetDiscoverMap \/ SetListenModeRouting
  <2>1. Talks
    BY <1>6 DEF SetDiscoverMap, SetListenModeRouting, Step, Talks
  <2>2. nci_state \notin {"NFCC_INIT", "NFCC_CONFIG"}
    BY <1>6 DEF SetDiscoverMap, SetListenModeRouting, Step, Bring
  <2>3. lateInBoot' = lateInBoot
    BY <2>1, <2>2, TalksFaults
  <2>4. /\ nci_state' \in {"NFCC_SET_DISCOVER_MAP", "NFCC_SET_LISTEN_MODE_ROUTING", "RFST_IDLE", "NFCC_RESET"}
        /\ nci_state' = "NFCC_RESET" => error_count' = 0
        /\ pc' \in {"fsm", "loop"}
    BY <1>6 DEF SetDiscoverMap, SetListenModeRouting, Step, Bring, Succeeds, Fails, SetErrorState,
                SetState, BootStates
  <2> QED
    BY <2>3, <2>4, BootEntered
<1>7. CASE Idle \/ StartDiscovery
  <2>1. Talks
    BY <1>7 DEF Idle, StartDiscovery, StopDiscovery, Talks
  <2>2. nci_state = "RFST_IDLE"
    BY <1>7 DEF Idle, StartDiscovery, Bring, BootInv
  <2>3. lateInBoot' = lateInBoot
    BY <2>1, <2>2, TalksFaults
  <2>4. /\ nci_state' \in {"RFST_IDLE", "RFST_DISCOVERY", "NFCC_RESET"}
        /\ nci_state' = "NFCC_RESET" => error_count' = 0
        /\ pc' # "reset_ntf" /\ (pc' \in {"refresh", "start"} => nci_state' = "RFST_IDLE")
    BY <1>7, <2>2 DEF Idle, StartDiscovery, SetErrorState, SetState, BootStates
  <2> QED
    BY <2>3, <2>4, BootEntered
<1>8. CASE RefreshStop \/ Deactivate \/ StopAfterFailedActivation \/ NothingToSelect \/ FastRecovery
  <2>1. Talks
    BY <1>8 DEF RefreshStop, Deactivate, StopAfterFailedActivation, NothingToSelect, FastRecovery,
                StopDiscovery, Talks
  <2>2. nci_state \notin {"NFCC_INIT", "NFCC_CONFIG"}
    BY <1>8 DEF RefreshStop, Deactivate, StopAfterFailedActivation, NothingToSelect, FastRecovery,
                Bring, EpStates, BootInv
  <2>3. lateInBoot' = lateInBoot
    BY <2>1, <2>2, TalksFaults
  <2>4. /\ nci_state' \in {"RFST_IDLE", "EP_DEACTIVATING", "NFCC_RESET"} /\ error_count' = 0
        /\ pc' \in {"refresh_wait", "await", "loop"}
    BY <1>8 DEF RefreshStop, AfterRefresh, Deactivate, StopAfterFailedActivation, NothingToSelect,
                WaitOrRefresh, FastRecovery, SetState
  <2> QED
    BY <2>3, <2>4, BootEntered
<1>9. CASE Refresh
  <2>1. nci_state \notin {"NFCC_INIT", "NFCC_CONFIG"}
    BY <1>9 DEF Refresh, BootInv
  <2>2. lateInBoot' = lateInBoot /\ (faults' = faults \/ faults' = faults - 1)
    BY <1>9, <2>1, ExchangedFaults DEF Refresh, NoExchange, SendCoreConfig
  <2>3. UNCHANGED host /\ pc' \in {"start", "await"} /\ (pc' = "start" => nci_state = "RFST_IDLE")
    BY <1>9 DEF Refresh, AfterRefresh, BootInv
  <2>4. error_count + faults <= MaxFaults => error_count' + faults' <= MaxFaults
    BY <2>2, <2>3, SumBounded
  <2> QED
    BY <2>1, <2>2, <2>3, <2>4 DEF BootInv
<1>10. CASE SelectEndpoint \/ Wait \/ ProcessMessage \/ TagExchange \/ TagAnswer
  <2>1. Talks
    BY <1>10 DEF SelectEndpoint, Wait, ProcessMessage, TagExchange, TagAnswer, Talks
  <2>2. nci_state \notin {"NFCC_INIT", "NFCC_CONFIG"}
    BY <1>10 DEF SelectEndpoint, Wait, ProcessMessage, TagExchange, TagAnswer, Bring, EpStates, BootInv
  <2>3. lateInBoot' = lateInBoot
    BY <2>1, <2>2, TalksFaults
  <2>4. /\ UNCHANGED host \/ nci_state' \notin BootStates \cup {"FAILED"}
        /\ pc' \notin {"reset_ntf", "refresh", "start"}
    BY <1>10 DEF SelectEndpoint, WaitOrRefresh, SetState, Wait, ProcessMessage, NextState, AfterSleep,
                 TagExchange, TagAnswer, BootStates
  <2>5. UNCHANGED host /\ error_count + faults <= MaxFaults => error_count' + faults' <= MaxFaults
    BY <2>1, TalksFaults, SumBounded
  <2> QED
    BY <2>2, <2>3, <2>4, <2>5 DEF BootInv, BootStates
<1>11. CASE SetTagEmulation \/ UNCHANGED vars
  BY <1>11, BootStays DEF SetTagEmulation, NoExchange, vars
<1>12. CASE Nfcc
  <2>1. UNCHANGED <<pc, host, faults, history>> /\ chip.rf # "idle"
    BY <1>12 DEF Nfcc, Unasked, TagActivated, ActivationFails, FirstTag, LastTag, Selected,
                 ReaderActivates, ReaderSleeps, ReaderWakes, ReaderLeaves, Notify
  <2> QED
    BY <2>1, BootStays
<1> QED
  BY <1>1, <1>2, <1>3, <1>4, <1>5, <1>6, <1>7, <1>8, <1>9, <1>10, <1>11, <1>12
  DEF Next, Driver, BringUp

\* With fewer faults than retries nci_fsm_set_error_state_() never gives up, for
\* whatever faults in whatever order, unless an answer was late in NFCC_INIT or
\* NFCC_CONFIG, where the answers stay one behind.
THEOREM FatalOnlyInBootCorrect ==
  ASSUME FewFaults
  PROVE  Spec => []FatalOnlyInBoot
<1>1. Init => BootInv
  BY LinkAssumption DEF Init, BootInv, BootStates
<1>2. TypeOK /\ TypeOK' /\ BootInv /\ [Next]_vars => BootInv'
  BY BootStep
<1>3. BootInv => FatalOnlyInBoot
  BY DEF BootInv, FatalOnlyInBoot
<1> QED
  BY <1>1, <1>2, <1>3, TypeCorrect, PTL DEF Spec

-----------------------------------------------------------------------------
(* No mutual wait *)

\* What the chip does and says by itself: from an RF state, with a message, to
\* another.  "deactivating" is the chip before the notification that it has
\* stopped; it is idle already.
RFStates == {"idle", "discovery", "w4_all_discoveries", "w4_host_select", "selecting",
             "active", "listen", "listen_sleep", "deactivating"}

Moves ==
  {<<"discovery", Activated("poll"), "active">>,
   <<"discovery", ActivationFailed, "discovery">>,
   <<"discovery", Discovered("more"), "w4_all_discoveries">>,
   <<"discovery", Activated("listen"), "listen">>,
   <<"w4_all_discoveries", Discovered("last"), "w4_host_select">>,
   <<"selecting", Activated("poll"), "active">>,
   <<"selecting", ActivationFailed, "w4_host_select">>,
   <<"listen", Deactivated("discovery"), "discovery">>,
   <<"listen", Deactivated("sleep"), "listen_sleep">>,
   <<"listen_sleep", Activated("listen"), "listen">>,
   <<"listen_sleep", Deactivated("discovery"), "discovery">>,
   <<"deactivating", Deactivated("idle"), "idle">>}

\* The messages lead from one of these RF states to another, move by move.
Leads(from, messages, to) ==
  \E at \in [1..(Len(messages) + 1) -> RFStates] :
    /\ at[1] \in from
    /\ at[Len(messages) + 1] = to
    /\ \A i \in 1..Len(messages) : <<at[i], messages[i], at[i + 1]>> \in Moves

LEMMA MoveIs ==
  ASSUME NEW a, NEW m, NEW b, <<a, m, b>> \in Moves
  PROVE  \/ a = "discovery" /\ m = Activated("poll") /\ b = "active"
         \/ a = "discovery" /\ m = ActivationFailed /\ b = "discovery"
         \/ a = "discovery" /\ m = Discovered("more") /\ b = "w4_all_discoveries"
         \/ a = "discovery" /\ m = Activated("listen") /\ b = "listen"
         \/ a = "w4_all_discoveries" /\ m = Discovered("last") /\ b = "w4_host_select"
         \/ a = "selecting" /\ m = Activated("poll") /\ b = "active"
         \/ a = "selecting" /\ m = ActivationFailed /\ b = "w4_host_select"
         \/ a = "listen" /\ m = Deactivated("discovery") /\ b = "discovery"
         \/ a = "listen" /\ m = Deactivated("sleep") /\ b = "listen_sleep"
         \/ a = "listen_sleep" /\ m = Activated("listen") /\ b = "listen"
         \/ a = "listen_sleep" /\ m = Deactivated("discovery") /\ b = "discovery"
         \/ a = "deactivating" /\ m = Deactivated("idle") /\ b = "idle"
BY DEF Moves

LEMMA LeadsNowhere ==
  ASSUME NEW from \in SUBSET RFStates, NEW to
  PROVE  Leads(from, <<>>, to) <=> to \in from
<1>1. Len(<<>>) = 0 /\ 1..0 = {} /\ 0 + 1 = 1
  OBVIOUS
<1>2. ASSUME to \in from
      PROVE  Leads(from, <<>>, to)
  <2> DEFINE at == [i \in 1..1 |-> to]
  <2>1. at \in [1..1 -> RFStates] /\ at[1] = to
    BY <1>2
  <2> HIDE DEF at
  <2> QED
    BY <1>1, <1>2, <2>1 DEF Leads
<1> QED
  BY <1>1, <1>2 DEF Leads

\* Without the first message the rest leads on from where that one led.
LEMMA LeadsHead ==
  ASSUME NEW from, NEW out \in Seq(Message), out # <<>>, NEW to, Leads(from, out, to)
  PROVE  \E a \in from : \E b \in RFStates :
           <<a, Head(out), b>> \in Moves /\ Leads({b}, Tail(out), to)
<1>1. PICK at \in [1..(Len(out) + 1) -> RFStates] :
        /\ at[1] \in from
        /\ at[Len(out) + 1] = to
        /\ \A i \in 1..Len(out) : <<at[i], out[i], at[i + 1]>> \in Moves
  BY DEF Leads
<1>2. PICK n \in Nat : Len(out) = n + 1
  <2>1. Len(out) \in Nat /\ Len(out) # 0
    OBVIOUS
  <2> QED
    BY <2>1, \A l \in Nat : l # 0 => l - 1 \in Nat /\ l = (l - 1) + 1
<1>3. /\ Len(Tail(out)) = n /\ Head(out) = out[1]
      /\ \A i \in 1..n : Tail(out)[i] = out[i + 1]
  BY <1>2
<1> DEFINE rest == [i \in 1..(n + 1) |-> at[i + 1]]
<1>4. \A i \in 1..(n + 1) : i \in 1..(n + 2) /\ i + 1 \in 1..(n + 2)
  OBVIOUS
<1>5. rest \in [1..(n + 1) -> RFStates] /\ rest[1] = at[2] /\ rest[n + 1] = to
  <2>1. at \in [1..(n + 2) -> RFStates] /\ at[n + 2] = to
    BY <1>1, <1>2
  <2>2. 1 \in 1..(n + 1) /\ n + 1 \in 1..(n + 1) /\ 1 + 1 = 2 /\ (n + 1) + 1 = n + 2
    OBVIOUS
  <2> QED
    BY <1>4, <2>1, <2>2
<1>6. \A i \in 1..n : <<rest[i], Tail(out)[i], rest[i + 1]>> \in Moves
  <2> SUFFICES ASSUME NEW i \in 1..n
               PROVE  <<rest[i], Tail(out)[i], rest[i + 1]>> \in Moves
    OBVIOUS
  <2>1. i \in 1..(n + 1) /\ i + 1 \in 1..(n + 1) /\ i + 1 \in 1..Len(out)
    BY <1>2
  <2>2. <<at[i + 1], out[i + 1], at[(i + 1) + 1]>> \in Moves
    BY <1>1, <2>1
  <2>3. rest[i] = at[i + 1] /\ rest[i + 1] = at[(i + 1) + 1]
    BY <2>1
  <2> HIDE DEF rest
  <2> QED
    BY <1>3, <2>2, <2>3
<1>7. at[2] \in RFStates /\ <<at[1], Head(out), at[2]>> \in Moves
  <2>1. 1 \in 1..Len(out) /\ 2 \in 1..(Len(out) + 1) /\ 1 + 1 = 2
    BY <1>2
  <2>2. <<at[1], out[1], at[1 + 1]>> \in Moves
    BY Zenon, <1>1, <2>1
  <2> QED
    BY <1>1, <1>3, <2>1, <2>2
<1> HIDE DEF rest
<1>8. Leads({at[2]}, Tail(out), to)
  BY <1>3, <1>5, <1>6 DEF Leads
<1> QED
  BY <1>1, <1>7, <1>8

\* What the chip says next leads on.
LEMMA LeadsOn ==
  ASSUME NEW from, NEW out \in Seq(Message), NEW a, Leads(from, out, a),
         NEW m \in Message, NEW b \in RFStates, <<a, m, b>> \in Moves
  PROVE  Leads(from, out \o <<m>>, b)
<1>1. PICK at \in [1..(Len(out) + 1) -> RFStates] :
        /\ at[1] \in from
        /\ at[Len(out) + 1] = a
        /\ \A i \in 1..Len(out) : <<at[i], out[i], at[i + 1]>> \in Moves
  BY DEF Leads
<1> DEFINE n == Len(out)
           all == out \o <<m>>
           new == [i \in 1..(n + 2) |-> IF i = n + 2 THEN b ELSE at[i]]
<1>2. n \in Nat
  OBVIOUS
<1>3. Len(all) = n + 1 /\ all[n + 1] = m /\ \A i \in 1..n : all[i] = out[i]
  OBVIOUS
<1> HIDE DEF n, all
<1>4. /\ \A i \in 1..(n + 2) : i = n + 2 \/ i \in 1..(n + 1)
      /\ \A i \in 1..(n + 1) : i \in 1..(n + 2) /\ i # n + 2
      /\ 1 \in 1..(n + 1) /\ n + 1 \in 1..(n + 1) /\ n + 2 \in 1..(n + 2)
      /\ (n + 1) + 1 = n + 2
  BY <1>2
<1>5. /\ at \in [1..(n + 1) -> RFStates] /\ at[1] \in from /\ at[n + 1] = a
      /\ \A i \in 1..n : <<at[i], out[i], at[i + 1]>> \in Moves
  BY <1>1 DEF n
<1>6. /\ new \in [1..(n + 2) -> RFStates] /\ new[n + 2] = b
      /\ \A i \in 1..(n + 1) : new[i] = at[i]
  BY <1>4, <1>5
<1> HIDE DEF new
<1>7. \A i \in 1..(n + 1) : <<new[i], all[i], new[i + 1]>> \in Moves
  <2> SUFFICES ASSUME NEW i \in 1..(n + 1)
               PROVE  <<new[i], all[i], new[i + 1]>> \in Moves
    OBVIOUS
  <2>1. CASE i = n + 1
    BY <1>3, <1>4, <1>5, <1>6, <2>1
  <2>2. CASE i # n + 1
    <3>1. i \in 1..n /\ i + 1 \in 1..(n + 1)
      BY <1>2, <2>2
    <3>2. <<at[i], out[i], at[i + 1]>> \in Moves
      BY <1>5, <3>1
    <3> QED
      BY <1>3, <1>6, <3>1, <3>2
  <2> QED
    BY <2>1, <2>2
<1>8. new[1] \in from
  BY <1>4, <1>5, <1>6
<1>9. Leads(from, all, b)
  BY <1>3, <1>4, <1>6, <1>7, <1>8 DEF Leads
<1> QED
  BY <1>9 DEF all

\* From RF states that the chip does not leave by itself nothing leads on.
LEMMA LeadsStuck ==
  ASSUME NEW b \in {"active", "idle", "w4_host_select"},
         NEW out \in Seq(Message), NEW to, Leads({b}, out, to)
  PROVE  out = <<>> /\ to = b
<1>1. out = <<>>
  <2> SUFFICES ASSUME out # <<>>
               PROVE  FALSE
    OBVIOUS
  <2>a. \E a \in {b} : \E d \in RFStates :
           <<a, Head(out), d>> \in Moves /\ Leads({d}, Tail(out), to)
    BY Zenon, LeadsHead
  <2>1. PICK a \in {b} : \E d \in RFStates : <<a, Head(out), d>> \in Moves
    BY Zenon, <2>a
  <2>2. PICK d \in RFStates : <<a, Head(out), d>> \in Moves
    BY <2>1
  <2> QED
    BY <2>2, MoveIs
<1>2. {b} \in SUBSET RFStates
  BY DEF RFStates
<1> QED
  BY <1>1, <1>2, LeadsNowhere

LEMMA LeadsMore ==
  ASSUME NEW from, NEW more, from \subseteq more, NEW out, NEW to, Leads(from, out, to)
  PROVE  Leads(more, out, to)
BY DEF Leads

\* A chip with nothing to say is read for what it says next.
LEMMA ReadsHead ==
  ASSUME NEW d \in Chip, d.out = <<>>, NEW o \in Seq(Message), o # <<>>,
         NEW r, r = ReadHead(Says(d, o), "none")
  PROVE  r.rx = Head(o) /\ r.chip.rf = d.rf /\ r.chip.out = Tail(o)
<1>1. <<>> \o o = o
  OBVIOUS
<1> DEFINE e == [d EXCEPT !.out = o]
<1>2. Says(d, o) = e
  BY <1>1 DEF Says
<1>3. e \in Chip /\ e.out = o /\ e.rf = d.rf
  BY DEF Chip
<1> HIDE DEF e
<1> DEFINE f == [e EXCEPT !.out = Tail(@)]
<1>4. f.rf = e.rf /\ f.out = Tail(e.out)
  BY <1>3 DEF Chip
<1>5. r = Outcome(f, Head(e.out), "none")
  BY <1>2, <1>3 DEF ReadHead
<1> HIDE DEF f
<1>6. r.rx = Head(e.out) /\ r.chip = f
  BY <1>5 DEF Outcome
<1> QED
  BY <1>3, <1>4, <1>6

LEMMA ReadsAnswer ==
  ASSUME NEW d \in Chip, d.out = <<>>, NEW m \in Message,
         NEW r, r = ReadHead(Says(d, <<m>>), "none")
  PROVE  r.rx = m /\ r.chip.rf = d.rf /\ r.chip.out = <<>>
<1> DEFINE o == <<m>>
<1>1. o \in Seq(Message) /\ o # <<>> /\ Head(o) = m /\ Tail(o) = <<>>
  BY Short
<1>2. r = ReadHead(Says(d, o), "none")
  OBVIOUS
<1> HIDE DEF o
<1>3. r.rx = Head(o) /\ r.chip.rf = d.rf /\ r.chip.out = Tail(o)
  BY Zenon, <1>1, <1>2, ReadsHead
<1> QED
  BY <1>1, <1>3

LEMMA ReadsFirst ==
  ASSUME NEW d \in Chip, d.out = <<>>, NEW m \in Message, NEW n \in Message,
         NEW r, r = ReadHead(Says(d, <<m, n>>), "none")
  PROVE  r.rx = m /\ r.chip.rf = d.rf /\ r.chip.out = <<n>>
<1> DEFINE o == <<m, n>>
<1>1. o \in Seq(Message) /\ o # <<>> /\ Head(o) = m /\ Tail(o) = <<n>>
  BY Short
<1>2. r = ReadHead(Says(d, o), "none")
  OBVIOUS
<1> HIDE DEF o
<1>3. r.rx = Head(o) /\ r.chip.rf = d.rf /\ r.chip.out = Tail(o)
  BY Zenon, <1>1, <1>2, ReadsHead
<1> QED
  BY <1>1, <1>3

LEMMA OwnAnswer ==
  ASSUME NEW c, NEW cmd, NEW x \in Transceive(c, cmd), x.fault = "none"
  PROVE  x = ReadHead(Execute(c, cmd), "none")
<1> DEFINE done == Execute(c, cmd)
<1>1. \/ x = ReadHead(done, "none")
      \/ x \in Faulty("unsent", Outcome(c, NoMessage, "unsent"))
      \/ x \in Faulty("lost", ReadHead(c, "lost"))
      \/ x \in Faulty("dropped", ReadHead(Drop(done), "dropped"))
      \/ x \in Faulty("late", Outcome(done, NoMessage, "late"))
  BY DEF Transceive
<1> HIDE DEF done
<1>2. \A d, kind : ReadHead(d, kind).fault = kind
  BY DEF ReadHead, Outcome
<1>3. /\ x \notin Faulty("unsent", Outcome(c, NoMessage, "unsent"))
      /\ x \notin Faulty("late", Outcome(done, NoMessage, "late"))
  BY DEF Faulty, Outcome
<1>4. /\ x \notin Faulty("lost", ReadHead(c, "lost"))
      /\ x \notin Faulty("dropped", ReadHead(Drop(done), "dropped"))
  BY <1>2 DEF Faulty
<1> QED
  BY <1>1, <1>3, <1>4 DEF done

\* Without a fault a chip with nothing to say answers the command, and is then
\* where the command puts it.
ConfigOids == {"INIT", "PROPRIETARY", "SET_CONFIG", "DISCOVER_MAP", "ROUTING"}

LEMMA AnswersConfig ==
  ASSUME NEW c \in Chip, c.out = <<>>, NEW cmd \in Commands, cmd.oid \in ConfigOids,
         NEW x \in Transceive(c, cmd), x.fault = "none"
  PROVE  x.chip.rf = c.rf /\ x.chip.out = <<>>
<1> DEFINE d == [c EXCEPT !.config = IF cmd.config = "none" THEN @ ELSE cmd.config]
<1>1. d \in Chip /\ d.rf = c.rf /\ d.out = <<>>
  BY DEF Chip, Commands
<1>2. \A status \in {"ok", "other"} : Rsp(cmd.oid, status) \in Message
  BY DEF Rsp, Message, ConfigOids
<1> DEFINE ok == Rsp(cmd.oid, "ok")
           denied == Rsp(cmd.oid, "other")
<1>3. Execute(c, cmd) \in {Says(d, <<ok>>), Says(c, <<denied>>)}
  BY DEF Execute, ConfigOids
<1>4. x = ReadHead(Execute(c, cmd), "none")
  BY OwnAnswer
<1>5. ok \in Message /\ denied \in Message
  BY <1>2
<1> HIDE DEF d, ok, denied
<1>6. CASE Execute(c, cmd) = Says(d, <<ok>>)
  <2>1. x = ReadHead(Says(d, <<ok>>), "none")
    BY <1>4, <1>6
  <2>2. x.chip.rf = d.rf /\ x.chip.out = <<>>
    BY <1>1, <1>5, <2>1, ReadsAnswer
  <2> QED
    BY <1>1, <2>2
<1>7. CASE Execute(c, cmd) = Says(c, <<denied>>)
  <2>1. x = ReadHead(Says(c, <<denied>>), "none")
    BY <1>4, <1>7
  <2> QED
    BY <1>5, <2>1, ReadsAnswer
<1> QED
  BY <1>3, <1>6, <1>7

LEMMA AnswersDiscover ==
  ASSUME NEW c \in Chip, c.out = <<>>, c.rf = "idle",
         NEW x \in Transceive(c, Cmd("DISCOVER")), x.fault = "none"
  PROVE  x.chip.rf = "discovery" /\ x.chip.out = <<>> /\ Started(x)
<1> DEFINE d == [c EXCEPT !.rf = "discovery"]
           answer == Rsp("DISCOVER", "ok")
<1>1. d \in Chip /\ d.rf = "discovery" /\ d.out = <<>>
  BY DEF Chip
<1>2. answer \in Message /\ answer.status = "ok"
  BY DEF Rsp, Message
<1>3. Execute(c, Cmd("DISCOVER")) = Says(d, <<answer>>)
  BY DEF Execute, Cmd
<1>4. x = ReadHead(Execute(c, Cmd("DISCOVER")), "none")
  BY OwnAnswer
<1> HIDE DEF d, answer
<1>5. x.rx = answer /\ x.chip.rf = d.rf /\ x.chip.out = <<>>
  BY <1>1, <1>2, <1>3, <1>4, ReadsAnswer
<1> QED
  BY <1>1, <1>2, <1>5 DEF Started

LEMMA AnswersSelect ==
  ASSUME NEW c \in Chip, c.out = <<>>, c.rf = "w4_host_select",
         NEW x \in Transceive(c, Cmd("SELECT")), x.fault = "none"
  PROVE  x.chip.rf = "selecting" /\ x.chip.out = <<>> /\ Accepted(Cmd("SELECT"), x.rx)
<1> DEFINE d == [c EXCEPT !.rf = "selecting"]
           answer == Rsp("SELECT", "ok")
<1>1. d \in Chip /\ d.rf = "selecting" /\ d.out = <<>>
  BY DEF Chip
<1>2. answer \in Message /\ Accepted(Cmd("SELECT"), answer)
  BY DEF Rsp, Message, Accepted, Matches, Cmd
<1>3. Execute(c, Cmd("SELECT")) = Says(d, <<answer>>)
  BY DEF Execute, Cmd
<1>4. x = ReadHead(Execute(c, Cmd("SELECT")), "none")
  BY OwnAnswer
<1> HIDE DEF d, answer
<1>5. x.rx = answer /\ x.chip.rf = d.rf /\ x.chip.out = <<>>
  BY <1>1, <1>2, <1>3, <1>4, ReadsAnswer
<1> QED
  BY <1>1, <1>2, <1>5

LEMMA AnswersDeactivate ==
  ASSUME NEW c \in Chip, c.out = <<>>,
         NEW x \in Transceive(c, Cmd("DEACTIVATE")), x.fault = "none"
  PROVE  /\ x.chip.rf = "idle"
         /\ x.chip.out = IF c.rf \in {"active", "listen", "listen_sleep"} THEN <<Deactivated("idle")>> ELSE <<>>
         /\ c.rf # "idle" => Stopped(x)
<1> DEFINE d == [c EXCEPT !.rf = "idle"]
           ok == Rsp("DEACTIVATE", "ok")
           denied == Rsp("DEACTIVATE", "other")
           left == Deactivated("idle")
<1>1. d \in Chip /\ d.rf = "idle" /\ d.out = <<>>
  BY DEF Chip
<1>2. ok \in Message /\ denied \in Message /\ left \in Message
  BY DEF Rsp, Deactivated, Ntf, Message
<1>3. Accepted(Cmd("DEACTIVATE"), ok)
  BY DEF Rsp, Accepted, Matches, Cmd
<1>4. Execute(c, Cmd("DEACTIVATE")) =
        IF c.rf = "idle" THEN Says(c, <<denied>>)
        ELSE IF c.rf \in {"active", "listen", "listen_sleep"} THEN Says(d, <<ok, left>>)
        ELSE Says(d, <<ok>>)
  BY DEF Execute, Cmd
<1>5. x = ReadHead(Execute(c, Cmd("DEACTIVATE")), "none")
  BY OwnAnswer
<1> HIDE DEF d, ok, denied, left
<1>a. d \in Chip /\ d.out = <<>> /\ ok \in Message
  BY <1>1, <1>2
<1>6. CASE c.rf = "idle"
  <2>1. x = ReadHead(Says(c, <<denied>>), "none")
    BY <1>4, <1>5, <1>6
  <2>2. x.chip.rf = c.rf /\ x.chip.out = <<>>
    BY <1>2, <2>1, ReadsAnswer
  <2> QED
    BY <1>6, <2>2
<1>7. CASE c.rf \in {"active", "listen", "listen_sleep"}
  <2>1. x = ReadHead(Says(d, <<ok, left>>), "none")
    BY <1>4, <1>5, <1>7
  <2>2. x.rx = ok /\ x.chip.rf = d.rf /\ x.chip.out = <<left>>
    <3>1. left \in Message
      BY <1>2
    <3> QED
      BY <1>a, <2>1, <3>1, ReadsFirst
  <2>3. Stopped(x)
    BY <1>3, <2>2 DEF Stopped
  <2> QED
    BY <1>1, <1>7, <2>2, <2>3 DEF left
<1>8. CASE c.rf \notin {"idle", "active", "listen", "listen_sleep"}
  <2>1. x = ReadHead(Says(d, <<ok>>), "none")
    BY <1>4, <1>5, <1>8
  <2>2. x.rx = ok /\ x.chip.rf = d.rf /\ x.chip.out = <<>>
    BY <1>a, <2>1, ReadsAnswer
  <2>3. Stopped(x)
    BY <1>3, <2>2 DEF Stopped
  <2> QED
    BY <1>1, <1>8, <2>2, <2>3
<1> QED
  BY <1>6, <1>7, <1>8

LEMMA AnswersData ==
  ASSUME NEW c \in Chip, c.out = <<>>, c.rf = "active",
         NEW x \in Transceive(c, Cmd("DATA")), x.fault = "none"
  PROVE  x.chip.rf = "active" /\ x.chip.out = <<TagData>> /\ x.rx = Credits
<1>1. Credits \in Message /\ TagData \in Message
  BY DEF Credits, TagData, Ntf, Message
<1>2. Execute(c, Cmd("DATA")) = Says(c, <<Credits, TagData>>)
  BY DEF Execute, Cmd
<1>3. x = ReadHead(Execute(c, Cmd("DATA")), "none")
  BY OwnAnswer
<1>4. x = ReadHead(Says(c, <<Credits, TagData>>), "none")
  BY <1>2, <1>3
<1>5. x.rx = Credits /\ x.chip.rf = c.rf /\ x.chip.out = <<TagData>>
  BY <1>1, <1>4, ReadsFirst
<1> QED
  BY <1>5

\* An exchange that leaves driver and chip in step found them in step, but for
\* the one in which they meet.
LEMMA KeepsStep ==
  ASSUME NEW x, Exchanged(x), ~outOfStep', ~Met(x)
  PROVE  /\ ~outOfStep
         /\ x.fault = "none"
         /\ pc \notin Receiving => chip.out = <<>>
         /\ chip' = x.chip
BY DEF Exchanged, Stale


\* Where a driver in a waiting state takes the chip to be, before it has read
\* what the chip has to say
StartOf(state) == IF state = "EP_DEACTIVATING" THEN {"deactivating"} ELSE Counterparts(state)

Quiet == chip.rf = "idle" /\ chip.out = <<>>

Configuring == {"NFCC_INIT", "NFCC_CONFIG", "NFCC_SET_DISCOVER_MAP",
                "NFCC_SET_LISTEN_MODE_ROUTING"}

\* Driver and chip in step: a chip that is being configured is idle and quiet,
\* one the driver waits for is where its messages, read one by one, will take
\* the driver.
InStep ==
  /\ nci_state \in {"NFCC_RESET", "FAILED"} => pc \in {"loop", "fsm", "reset_ntf"}
  /\ pc = "reset_ntf" =>
       nci_state = "NFCC_RESET" /\ chip.rf = "idle" /\ chip.out = <<ResetNtf>>
  /\ nci_state \in Configuring => pc \in {"loop", "fsm"} /\ Quiet
  /\ nci_state = "RFST_IDLE" =>
       pc \in {"loop", "fsm", "refresh", "refresh_wait", "start", "await"} /\ Quiet
  /\ nci_state \in WaitingStates =>
       /\ pc \in {"loop", "await", "refresh_wait", "give_up"}
       /\ pc = "give_up" => nci_state = "RFST_DISCOVERY"
       /\ Leads(StartOf(nci_state), chip.out, chip.rf)
  /\ nci_state = "RFST_POLL_ACTIVE" =>
       /\ pc \in {"task", "task_data", "deactivate"}
       /\ chip.rf = "active"
       /\ chip.out = IF pc = "task_data" THEN <<TagData>> ELSE <<>>

\* NoMutualWait, strengthened to be inductive
StepInv == ~outOfStep => InStep

\* One lemma for each group of states the driver can be in after a step
LEMMA InReset ==
  ASSUME nci_state' \in {"NFCC_RESET", "FAILED"},
         \/ pc' \in {"loop", "fsm"}
         \/ /\ pc' = "reset_ntf" /\ nci_state' = "NFCC_RESET"
            /\ chip'.rf = "idle" /\ chip'.out = <<ResetNtf>>
  PROVE  InStep'
BY DEF InStep, Configuring, WaitingStates, EpStates

LEMMA InConfiguring ==
  ASSUME nci_state' \in Configuring, pc' \in {"loop", "fsm"},
         chip'.rf = "idle", chip'.out = <<>>
  PROVE  InStep'
BY DEF InStep, Configuring, WaitingStates, EpStates, Quiet

LEMMA InIdle ==
  ASSUME nci_state' = "RFST_IDLE",
         pc' \in {"loop", "fsm", "refresh", "refresh_wait", "start", "await"},
         chip'.rf = "idle", chip'.out = <<>>
  PROVE  InStep'
BY DEF InStep, Configuring, WaitingStates, EpStates, Quiet

LEMMA InWaiting ==
  ASSUME nci_state' \in WaitingStates,
         pc' \in {"loop", "await", "refresh_wait", "give_up"},
         pc' = "give_up" => nci_state' = "RFST_DISCOVERY",
         Leads(StartOf(nci_state'), chip'.out, chip'.rf)
  PROVE  InStep'
BY DEF InStep, Configuring, WaitingStates, EpStates, StartOf, Counterparts

LEMMA InTask ==
  ASSUME nci_state' = "RFST_POLL_ACTIVE", pc' \in {"task", "task_data", "deactivate"},
         chip'.rf = "active", chip'.out = IF pc' = "task_data" THEN <<TagData>> ELSE <<>>
  PROVE  InStep'
BY DEF InStep, Configuring, WaitingStates, EpStates

\* What the place in loop() says of the state
LEMMA Where ==
  ASSUME InStep, nci_state \in NCIState
  PROVE  /\ pc \in {"start", "refresh"} => nci_state = "RFST_IDLE"
         /\ pc \in {"await", "refresh_wait"} => nci_state \in WaitingStates \cup {"RFST_IDLE"}
         /\ pc = "give_up" => nci_state = "RFST_DISCOVERY"
         /\ pc \in {"task", "task_data", "deactivate"} => nci_state = "RFST_POLL_ACTIVE"
BY DEF InStep, NCIState, Configuring, WaitingStates, EpStates, BootStates

LEMMA StartsAre ==
  /\ StartOf("RFST_DISCOVERY") = {"discovery", "w4_all_discoveries"}
  /\ StartOf("RFST_W4_HOST_SELECT") = {"w4_host_select"}
  /\ StartOf("EP_SELECTING") = {"selecting"}
  /\ StartOf("RFST_LISTEN_ACTIVE") = {"listen"}
  /\ StartOf("RFST_LISTEN_SLEEP") = {"listen_sleep"}
  /\ StartOf("EP_DEACTIVATING") = {"deactivating"}
BY DEF StartOf, Counterparts

LEMMA StartsIn == \A state : StartOf(state) \in SUBSET RFStates
BY DEF StartOf, Counterparts, RFStates

\* A driver that waits for a chip with nothing more to say knows where it is.
LEMMA KnowsChip ==
  ASSUME InStep, nci_state \in WaitingStates, chip.out = <<>>
  PROVE  chip.rf \in StartOf(nci_state)
<1>1. Leads(StartOf(nci_state), <<>>, chip.rf)
  BY DEF InStep
<1>2. StartOf(nci_state) \in SUBSET RFStates
  BY StartsIn
<1> QED
  BY <1>1, <1>2, LeadsNowhere

\* Steps after which the driver is in the same state and the chip where it was
LEMMA StaysInStep ==
  ASSUME InStep, nci_state \in WaitingStates \cup {"RFST_IDLE"}, nci_state' = nci_state,
         pc' \in {"loop", "await", "refresh_wait"},
         chip'.rf = chip.rf, chip'.out = chip.out
  PROVE  InStep'
<1>1. CASE nci_state = "RFST_IDLE"
  <2>1. Quiet
    BY <1>1 DEF InStep
  <2> QED
    BY <1>1, <2>1, InIdle DEF Quiet
<1>2. CASE nci_state \in WaitingStates
  <2>1. Leads(StartOf(nci_state), chip.out, chip.rf)
    BY <1>2 DEF InStep
  <2>2. Leads(StartOf(nci_state'), chip'.out, chip'.rf)
    BY <2>1
  <2> QED
    BY <1>2, <2>2, InWaiting
<1> QED
  BY <1>1, <1>2

\* The commands that configure the chip
LEMMA ConfiguringStep ==
  ASSUME TypeOK, StepInv, ~outOfStep', nci_state \in Configuring, pc # "start",
         NEW cmd \in Commands, cmd.oid \in ConfigOids,
         NEW x \in Transceive(chip, cmd), Exchanged(x),
         \/ pc' = "fsm" /\ UNCHANGED host
         \/ pc' = "fsm" /\ nci_state' \in Configuring \cup {"RFST_IDLE"}
         \/ Fails
  PROVE  InStep'
<1>1. ~Met(x)
  BY DEF Met
<1>2. ~outOfStep /\ x.fault = "none" /\ chip' = x.chip
  BY <1>1, KeepsStep
<1>3. Quiet /\ pc \in {"loop", "fsm"} /\ chip \in Chip
  BY <1>2 DEF StepInv, InStep, TypeOK
<1>4. chip'.rf = "idle" /\ chip'.out = <<>>
  BY <1>2, <1>3, AnswersConfig DEF Quiet
<1>5. \/ nci_state' \in Configuring \cup {"RFST_IDLE"} /\ pc' \in {"loop", "fsm"}
      \/ nci_state' \in {"NFCC_RESET", "FAILED"} /\ pc' = "loop"
  BY DEF Fails, SetErrorState, SetState
<1> QED
  BY <1>4, <1>5, InConfiguring, InIdle, InReset

\* A deactivation of a chip that has nothing to say and is not in contact with
\* a tag or a reader leaves it idle and quiet.
LEMMA StopsQuietly ==
  ASSUME TypeOK, StepInv, ~outOfStep', pc \notin Receiving \cup {"start"},
         NEW x, StopDiscovery(x), chip.rf \notin {"active", "listen", "listen_sleep"}
  PROVE  chip'.rf = "idle" /\ chip'.out = <<>> /\ (chip.rf # "idle" => Stopped(x))
<1>1. ~Met(x) /\ Exchanged(x) /\ x \in Transceive(chip, Cmd("DEACTIVATE"))
  BY DEF Met, StopDiscovery
<1>2. x.fault = "none" /\ chip' = x.chip /\ chip.out = <<>>
  BY <1>1, KeepsStep
<1>3. chip \in Chip
  BY DEF TypeOK
<1> QED
  BY <1>1, <1>2, <1>3, AnswersDeactivate

LEMMA ReadsNext ==
  ASSUME NEW c \in Chip, c.out # <<>>, NEW x \in Reads(c), x.fault = "none"
  PROVE  x.rx = Head(c.out) /\ x.chip.rf = c.rf /\ x.chip.out = Tail(c.out)
<1>1. x = ReadHead(c, "none")
  BY DEF Reads, Faulty, Outcome
<1> DEFINE d == [c EXCEPT !.out = Tail(@)]
<1>2. d.rf = c.rf /\ d.out = Tail(c.out)
  BY DEF Chip
<1>3. x = Outcome(d, Head(c.out), "none")
  BY <1>1 DEF ReadHead
<1> HIDE DEF d
<1> QED
  BY <1>2, <1>3 DEF Outcome

\* What the chip says by itself is a move.
LEMMA NfccMoves ==
  ASSUME chip \in Chip, Nfcc
  PROVE  /\ UNCHANGED <<pc, host, history>> /\ chip.rf \notin {"idle", "active"}
         /\ \E m \in Message : /\ <<chip.rf, m, chip'.rf>> \in Moves
                               /\ chip'.out = chip.out \o <<m>>
                               /\ chip'.rf \in RFStates
<1>1. ASSUME NEW from, NEW to \in RFStates, NEW m \in Message, Notify(from, to, m)
      PROVE  /\ UNCHANGED <<pc, host, history>> /\ chip.rf = from
             /\ chip'.rf = to /\ chip'.out = chip.out \o <<m>>
  <2> DEFINE o == chip.out \o <<m>>
  <2>1. /\ UNCHANGED <<pc, host, history>> /\ chip.rf = from
        /\ chip' = Says([chip EXCEPT !.rf = to], <<m>>)
    BY <1>1 DEF Notify
  <2>2. chip' = [[chip EXCEPT !.rf = to] EXCEPT !.out = o]
    BY <2>1 DEF Says, Chip
  <2> HIDE DEF o
  <2>3. chip'.rf = to /\ chip'.out = o
    BY <2>2 DEF Chip
  <2> QED
    BY <2>1, <2>3 DEF o
<1>2. {Activated("poll"), Activated("listen"), ActivationFailed, Discovered("more"),
       Discovered("last"), Deactivated("discovery"), Deactivated("sleep")} \subseteq Message
  BY DEF Activated, ActivationFailed, Discovered, Deactivated, Ntf, Message
<1>3. \E from, to \in RFStates, m \in Message :
        /\ <<from, m, to>> \in Moves /\ from \notin {"idle", "active"}
        /\ Notify(from, to, m)
  BY <1>2 DEF Nfcc, Unasked, TagActivated, ActivationFails, FirstTag, LastTag, Selected,
     ReaderActivates, ReaderSleeps, ReaderWakes, ReaderLeaves, Moves, RFStates
<1>4. PICK from \in RFStates, to \in RFStates, m \in Message :
        /\ <<from, m, to>> \in Moves /\ from \notin {"idle", "active"}
        /\ Notify(from, to, m)
  BY <1>3
<1>5. /\ UNCHANGED <<pc, host, history>> /\ chip.rf = from
      /\ chip'.rf = to /\ chip'.out = chip.out \o <<m>>
  BY <1>1, <1>4
<1> QED
  BY <1>4, <1>5

LEMMA NextStates ==
  /\ NextState(Activated("poll")) = {"RFST_POLL_ACTIVE"}
  /\ NextState(Activated("listen")) = {"RFST_LISTEN_ACTIVE"}
  /\ NextState(Discovered("more")) = {}
  /\ NextState(Discovered("last")) = {"RFST_W4_HOST_SELECT"}
  /\ NextState(Deactivated("discovery")) = {"RFST_DISCOVERY"}
  /\ NextState(Deactivated("idle")) = {"RFST_IDLE"}
  /\ nci_state = "RFST_LISTEN_ACTIVE" =>
       NextState(Deactivated("sleep")) = {"RFST_LISTEN_SLEEP"}
  /\ NextState(ActivationFailed) =
       IF nci_state = "EP_SELECTING" THEN {"RFST_W4_HOST_SELECT"} ELSE {}
  /\ ActivationFailed \notin {Activated("poll"), Activated("listen"), Discovered("more"),
                              Discovered("last"), Deactivated("discovery"), Deactivated("idle"),
                              Deactivated("sleep")}
BY DEF NextState, AfterSleep, Activated, Discovered, Deactivated, ActivationFailed, Ntf

\* The driver reads the next message, and goes where the chip was after it.
LEMMA MessageInStep ==
  ASSUME TypeOK, StepInv, ~outOfStep', ProcessMessage
  PROVE  InStep'
<1>1. pc = "await" /\ chip \in Chip /\ nci_state \in NCIState
  BY DEF ProcessMessage, TypeOK
<1>2. CASE chip.out = <<>>
  <2>1. pc' = "loop" /\ NoExchange /\ UNCHANGED host
    BY <1>2 DEF ProcessMessage
  <2>2. InStep
    BY <2>1 DEF NoExchange, StepInv
  <2>3. nci_state \in WaitingStates \cup {"RFST_IDLE"}
    BY <1>1, <2>2, Where
  <2> QED
    BY <2>1, <2>2, <2>3, StaysInStep DEF NoExchange
<1>3. CASE chip.out # <<>>
  <2>1. PICK x \in Reads(chip) :
          /\ Exchanged(x)
          /\ pc' = CASE NextState(x.rx) = {"RFST_POLL_ACTIVE"} -> "task"
                     [] x.rx = ActivationFailed /\ nci_state # "EP_SELECTING" -> "give_up"
                     [] OTHER -> "loop"
          /\ \/ \E s \in NextState(x.rx) : SetState(s)
             \/ NextState(x.rx) = {} /\ UNCHANGED host
    BY <1>3 DEF ProcessMessage
  <2>2. ~Met(x)
    BY <1>1 DEF Met
  <2>3. InStep /\ x.fault = "none" /\ chip' = x.chip
    BY <2>1, <2>2, KeepsStep DEF StepInv
  <2>4. x.rx = Head(chip.out) /\ chip'.rf = chip.rf /\ chip'.out = Tail(chip.out)
    BY <1>1, <1>3, <2>3, ReadsNext
  <2>5. nci_state \in WaitingStates
    BY <1>1, <1>3, <2>3, Where DEF InStep, Quiet
  <2>6. Leads(StartOf(nci_state), chip.out, chip.rf) /\ chip.out \in Seq(Message)
    BY <1>1, <2>3, <2>5 DEF InStep, Chip
  <2>7. \E a \in StartOf(nci_state) : \E b \in RFStates :
          <<a, Head(chip.out), b>> \in Moves /\ Leads({b}, Tail(chip.out), chip.rf)
    BY <1>3, <2>6, LeadsHead
  <2>8. PICK a \in StartOf(nci_state), b \in RFStates :
          <<a, x.rx, b>> \in Moves /\ Leads({b}, chip'.out, chip'.rf)
    BY <2>4, <2>7
  <2>9. /\ a \in {"discovery", "w4_all_discoveries"} => nci_state = "RFST_DISCOVERY"
        /\ a = "selecting" => nci_state = "EP_SELECTING"
        /\ a = "listen" => nci_state = "RFST_LISTEN_ACTIVE"
    BY <2>5, StartsAre DEF WaitingStates, EpStates
  <2>10. Tail(chip.out) \in Seq(Message)
    BY <1>3, <2>6
  <2>11. b \in {"active", "idle"} => chip'.out = <<>> /\ chip'.rf = b
    BY <2>4, <2>8, <2>10, LeadsStuck
  <2>12. b \in StartOf(nci_state') => Leads(StartOf(nci_state'), chip'.out, chip'.rf)
    <3> SUFFICES ASSUME b \in StartOf(nci_state')
                 PROVE  Leads(StartOf(nci_state'), chip'.out, chip'.rf)
      OBVIOUS
    <3>1. {b} \subseteq StartOf(nci_state')
      OBVIOUS
    <3> QED
      BY <2>8, <3>1, LeadsMore
  <2>13. CASE x.rx = Activated("poll") /\ b = "active"
    <3>1. nci_state' = "RFST_POLL_ACTIVE" /\ pc' = "task"
      BY <2>1, <2>13, NextStates DEF SetState
    <3> QED
      BY <2>11, <2>13, <3>1, InTask
  <2>14. CASE a = "discovery" /\ x.rx = ActivationFailed /\ b = "discovery"
    <3>1. nci_state' = "RFST_DISCOVERY" /\ pc' = "give_up"
      BY <2>1, <2>9, <2>14, NextStates
    <3>2. b \in StartOf(nci_state') /\ nci_state' \in WaitingStates
      BY <2>14, <3>1, StartsAre DEF WaitingStates
    <3> QED
      BY <2>12, <3>1, <3>2, InWaiting
  <2>15. CASE a = "discovery" /\ x.rx = Discovered("more") /\ b = "w4_all_discoveries"
    <3>1. nci_state' = "RFST_DISCOVERY" /\ pc' = "loop"
      BY <2>1, <2>9, <2>15, NextStates
    <3>2. b \in StartOf(nci_state') /\ nci_state' \in WaitingStates
      BY <2>15, <3>1, StartsAre DEF WaitingStates
    <3> QED
      BY <2>12, <3>1, <3>2, InWaiting
  <2>16. CASE x.rx = Activated("listen") /\ b = "listen"
    <3>1. nci_state' = "RFST_LISTEN_ACTIVE" /\ pc' = "loop"
      BY <2>1, <2>16, NextStates DEF SetState
    <3>2. b \in StartOf(nci_state') /\ nci_state' \in WaitingStates
      BY <2>16, <3>1, StartsAre DEF WaitingStates
    <3> QED
      BY <2>12, <3>1, <3>2, InWaiting
  <2>17. CASE x.rx = Discovered("last") /\ b = "w4_host_select"
    <3>1. nci_state' = "RFST_W4_HOST_SELECT" /\ pc' = "loop"
      BY <2>1, <2>17, NextStates DEF SetState
    <3>2. b \in StartOf(nci_state') /\ nci_state' \in WaitingStates
      BY <2>17, <3>1, StartsAre DEF WaitingStates
    <3> QED
      BY <2>12, <3>1, <3>2, InWaiting
  <2>18. CASE a = "selecting" /\ x.rx = ActivationFailed /\ b = "w4_host_select"
    <3>1. nci_state' = "RFST_W4_HOST_SELECT" /\ pc' = "loop"
      BY <2>1, <2>9, <2>18, NextStates DEF SetState
    <3>2. b \in StartOf(nci_state') /\ nci_state' \in WaitingStates
      BY <2>18, <3>1, StartsAre DEF WaitingStates
    <3> QED
      BY <2>12, <3>1, <3>2, InWaiting
  <2>19. CASE x.rx = Deactivated("discovery") /\ b = "discovery"
    <3>1. nci_state' = "RFST_DISCOVERY" /\ pc' = "loop"
      BY <2>1, <2>19, NextStates DEF SetState
    <3>2. b \in StartOf(nci_state') /\ nci_state' \in WaitingStates
      BY <2>19, <3>1, StartsAre DEF WaitingStates
    <3> QED
      BY <2>12, <3>1, <3>2, InWaiting
  <2>20. CASE x.rx = Deactivated("idle") /\ b = "idle"
    <3>1. nci_state' = "RFST_IDLE" /\ pc' = "loop"
      BY <2>1, <2>20, NextStates DEF SetState
    <3> QED
      BY <2>11, <2>20, <3>1, InIdle
  <2>21. CASE a = "listen" /\ x.rx = Deactivated("sleep") /\ b = "listen_sleep"
    <3>1. nci_state' = "RFST_LISTEN_SLEEP" /\ pc' = "loop"
      BY <2>1, <2>9, <2>21, NextStates DEF SetState
    <3>2. b \in StartOf(nci_state') /\ nci_state' \in WaitingStates
      BY <2>21, <3>1, StartsAre DEF WaitingStates
    <3> QED
      BY <2>12, <3>1, <3>2, InWaiting
  <2> QED
    BY <2>8, <2>13, <2>14, <2>15, <2>16, <2>17, <2>18, <2>19, <2>20, <2>21, MoveIs
<1> QED
  BY <1>2, <1>3

\* The chip moves on, and says so.
LEMMA ChipInStep ==
  ASSUME TypeOK, InStep, Nfcc
  PROVE  InStep'
<1>1. /\ UNCHANGED <<pc, host>> /\ chip.rf \notin {"idle", "active"}
      /\ chip \in Chip /\ nci_state \in NCIState
  BY NfccMoves DEF TypeOK
<1>2. PICK m \in Message : /\ <<chip.rf, m, chip'.rf>> \in Moves
                           /\ chip'.out = chip.out \o <<m>>
                           /\ chip'.rf \in RFStates
  BY <1>1, NfccMoves
<1>3. CASE nci_state \in WaitingStates
  <2>1. Leads(StartOf(nci_state), chip.out, chip.rf) /\ chip.out \in Seq(Message)
    BY <1>1, <1>3 DEF InStep, Chip
  <2>2. Leads(StartOf(nci_state), chip.out \o <<m>>, chip'.rf)
    BY <1>2, <2>1, LeadsOn
  <2>3. Leads(StartOf(nci_state'), chip'.out, chip'.rf)
    BY <1>1, <1>2, <2>2
  <2>4. /\ pc \in {"loop", "await", "refresh_wait", "give_up"}
        /\ pc = "give_up" => nci_state = "RFST_DISCOVERY"
    BY <1>3 DEF InStep
  <2> QED
    BY <1>1, <1>3, <2>3, <2>4, InWaiting
<1>4. CASE nci_state \in {"NFCC_RESET", "FAILED"}
  <2>1. pc \in {"loop", "fsm"}
    BY <1>1, <1>4 DEF InStep
  <2> QED
    BY <1>1, <1>4, <2>1, InReset
<1> QED
  BY <1>1, <1>3, <1>4
  DEF InStep, Quiet, NCIState, Configuring, WaitingStates, EpStates, BootStates

LEMMA StepInvStep ==
  ASSUME TypeOK, StepInv, [Next]_vars
  PROVE  StepInv'
<1> SUFFICES ASSUME ~outOfStep'
             PROVE  InStep'
  BY DEF StepInv
<1>0. chip \in Chip /\ nci_state \in NCIState
  BY DEF TypeOK
<1>a. ASSUME NEW x, Exchanged(x), pc # "start"
      PROVE  /\ InStep /\ x.fault = "none" /\ chip' = x.chip
             /\ pc \notin Receiving => chip.out = <<>>
  BY <1>a, KeepsStep DEF Met, StepInv
<1>b. NoExchange => InStep /\ chip' = chip
  BY DEF NoExchange, StepInv
<1>1. CASE ResetCore
  <2>1. PICK x \in Transceive(PowerCycle(chip), Cmd("RESET")) :
          /\ chip' = x.chip
          /\ outOfStep' = (x.fault # "none")
          /\ IF Accepted(Cmd("RESET"), x.rx)
             THEN pc' = "reset_ntf" /\ UNCHANGED host
             ELSE Fails
    BY <1>1 DEF ResetCore
  <2>2. Accepted(Cmd("RESET"), x.rx) /\ chip'.rf = "idle" /\ chip'.out = <<ResetNtf>>
    BY <1>0, <2>1, ResetExchange
  <2>3. nci_state' = "NFCC_RESET" /\ pc' = "reset_ntf"
    BY <1>1, <2>1, <2>2 DEF ResetCore, Bring
  <2> QED
    BY <2>2, <2>3, InReset
<1>2. CASE ResetNotification
  <2>1. PICK x \in Reads(chip) :
          Exchanged(x) /\ (IF x.rx = ResetNtf THEN Succeeds("NFCC_INIT") ELSE Fails)
    BY <1>2 DEF ResetNotification
  <2>2. pc = "reset_ntf"
    BY <1>2 DEF ResetNotification
  <2>3. InStep /\ x.fault = "none" /\ chip' = x.chip
    BY <1>a, <2>1, <2>2
  <2>4. chip.rf = "idle" /\ chip.out = <<ResetNtf>>
    BY <2>2, <2>3 DEF InStep
  <2>5. x.rx = ResetNtf /\ chip'.rf = "idle" /\ chip'.out = <<>>
    BY <1>0, <2>3, <2>4, ResetRead
  <2>6. nci_state' = "NFCC_INIT" /\ pc' = "fsm"
    BY <2>1, <2>5 DEF Succeeds, SetState
  <2> QED
    BY <2>5, <2>6, InConfiguring DEF Configuring
<1>3. ASSUME NEW state \in Configuring, NEW to \in Configuring \cup {"RFST_IDLE"},
             NEW oid \in {"INIT", "DISCOVER_MAP", "ROUTING"}, Step(state, oid, to)
      PROVE  InStep'
  <2>1. PICK x \in Transceive(chip, Cmd(oid)) :
          Exchanged(x) /\ (IF Accepted(Cmd(oid), x.rx) THEN Succeeds(to) ELSE Fails)
    BY <1>3 DEF Step
  <2>2. nci_state \in Configuring /\ pc # "start"
    BY <1>3 DEF Step, Bring
  <2>3. Cmd(oid) \in Commands /\ Cmd(oid).oid \in ConfigOids
    BY CommandTypes DEF ConfigOids
  <2>4. (pc' = "fsm" /\ nci_state' \in Configuring \cup {"RFST_IDLE"}) \/ Fails
    BY <2>1 DEF Succeeds, SetState
  <2> QED
    BY <2>1, <2>2, <2>3, <2>4, ConfiguringStep
<1>4. CASE InitCore \/ SetDiscoverMap \/ SetListenModeRouting
  BY <1>3, <1>4 DEF InitCore, SetDiscoverMap, SetListenModeRouting, Configuring
<1>5. CASE SendInitConfig
  <2> DEFINE next == InitConfig[sent + 1]
             oid == IF next = "PROPRIETARY" THEN next ELSE "SET_CONFIG"
  <2>1. PICK x \in Transceive(chip, Cmd(oid)) :
          /\ Exchanged(x)
          /\ IF Accepted(Cmd(oid), x.rx) \/ next = "RF"
             THEN sent' = sent + 1 /\ pc' = "fsm" /\ UNCHANGED host
             ELSE sent' = 0 /\ Fails
    BY <1>5 DEF SendInitConfig
  <2>2. nci_state \in Configuring /\ pc # "start"
    BY <1>5 DEF SendInitConfig, Bring, Configuring
  <2>3. oid \in {"PROPRIETARY", "SET_CONFIG"}
    OBVIOUS
  <2> HIDE DEF oid
  <2>4. Cmd(oid) \in Commands /\ Cmd(oid).oid \in ConfigOids
    BY <2>3, CommandTypes DEF ConfigOids
  <2>5. (pc' = "fsm" /\ UNCHANGED host) \/ Fails
    BY <2>1
  <2> QED
    BY <2>1, <2>2, <2>4, <2>5, ConfiguringStep
<1>6. CASE SendInitCoreConfig
  <2> DEFINE cmd == CoreConfig(ShouldBeSolo)
  <2>1. PICK x \in Transceive(chip, cmd) :
          /\ SendCoreConfig(x)
          /\ IF Accepted(cmd, x.rx)
             THEN Succeeds("NFCC_SET_DISCOVER_MAP") /\ config_refresh_pending' = FALSE
             ELSE Fails /\ UNCHANGED config_refresh_pending
    BY <1>6 DEF SendInitCoreConfig
  <2>2. nci_state \in Configuring /\ pc # "start" /\ ShouldBeSolo \in BOOLEAN
    BY <1>6 DEF SendInitCoreConfig, Bring, Configuring, ShouldBeSolo, TypeOK
  <2>3. cmd \in Commands /\ cmd.oid \in ConfigOids
    BY <2>2, CommandTypes DEF ConfigOids
  <2>4. Exchanged(x)
    BY <2>1 DEF SendCoreConfig
  <2>5. (pc' = "fsm" /\ nci_state' \in Configuring \cup {"RFST_IDLE"}) \/ Fails
    BY <2>1 DEF Succeeds, SetState, Configuring
  <2> HIDE DEF cmd
  <2> QED
    BY <2>1, <2>2, <2>3, <2>4, <2>5, ConfiguringStep
<1>7. CASE Idle
  <2>1. /\ nci_state = "RFST_IDLE" /\ nci_state' = "RFST_IDLE"
        /\ pc \in {"loop", "fsm"} /\ pc' \in {"refresh", "start"}
    BY <1>7 DEF Idle, Bring
  <2>2. CASE NoExchange
    BY <1>b, <2>1, <2>2, InIdle DEF InStep, Quiet
  <2>3. CASE \E x : StopDiscovery(x)
    <3>1. PICK x : StopDiscovery(x)
      BY <2>3
    <3>2. chip.rf = "idle"
      BY <1>a, <2>1, <3>1 DEF StopDiscovery, InStep, Quiet
    <3>3. chip'.rf = "idle" /\ chip'.out = <<>>
      BY <2>1, <3>1, <3>2, StopsQuietly DEF Receiving
    <3> QED
      BY <2>1, <3>3, InIdle
  <2> QED
    BY <1>7, <2>2, <2>3 DEF Idle
<1>8. CASE StartDiscovery
  <2>1. PICK x \in Transceive(chip, Cmd("DISCOVER")) :
          /\ Exchanged(x)
          /\ IF Started(x) THEN SetState("RFST_DISCOVERY") ELSE SetErrorState
    BY <1>8 DEF StartDiscovery
  <2>2. pc = "start" /\ pc' = "loop"
    BY <1>8 DEF StartDiscovery
  <2>3. Met(x)
    <3> SUFFICES ASSUME ~Met(x)
                 PROVE  FALSE
      OBVIOUS
    <3>1. InStep /\ x.fault = "none"
      BY <2>1, KeepsStep DEF StepInv
    <3>2. Quiet
      BY <1>0, <2>2, <3>1, Where DEF InStep
    <3> QED
      BY <1>0, <2>1, <2>2, <3>1, <3>2, AnswersDiscover DEF Quiet, Met
  <2>4. /\ nci_state' = "RFST_DISCOVERY"
        /\ chip'.rf = "discovery" /\ chip'.out = <<>>
    BY <2>1, <2>3 DEF Met, SetState, Exchanged
  <2>5. Leads(StartOf("RFST_DISCOVERY"), <<>>, "discovery")
    BY LeadsNowhere, StartsAre, StartsIn
  <2>6. Leads(StartOf(nci_state'), chip'.out, chip'.rf)
    BY <2>4, <2>5
  <2> QED
    BY <2>2, <2>4, <2>6, InWaiting DEF WaitingStates
<1>9. CASE RefreshStop
  <2>1. PICK x : /\ StopDiscovery(x)
                 /\ IF Stopped(x) THEN SetState("RFST_IDLE") /\ UNCHANGED pc
                                  ELSE SetState("NFCC_RESET") /\ pc' = AfterRefresh
    BY <1>9 DEF RefreshStop
  <2>2. pc = "refresh_wait" /\ nci_state = "RFST_DISCOVERY"
    BY <1>9 DEF RefreshStop
  <2>3. InStep /\ chip.out = <<>>
    BY <1>a, <2>1, <2>2 DEF StopDiscovery, Receiving
  <2>4. chip.rf \in {"discovery", "w4_all_discoveries"}
    BY <2>2, <2>3, KnowsChip, StartsAre DEF WaitingStates
  <2>5. chip'.rf = "idle" /\ chip'.out = <<>> /\ Stopped(x)
    BY <2>1, <2>2, <2>4, StopsQuietly DEF Receiving
  <2>6. nci_state' = "RFST_IDLE" /\ pc' = "refresh_wait"
    BY <2>1, <2>2, <2>5 DEF SetState
  <2> QED
    BY <2>5, <2>6, InIdle
<1>10. CASE Refresh
  <2>1. pc \in {"refresh", "refresh_wait"} /\ pc' = AfterRefresh /\ UNCHANGED host
    BY <1>10 DEF Refresh
  <2>2. InStep /\ chip'.rf = chip.rf /\ chip'.out = chip.out
    <3>1. CASE NoExchange
      BY <1>b, <3>1
    <3>2. CASE \E x : SendCoreConfig(x)
      <4>1. PICK x : SendCoreConfig(x)
        BY <3>2
      <4>2. x \in Transceive(chip, CoreConfig(ShouldBeSolo)) /\ Exchanged(x)
        BY <4>1 DEF SendCoreConfig
      <4>3. InStep /\ x.fault = "none" /\ chip' = x.chip /\ chip.out = <<>>
        BY <1>a, <2>1, <4>2 DEF Receiving
      <4>4. ShouldBeSolo \in BOOLEAN
        BY DEF ShouldBeSolo, TypeOK
      <4>5. /\ CoreConfig(ShouldBeSolo) \in Commands
            /\ CoreConfig(ShouldBeSolo).oid \in ConfigOids
        BY <4>4, CommandTypes DEF ConfigOids
      <4> QED
        BY <1>0, <4>2, <4>3, <4>5, AnswersConfig
    <3> QED
      BY <1>10, <3>1, <3>2 DEF Refresh
  <2>3. CASE pc = "refresh"
    <3>1. nci_state = "RFST_IDLE"
      BY <1>0, <2>2, <2>3, Where
    <3>2. Quiet
      BY <2>2, <3>1 DEF InStep
    <3> QED
      BY <2>1, <2>2, <2>3, <3>1, <3>2, InIdle DEF AfterRefresh, Quiet
  <2>4. CASE pc = "refresh_wait"
    <3>1. nci_state \in WaitingStates \cup {"RFST_IDLE"}
      BY <1>0, <2>2, <2>4, Where
    <3> QED
      BY <2>1, <2>2, <2>4, <3>1, StaysInStep DEF AfterRefresh
  <2> QED
    BY <2>1, <2>3, <2>4
<1>11. CASE SelectEndpoint
  <2>1. PICK x \in Transceive(chip, Cmd("SELECT")) :
          /\ Exchanged(x)
          /\ IF Accepted(Cmd("SELECT"), x.rx) THEN SetState("EP_SELECTING")
                                             ELSE UNCHANGED host
    BY <1>11 DEF SelectEndpoint
  <2>2. /\ pc \in {"loop", "fsm"} /\ nci_state = "RFST_W4_HOST_SELECT"
        /\ pc' \in {"await", "refresh_wait"}
    BY <1>11 DEF SelectEndpoint, Bring, WaitOrRefresh
  <2>3. InStep /\ x.fault = "none" /\ chip' = x.chip /\ chip.out = <<>>
    BY <1>a, <2>1, <2>2 DEF Receiving
  <2>4. chip.rf = "w4_host_select"
    BY <2>2, <2>3, KnowsChip, StartsAre DEF WaitingStates
  <2>5. chip'.rf = "selecting" /\ chip'.out = <<>> /\ Accepted(Cmd("SELECT"), x.rx)
    BY <1>0, <2>3, <2>4, AnswersSelect
  <2>6. nci_state' = "EP_SELECTING"
    BY <2>1, <2>5 DEF SetState
  <2>7. Leads(StartOf("EP_SELECTING"), <<>>, "selecting")
    BY LeadsNowhere, StartsAre, StartsIn
  <2>8. Leads(StartOf(nci_state'), chip'.out, chip'.rf)
    BY <2>5, <2>6, <2>7
  <2> QED
    BY <2>2, <2>6, <2>8, InWaiting DEF WaitingStates, EpStates
<1>12. CASE NothingToSelect
  <2>1. PICK x : StopDiscovery(x)
    BY <1>12 DEF NothingToSelect
  <2>2. /\ pc \in {"loop", "fsm"} /\ nci_state = "RFST_W4_HOST_SELECT"
        /\ pc' \in {"await", "refresh_wait"} /\ nci_state' = "RFST_IDLE"
    BY <1>12 DEF NothingToSelect, Bring, WaitOrRefresh, SetState
  <2>3. InStep /\ chip.out = <<>>
    BY <1>a, <2>1, <2>2 DEF StopDiscovery, Receiving
  <2>4. chip.rf = "w4_host_select"
    BY <2>2, <2>3, KnowsChip, StartsAre DEF WaitingStates
  <2>5. chip'.rf = "idle" /\ chip'.out = <<>>
    BY <2>1, <2>2, <2>4, StopsQuietly DEF Receiving
  <2> QED
    BY <2>2, <2>5, InIdle
<1>13. CASE Wait
  <2>1. /\ NoExchange /\ UNCHANGED host
        /\ nci_state \in WaitingStates /\ pc' \in {"await", "refresh_wait"}
    BY <1>13 DEF Wait, WaitOrRefresh, WaitingStates, EpStates
  <2> QED
    BY <1>b, <2>1, StaysInStep
<1>14. CASE ProcessMessage
  BY <1>14, MessageInStep
<1>15. CASE StopAfterFailedActivation
  <2>1. PICK x : StopDiscovery(x)
    BY <1>15 DEF StopAfterFailedActivation
  <2>2. pc = "give_up" /\ pc' = "loop" /\ nci_state' = "RFST_IDLE"
    BY <1>15 DEF StopAfterFailedActivation, SetState
  <2>3. InStep /\ chip.out = <<>>
    BY <1>a, <2>1, <2>2 DEF StopDiscovery, Receiving
  <2>4. nci_state = "RFST_DISCOVERY"
    BY <1>0, <2>2, <2>3, Where
  <2>5. chip.rf \in {"discovery", "w4_all_discoveries"}
    BY <2>3, <2>4, KnowsChip, StartsAre DEF WaitingStates
  <2>6. chip'.rf = "idle" /\ chip'.out = <<>>
    BY <2>1, <2>2, <2>5, StopsQuietly DEF Receiving
  <2> QED
    BY <2>2, <2>6, InIdle
<1>16. CASE TagExchange
  <2>1. PICK x \in Transceive(chip, Cmd("DATA")) :
          Exchanged(x) /\ pc' = IF x.rx = Credits THEN "task_data" ELSE "deactivate"
    BY <1>16 DEF TagExchange
  <2>2. pc = "task" /\ UNCHANGED host
    BY <1>16 DEF TagExchange
  <2>3. InStep /\ x.fault = "none" /\ chip' = x.chip /\ chip.out = <<>>
    BY <1>a, <2>1, <2>2 DEF Receiving
  <2>4. nci_state = "RFST_POLL_ACTIVE"
    BY <1>0, <2>2, <2>3, Where
  <2>5. chip.rf = "active"
    BY <2>3, <2>4 DEF InStep
  <2>6. chip'.rf = "active" /\ chip'.out = <<TagData>> /\ x.rx = Credits
    BY <1>0, <2>3, <2>5, AnswersData
  <2> QED
    BY <2>1, <2>2, <2>4, <2>6, InTask
<1>17. CASE TagAnswer
  <2>1. PICK x \in Reads(chip) : Exchanged(x)
    BY <1>17 DEF TagAnswer
  <2>2. pc = "task_data" /\ pc' = "deactivate" /\ UNCHANGED host
    BY <1>17 DEF TagAnswer
  <2>3. InStep /\ x.fault = "none" /\ chip' = x.chip
    BY <1>a, <2>1, <2>2
  <2>4. nci_state = "RFST_POLL_ACTIVE"
    BY <1>0, <2>2, <2>3, Where
  <2>5. chip.rf = "active" /\ chip.out = <<TagData>>
    BY <2>2, <2>3, <2>4 DEF InStep
  <2>6. TagData \in Message
    BY DEF TagData, Message
  <2>7. chip.out # <<>> /\ Tail(chip.out) = <<>>
    BY <2>5, <2>6, Short
  <2>8. chip'.rf = "active" /\ chip'.out = <<>>
    BY <1>0, <2>3, <2>5, <2>7, ReadsNext
  <2> QED
    BY <2>2, <2>4, <2>8, InTask
<1>18. CASE Deactivate
  <2>1. PICK x : /\ StopDiscovery(x)
                 /\ SetState(IF Stopped(x) THEN "EP_DEACTIVATING" ELSE "NFCC_RESET")
    BY <1>18 DEF Deactivate
  <2>2. pc \in {"task", "deactivate"} /\ pc' = "loop"
    BY <1>18 DEF Deactivate
  <2>3. x \in Transceive(chip, Cmd("DEACTIVATE")) /\ Exchanged(x)
    BY <2>1 DEF StopDiscovery
  <2>4. InStep /\ x.fault = "none" /\ chip' = x.chip /\ chip.out = <<>>
    BY <1>a, <2>2, <2>3 DEF Receiving
  <2>5. nci_state = "RFST_POLL_ACTIVE"
    BY <1>0, <2>2, <2>4, Where
  <2>6. chip.rf = "active"
    BY <2>4, <2>5 DEF InStep
  <2>7. chip'.rf = "idle" /\ chip'.out = <<Deactivated("idle")>> /\ Stopped(x)
    BY <1>0, <2>3, <2>4, <2>6, AnswersDeactivate
  <2>8. nci_state' = "EP_DEACTIVATING"
    BY <2>1, <2>7 DEF SetState
  <2>9. Leads({"deactivating"}, <<Deactivated("idle")>>, "idle")
    <3> DEFINE m == Deactivated("idle")
    <3>1. m \in Message /\ <<"deactivating", m, "idle">> \in Moves
      BY DEF Deactivated, Ntf, Message, Moves
    <3> HIDE DEF m
    <3>2. Leads({"deactivating"}, <<>>, "deactivating") /\ "idle" \in RFStates
      BY LeadsNowhere DEF RFStates
    <3>3. <<>> \in Seq(Message) /\ <<>> \o <<m>> = <<m>>
      BY <3>1, Short
    <3>4. Leads({"deactivating"}, <<>> \o <<m>>, "idle")
      BY <3>1, <3>2, <3>3, LeadsOn
    <3> QED
      BY <3>3, <3>4 DEF m
  <2>10. Leads(StartOf(nci_state'), chip'.out, chip'.rf)
    BY <2>7, <2>8, <2>9, StartsAre
  <2> QED
    BY <2>2, <2>8, <2>10, InWaiting DEF WaitingStates, EpStates
<1>19. CASE FastRecovery
  <2>1. nci_state' = "NFCC_RESET" /\ pc' = "loop"
    BY <1>19 DEF FastRecovery, SetState
  <2> QED
    BY <2>1, InReset
<1>20. CASE SetTagEmulation \/ UNCHANGED vars
  <2>1. UNCHANGED <<pc, nci_state, chip, outOfStep>>
    BY <1>20 DEF SetTagEmulation, NoExchange, vars
  <2>2. InStep
    BY <2>1 DEF StepInv
  <2> QED
    BY <2>1, <2>2 DEF InStep, Quiet
<1>21. CASE Nfcc
  <2>1. InStep
    BY <1>0, <1>21, NfccMoves DEF StepInv
  <2> QED
    BY <1>21, <2>1, ChipInStep
<1> QED
  BY <1>1, <1>2, <1>4, <1>5, <1>6, <1>7, <1>8, <1>9, <1>10, <1>11, <1>12, <1>13,
     <1>14, <1>15, <1>16, <1>17, <1>18, <1>19, <1>20, <1>21
  DEF Next, Driver, BringUp

\* Whatever the chip does by itself, and however long its queue, driver and chip
\* never wait for each other in RFST_DISCOVERY, RFST_LISTEN_ACTIVE,
\* RFST_LISTEN_SLEEP or a state with a timeout, unless a fault or a command sent
\* to a chip that had something to say put them out of step.
THEOREM NoMutualWaitCorrect == Spec => []NoMutualWait
<1>1. Init => StepInv
  BY DEF Init, StepInv, InStep, Configuring, WaitingStates, EpStates
<1>2. TypeOK /\ StepInv /\ [Next]_vars => StepInv'
  BY StepInvStep
<1>3. TypeOK /\ StepInv => NoMutualWait
  <2> SUFFICES ASSUME TypeOK, StepInv, Waiting, ~outOfStep, nci_state \in WaitingStates
               PROVE  chip.rf \in Counterparts(nci_state)
    BY DEF NoMutualWait
  <2>1. chip.rf \in StartOf(nci_state)
    BY KnowsChip DEF StepInv, Waiting
  <2>2. chip.rf # "deactivating"
    BY DEF TypeOK, Chip
  <2> QED
    BY <2>1, <2>2 DEF StartOf
<1> QED
  BY <1>1, <1>2, <1>3, TypeCorrect, PTL DEF Spec
=============================================================================
