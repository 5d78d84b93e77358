--------------------------------- MODULE UsbBus ---------------------------------
(***************************************************************************)
(* The USB bus as usb_init finds it: addresses given to the devices behind *)
(* a hub, one port after the other; endpoints found in a configuration;    *)
(* drivers bound; and the commands of RNDIS with their answers.  Control   *)
(* transfers may fail before the device has seen them or after.            *)
(***************************************************************************)
EXTENDS Integers, Sequences, FiniteSets, FiniteSetsExt

CONSTANTS
    Ports,      \* how many ports the hub has
    max_devs,   \* USB_MAX_DEVS
    Configs,    \* configurations: sequences of interface and endpoint descriptors
    Commands,   \* RNDIS messages sent to the device, in order
    Tries,      \* answers rndis_wait_for_msg asks for
    MaxFaults   \* transfers disturbed: bounds the model

HubPorts == 1 .. Ports

\* A descriptor of a configuration.
Descriptors ==
    [type : {"if"}, class : STRING]
    \cup [type : {"ep"}, in : BOOLEAN, kind : {"intr", "bulk"}, num : 0 .. 15]

ASSUME UsbAssumption ==
    /\ Ports \in Nat /\ max_devs \in Nat /\ Tries \in Nat /\ MaxFaults \in Nat
    /\ Configs \subseteq Seq(Descriptors)
    /\ Commands \in Seq(STRING)

VARIABLES
    part,   \* "bus" or "rndis": the two share nothing
    config, \* configuration of the device at each port; <<>> when there is none
    addr,   \* address it answers to: 0 when reset, Off when not powered
    pc, port, next_addr,
    devs,   \* what usb_host_enumerate returns: [addr, port of the descriptors read]
    kbd, usbnet,  \* address bound by each driver, or Off
    stray,  \* history: a device was left at address 0
    sent,   \* RNDIS commands sent, by request id
    answers,\* the device's answers, not yet fetched: [id, status]
    tries,
    result, \* what each command came to
    status, \* history: what the device answered to each
    faults

bus   == <<config, addr, pc, port, next_addr, devs, kbd, usbnet, stray>>
rndis == <<sent, answers, tries, result, status>>
usbVars == <<part, bus, rndis, faults>>

Off == -1

UsbInit ==
    /\ part \in {"bus", "rndis"}
    /\ config \in IF part = "bus" THEN [HubPorts -> Configs \cup {<<>>}] ELSE {[p \in HubPorts |-> <<>>]}
    /\ addr = [p \in HubPorts |-> Off]
    /\ pc = IF part = "bus" THEN "root" ELSE "send"
    /\ port = 1 /\ next_addr = 1 /\ devs = <<>> /\ kbd = Off /\ usbnet = Off /\ stray = FALSE
    /\ sent = 0 /\ answers = <<>> /\ tries = 0 /\ result = <<>> /\ status = <<>>
    /\ faults = 0

\* How a control transfer comes out: it fails unseen, is carried out, or is
\* carried out and fails all the same.
Outcomes == {"unseen", "ok", "unheard"}
Disturbed(o) == /\ o # "ok" => faults < MaxFaults
                /\ faults' = IF o = "ok" THEN faults ELSE faults + 1

-----------------------------------------------------------------------------
(* usb_host_enumerate: the hub gets address 1, its ports' devices the next. *)

Root ==
    /\ pc = "root"
    /\ \E o \in {"ok", "unseen"} : /\ Disturbed(o)
                                   /\ pc' = IF o = "ok" THEN "port" ELSE "bind"
    /\ next_addr' = 2
    /\ UNCHANGED <<part, config, addr, port, devs, kbd, usbnet, stray, rndis>>

NextPort == port' = port + 1 /\ pc' = "port"

Scanned == port \notin HubPorts \/ Len(devs) >= max_devs

\* Status, power and reset of a port; a device that is reset is at address 0.
ResetPort ==
    /\ pc = "port" /\ ~Scanned
    /\ \E o \in Outcomes :
         /\ Disturbed(o)
         /\ LET reset == config[port] # <<>> /\ o # "unseen"
            IN /\ addr' = IF reset THEN [addr EXCEPT ![port] = 0] ELSE addr
               /\ stray' = (stray \/ (reset /\ o = "unheard"))
               /\ IF reset /\ o = "ok" THEN pc' = "address" /\ UNCHANGED port ELSE NextPort
    /\ UNCHANGED <<part, config, next_addr, devs, kbd, usbnet, rndis>>

EndScan ==
    /\ pc = "port" /\ Scanned
    /\ pc' = "bind"
    /\ UNCHANGED <<part, config, addr, port, next_addr, devs, kbd, usbnet, stray, rndis, faults>>

\* Mutation: an address a device may have got is given once more.
NextAddrAfterFailure_Kept == next_addr

NextAddrAfterFailure == next_addr + 1

FailDevice == next_addr' = NextAddrAfterFailure /\ NextPort /\ UNCHANGED devs

\* SET_ADDRESS goes to all that are at address 0.
usb_set_address ==
    /\ pc = "address"
    /\ \E o \in Outcomes :
         /\ Disturbed(o)
         /\ addr' = [p \in HubPorts |-> IF addr[p] = 0 /\ o # "unseen" THEN next_addr ELSE addr[p]]
         /\ stray' = (stray \/ o = "unseen")
         /\ IF o = "ok" THEN pc' = "descriptors" /\ UNCHANGED <<port, next_addr, devs>> ELSE FailDevice
    /\ UNCHANGED <<part, config, kbd, usbnet, rndis>>

Answering == {p \in HubPorts : addr[p] = next_addr}

\* The descriptors of whichever device answers, and SET_CONFIGURATION.
Describe ==
    /\ pc = "descriptors"
    /\ \E o \in Outcomes, p \in Answering :
         /\ Disturbed(o)
         /\ IF o = "ok" THEN /\ devs' = Append(devs, [addr |-> next_addr, port |-> p])
                             /\ next_addr' = next_addr + 1 /\ NextPort
                        ELSE FailDevice
    /\ UNCHANGED <<part, config, addr, kbd, usbnet, stray, rndis>>

-----------------------------------------------------------------------------
(* A descriptor is [type |-> "if", class] or [type |-> "ep", in, kind, num]. *)

\* usb_host_find_hid_kbd_intr_in: an interrupt IN endpoint of a HID interface.
InterfaceOf(c, i) == Max({0} \cup {j \in 1 .. i : c[j].type = "if"})
HidEndpoints(c) == {i \in DOMAIN c : /\ c[i].type = "ep" /\ c[i].in /\ c[i].kind = "intr"
                                     /\ InterfaceOf(c, i) # 0 /\ c[InterfaceOf(c, i)].class = "hid"}

NoPair == [in |-> 0, out |-> 0]

\* Mutation: an interface does not start afresh.
AtInterface_Kept(pair) == pair

AtInterface(pair) == NoPair

Found(pair) == pair.in # 0 /\ pair.out # 0

\* A step of the walk, at descriptor d: an interface wanted starts afresh, and
\* of its endpoints the first of each direction is kept.  cdc tells the CDC
\* parser, which wants data interfaces only, from the heuristic, which wants
\* any.
Wanted(d, cdc) == ~cdc \/ d.class = "data"

Walked(b, d, cdc) ==
    IF Found(b.pair) THEN b
    ELSE IF d.type = "if"
    THEN [on |-> Wanted(d, cdc),
          pair |-> IF Wanted(d, cdc) THEN AtInterface(b.pair) ELSE b.pair]
    ELSE IF ~b.on \/ d.kind # "bulk" THEN b
    ELSE IF d.in /\ b.pair.in = 0 THEN [b EXCEPT !.pair.in = d.num]
    ELSE IF ~d.in /\ b.pair.out = 0 THEN [b EXCEPT !.pair.out = d.num]
    ELSE b

\* The walk that both make, until there are both.
Walk(c, cdc) ==
    LET w[i \in 0 .. Len(c)] == IF i = 0 THEN [pair |-> NoPair, on |-> FALSE]
                                ELSE Walked(w[i - 1], c[i], cdc)
    IN w

BulkPair(c, cdc) == LET pair == Walk(c, cdc)[Len(c)].pair
                    IN IF Found(pair) THEN pair ELSE NoPair

\* usb_net_try_bind's endpoints.
NetPair(c) == IF BulkPair(c, TRUE) # NoPair THEN BulkPair(c, TRUE) ELSE BulkPair(c, FALSE)

\* usb_init offers each device to the keyboard driver, then to the network's;
\* each takes one.
Bind ==
    /\ pc = "bind"
    /\ LET Keyboard(d) == HidEndpoints(config[d.port]) # {}
           First(S) == IF S = {} THEN Off ELSE devs[Min(S)].addr
           K == {i \in DOMAIN devs : Keyboard(devs[i])}
           N == {i \in DOMAIN devs : /\ NetPair(config[devs[i].port]) # NoPair
                                     /\ K = {} \/ i # Min(K)}
       IN kbd' = First(K) /\ usbnet' = First(N)
    /\ pc' = "done"
    /\ UNCHANGED <<part, config, addr, port, next_addr, devs, stray, rndis, faults>>

-----------------------------------------------------------------------------
(* RNDIS commands: send, then fetch answers until one is of the right type. *)

Type(id) == Commands[id]

SendCommand ==
    /\ pc = "send" /\ sent < Len(Commands)
    /\ sent' = sent + 1 /\ tries' = 0
    /\ \E o \in Outcomes, s \in {"success", "failure"} :
         /\ Disturbed(o)
         /\ status' = Append(status, IF o = "unseen" THEN "none" ELSE s)
         /\ answers' = IF o = "unseen" THEN answers ELSE Append(answers, [id |-> sent + 1, status |-> s])
         /\ IF o = "ok" THEN pc' = "wait" /\ UNCHANGED result
            ELSE result' = Append(result, "failed") /\ UNCHANGED pc
    /\ UNCHANGED <<part, config, addr, port, next_addr, devs, kbd, usbnet, stray>>

\* Mutation: the answer of an earlier request is as good.
Answers_Type(a) == a.status = "success"

Answers(a) == a.id = sent /\ a.status = "success"

\* rndis_wait_for_msg: an answer of another type is dropped, and one whose
\* transfer fails after the device gave it is lost; the device may not have one
\* yet, or the transfer fail before.
FetchAnswer ==
    /\ pc = "wait" /\ tries < Tries
    /\ \E o \in Outcomes :
         /\ Disturbed(o)
         /\ o # "unseen" => answers # <<>>
         /\ answers' = IF o = "unseen" THEN answers ELSE Tail(answers)
         /\ IF o = "ok" /\ Type(Head(answers).id) = Type(sent)
            THEN /\ result' = Append(result, IF Answers(Head(answers)) THEN "done" ELSE "failed")
                 /\ pc' = "send" /\ UNCHANGED tries
            ELSE tries' = tries + 1 /\ UNCHANGED <<result, pc>>
    /\ UNCHANGED <<part, config, addr, port, next_addr, devs, kbd, usbnet, stray, sent, status>>

GiveUp ==
    /\ pc = "wait" /\ tries = Tries
    /\ result' = Append(result, "failed") /\ pc' = "send"
    /\ UNCHANGED <<part, config, addr, port, next_addr, devs, kbd, usbnet, stray, sent, answers,
                   tries, status, faults>>

UsbNext == \/ Root \/ ResetPort \/ EndScan \/ usb_set_address \/ Describe \/ Bind
           \/ SendCommand \/ FetchAnswer \/ GiveUp
UsbSpec == UsbInit /\ [][UsbNext]_usbVars

-----------------------------------------------------------------------------
(* Properties.                                                             *)

\* Whatever transfers fail on the way, as long as no device was left at the
\* default address, no two devices answer to one address, what is known of a
\* device is its own, and no device has two drivers; a device that was left
\* there would take the next one's address with it.
DevicesApart ==
    ~stray => /\ \A p, q \in HubPorts : addr[p] = addr[q] /\ p # q => addr[p] \in {Off, 0}
              /\ \A i \in DOMAIN devs : addr[devs[i].port] = devs[i].addr
              /\ kbd = usbnet => kbd = Off

\* The endpoints the network driver takes are a pair: IN and OUT of the same
\* interface, of a data interface if one has such a pair.
BulkEnds(c, j, in) ==
    {c[k].num : k \in {k \in DOMAIN c : /\ c[k].type = "ep" /\ c[k].in = in /\ c[k].kind = "bulk"
                                        /\ InterfaceOf(c, k) = j}} \ {0}
Pairs(c) == {j \in DOMAIN c : /\ c[j].type = "if"
                              /\ BulkEnds(c, j, TRUE) # {} /\ BulkEnds(c, j, FALSE) # {}}
DataPairs(c) == {j \in Pairs(c) : c[j].class = "data"}

PairOfOneInterface ==
    \A i \in DOMAIN devs : pc = "done" /\ devs[i].addr = usbnet =>
      LET c == config[devs[i].port] IN
      \E j \in (IF DataPairs(c) = {} THEN Pairs(c) ELSE DataPairs(c)) :
        NetPair(c).in \in BulkEnds(c, j, TRUE) /\ NetPair(c).out \in BulkEnds(c, j, FALSE)

\* A command that is reported done was carried out, however late or lost the
\* answers to the commands before it were.
DoneMeansDone == \A i \in DOMAIN result : result[i] = "done" => status[i] = "success"

\* The bus is enumerated, its drivers bound and its network device set up as
\* it should be (usb_host.c, usb_net.c).
UsbBusRight == DevicesApart /\ PairOfOneInterface /\ DoneMeansDone
=============================================================================
