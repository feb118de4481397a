--------------------------- MODULE ClusterProofs ---------------------------
(***************************************************************************)
(* What the proxy's connections and the controllers keep with a cluster    *)
(* that changes under them: the connection manager for any servers, URLs,  *)
(* retries and bounds; the controllers and commands, which share no state  *)
(* with it, for any kinds, disturbances and creations.                     *)
(***************************************************************************)
EXTENDS MCConnectionManager, ComposeCommands, SequenceTheorems, TLAPS

-----------------------------------------------------------------------------
(* Connections and initialisers as records *)

\* The first entry of every connection and every initialiser is well formed.
LEMMA Constants ==
    /\ 0 \in Errors /\ 0 \in Failures /\ 1 \in Inits
    /\ None \in Url /\ Urls \subseteq Url /\ Protocols \subseteq Protocol
    /\ \A e \in Errors : Saturate(e, MaxRetries + 1) \in Errors
    /\ \A f \in Failures : Saturate(f, MaxConsecutiveFailures) \in Failures
  BY ConnectionAssumption DEF Errors, Failures, Inits, Url, Protocol, Saturate

\* A connection made for a discovered Service.
LEMMA NewIsConnection ==
    ASSUME NEW o \in Object
    PROVE  NewConnection(o) \in Connection /\ NewConnection(o) # None
  <1>1. NewConnection(o) \in Connection
    BY Constants DEF Object, NewConnection, Connection, Status
  <1> QED
    BY <1>1, ConnectionAssumption

\* A connection stays one whatever single steps of its goroutines write.
LEMMA EditIsConnection ==
    ASSUME NEW c \in Connection
    PROVE  /\ c # None
           /\ closeConnection(c) \in Connection
           /\ \A o \in Object :
                [c EXCEPT !.endpoint = o.url, !.protocol = o.protocol]
                    \in Connection
           /\ \A u \in Urls : [c EXCEPT !.http = u] \in Connection
           /\ \A u \in Urls : [c EXCEPT !.sse = u] \in Connection
           /\ \A st \in Status, e \in Errors :
                [c EXCEPT !.status = st, !.errors = e] \in Connection
           /\ \A st \in Status, e \in Errors, f \in Failures :
                [c EXCEPT !.status = st, !.errors = e, !.failures = f]
                    \in Connection
           /\ \A b \in BOOLEAN : [c EXCEPT !.recent = b] \in Connection
           /\ \A ok \in BOOLEAN : ApplyHealth(c, ok) \in Connection
           /\ \A ok \in BOOLEAN : ApplyPing(c, ok) \in Connection
  <1>1. c # None
    BY ConnectionAssumption
  <1>2. closeConnection(c) \in Connection
    BY Constants DEF closeConnection, Connection, Status
  <1>3. ASSUME NEW o \in Object
        PROVE  [c EXCEPT !.endpoint = o.url, !.protocol = o.protocol]
                  \in Connection
    BY DEF Object, Connection
  <1>4. ASSUME NEW u \in Urls
        PROVE  /\ [c EXCEPT !.http = u] \in Connection
               /\ [c EXCEPT !.sse = u] \in Connection
    BY Constants DEF Connection
  <1>5. ASSUME NEW st \in Status, NEW e \in Errors, NEW f \in Failures
        PROVE  /\ [c EXCEPT !.status = st, !.errors = e] \in Connection
               /\ [c EXCEPT !.status = st, !.errors = e, !.failures = f]
                    \in Connection
    BY DEF Connection
  <1>6. ASSUME NEW b \in BOOLEAN
        PROVE  [c EXCEPT !.recent = b] \in Connection
    BY DEF Connection
  <1>7. ASSUME NEW ok \in BOOLEAN
        PROVE  ApplyHealth(c, ok) \in Connection
    <2>1. c.errors \in Errors /\ c.failures \in Failures /\ c.status \in Status
      BY DEF Connection
    <2>2. /\ Saturate(c.errors, MaxRetries + 1) \in Errors
          /\ Saturate(c.failures, MaxConsecutiveFailures) \in Failures
      BY <2>1, Constants
    <2> QED
      BY <2>1, <2>2, Constants DEF ApplyHealth, Connection, Status
  <1>8. ASSUME NEW ok \in BOOLEAN
        PROVE  ApplyPing(c, ok) \in Connection
    <2>1. c.failures \in Failures
      BY DEF Connection
    <2>2. Saturate(c.failures, MaxConsecutiveFailures) \in Failures
      BY <2>1, Constants
    <2> QED
      BY <2>1, <2>2, Constants DEF ApplyPing, Connection
  <1> QED
    BY <1>1, <1>2, <1>3, <1>4, <1>5, <1>6, <1>7, <1>8, Constants

\* A check of a connection changes neither of its transports.
LEMMA ChecksKeepTransport ==
    ASSUME NEW c \in Connection, NEW ok \in BOOLEAN
    PROVE  /\ ApplyHealth(c, ok).http = c.http /\ ApplyHealth(c, ok).sse = c.sse
           /\ ApplyPing(c, ok).http = c.http /\ ApplyPing(c, ok).sse = c.sse
  BY DEF Connection, ApplyHealth, ApplyPing

\* Initialisers of a connection nobody works on.
LEMMA IdleInits ==
    /\ Idle \in Setup /\ Idle.pc = "idle" /\ NoInits \in [Inits -> Setup]
    /\ \A i \in Inits : NoInits[i] = Idle
    /\ [Idle EXCEPT !.pc = "read"] \in Setup
    /\ [Idle EXCEPT !.pc = "retry"] \in Setup
    /\ [Idle EXCEPT !.pc = "read"].pc = "read"
    /\ [Idle EXCEPT !.pc = "retry"].pc = "retry"
  BY Constants DEF Idle, Setup, NoInits, Pc, Protocol

\* go initializeConnection: a free initialiser starts to read, the others are
\* left alone.
LEMMA Initialiser ==
    ASSUME NEW inits \in [Inits -> Setup],
           \E i \in Inits : inits[i].pc = "idle"
    PROVE  /\ WithInitializer(inits) \in [Inits -> Setup]
           /\ \E i \in Inits : WithInitializer(inits)[i].pc = "read"
           /\ \A i \in Inits : \/ WithInitializer(inits)[i] = inits[i]
                               \/ WithInitializer(inits)[i].pc = "read"
  <1> DEFINE free == CHOOSE i \in Inits : inits[i].pc = "idle"
             reader == [Idle EXCEPT !.pc = "read"]
  <1>1. free \in Inits
    OBVIOUS
  <1>2. reader \in Setup /\ reader.pc = "read"
    BY IdleInits
  <1>3. WithInitializer(inits) = [inits EXCEPT ![free] = reader]
    BY DEF WithInitializer
  <1> HIDE DEF free, reader
  <1> QED
    BY <1>1, <1>2, <1>3

\* What a check of a connection sends to.
LEMMA ProbeIsCheck ==
    ASSUME NEW c \in Connection, NEW probing \in {"health", "ping"}
    PROVE  Probe(probing, c) \in Check /\ NoProbe \in Check
  <1>1. c.http \in Url /\ c.sse \in Url
    BY DEF Connection
  <1>2. Target(c) \in Urls \cup {None, "no", "any"}
    BY <1>1 DEF Target, Url
  <1> QED
    BY <1>2 DEF Probe, Check, NoProbe

-----------------------------------------------------------------------------
(* The invariant is about each server on its own *)

\* The conjuncts about goroutines.
WorkPart ==
    /\ conn \in [Servers -> Connection \cup {None}]
    /\ setup \in [Servers -> [Inits -> Setup]]
    /\ probe \in [Servers -> Check] /\ recover \subseteq Servers
    /\ WorkersInv /\ ("other" \notin Protocols => TransportInv)

\* A connection c with its initialisers w and its check p.
Sound(c, w, p) ==
    /\ c \in Connection \cup {None} /\ w \in [Inits -> Setup] /\ p \in Check
    /\ c = None => w = NoInits /\ p = NoProbe
    /\ \A i \in Inits :
          w[i].pc = "write" => w[i].url \in Urls /\ w[i].protocol \in Protocols
    /\ "other" \notin Protocols /\ c # None =>
          \/ c.http # None \/ c.sse # None
          \/ \E i \in Inits : w[i].pc \in {"read", "write"}

SoundAt(s) ==
    Sound(conn[s], setup[s], probe[s]) /\ (s \in recover => conn[s] # None)

\* Every server is sound ...
LEMMA WorkAt ==
    ASSUME WorkPart, NEW s \in Servers
    PROVE  SoundAt(s)
  BY DEF WorkPart, WorkersInv, TransportInv, Unwritten, Sound, SoundAt

\* ... and when every server is sound after a step, the invariant holds.
LEMMA WorkFrom ==
    ASSUME DOMAIN conn' = Servers, conn' = [s \in Servers |-> conn'[s]],
           setup' = [s \in Servers |-> setup'[s]],
           probe' = [s \in Servers |-> probe'[s]], recover' \subseteq Servers,
           \A s \in Servers : SoundAt(s)'
    PROVE  WorkPart'
  <1>1. /\ conn' \in [Servers -> Connection \cup {None}]
        /\ setup' \in [Servers -> [Inits -> Setup]]
        /\ probe' \in [Servers -> Check]
    BY DEF Sound, SoundAt
  <1>2. WorkersInv'
    BY DEF Sound, SoundAt, WorkersInv
  <1>3. ("other" \notin Protocols => TransportInv)'
    BY DEF Sound, SoundAt, TransportInv, Unwritten
  <1> QED
    BY <1>1, <1>2, <1>3 DEF WorkPart

\* A step at one server that leaves it sound keeps the invariant.
LEMMA OneServer ==
    ASSUME WorkPart, NEW s \in Servers, NEW c, NEW w, NEW p,
           conn' = [conn EXCEPT ![s] = c], setup' = [setup EXCEPT ![s] = w],
           probe' = [probe EXCEPT ![s] = p],
           recover' \subseteq recover \cup {s}, c # None, Sound(c, w, p)
    PROVE  WorkPart'
  <1>1. /\ conn' = [t \in Servers |-> conn'[t]] /\ DOMAIN conn' = Servers
        /\ setup' = [t \in Servers |-> setup'[t]]
        /\ probe' = [t \in Servers |-> probe'[t]] /\ recover' \subseteq Servers
    BY DEF WorkPart
  <1>2. ASSUME NEW t \in Servers
        PROVE  SoundAt(t)'
    <2>1. CASE t = s
      <3>1. conn'[t] = c /\ setup'[t] = w /\ probe'[t] = p
        BY <2>1 DEF WorkPart
      <3> QED
        BY <3>1 DEF SoundAt
    <2>2. CASE t # s
      <3>1. conn'[t] = conn[t] /\ setup'[t] = setup[t] /\ probe'[t] = probe[t]
        BY <2>2 DEF WorkPart
      <3>2. t \in recover' => t \in recover
        BY <2>2
      <3> QED
        BY <3>1, <3>2, WorkAt DEF SoundAt
    <2> QED
      BY <2>1, <2>2
  <1> QED
    BY <1>1, <1>2, WorkFrom

\* Steps that touch no connection and no goroutine.
LEMMA NoServer ==
    ASSUME WorkPart, UNCHANGED <<conn, setup, probe, recover>>
    PROVE  WorkPart'
  BY DEF WorkPart, WorkersInv, TransportInv, Unwritten

-----------------------------------------------------------------------------
(* The handlers of the connection manager *)

\* A discovered Service brings a connection with an initialiser, or nothing.
LEMMA AddedKeeps ==
    ASSUME WorkPart, NEW s \in Servers, NEW o \in Object,
           OnServiceAdded(s, o), recover' = recover
    PROVE  WorkPart'
  <1>1. CASE conn[s] # None
    BY <1>1, NoServer DEF OnServiceAdded
  <1>2. CASE conn[s] = None
    <2> DEFINE c == NewConnection(o)
               w == WithInitializer(NoInits)
    <2>1. c \in Connection /\ c # None
      BY NewIsConnection
    <2>2. \E i \in Inits : NoInits[i].pc = "idle"
      BY IdleInits, Constants
    <2>3. NoInits \in [Inits -> Setup]
      BY IdleInits
    <2>4. /\ w \in [Inits -> Setup]
          /\ \E i \in Inits : w[i].pc = "read"
          /\ \A i \in Inits : w[i] = NoInits[i] \/ w[i].pc = "read"
      BY <2>2, <2>3, Initialiser
    <2>5. \A i \in Inits : w[i].pc # "write"
      BY <2>4, IdleInits
    <2>6. NoProbe \in Check
      BY DEF NoProbe, Check
    <2>7. /\ conn' = [conn EXCEPT ![s] = c] /\ setup' = [setup EXCEPT ![s] = w]
          /\ probe' = [probe EXCEPT ![s] = NoProbe]
      BY <1>2 DEF OnServiceAdded
    <2> HIDE DEF c, w
    <2>8. Sound(c, w, NoProbe)
      BY <2>1, <2>4, <2>5, <2>6 DEF Sound
    <2> QED
      BY <2>1, <2>7, <2>8, OneServer
  <1> QED
    BY <1>1, <1>2

\* Another initialiser starts on a connection: it is sound whatever transport
\* it is left with.
LEMMA Restarted ==
    ASSUME WorkPart, NEW s \in Servers, conn[s] # None, NEW c \in Connection,
           CanInitialize(s), conn' = [conn EXCEPT ![s] = c],
           setup' = [setup EXCEPT ![s] = WithInitializer(setup[s])],
           probe' = probe, recover' \subseteq recover
    PROVE  WorkPart'
  <1> DEFINE w == WithInitializer(setup[s])
  <1>1. Sound(conn[s], setup[s], probe[s])
    BY WorkAt DEF SoundAt
  <1>2. setup[s] \in [Inits -> Setup] /\ probe[s] \in Check
    BY <1>1 DEF Sound
  <1>3. \E i \in Inits : setup[s][i].pc = "idle"
    BY DEF CanInitialize
  <1>4. /\ w \in [Inits -> Setup]
        /\ \E i \in Inits : w[i].pc = "read"
        /\ \A i \in Inits : w[i] = setup[s][i] \/ w[i].pc = "read"
    BY <1>2, <1>3, Initialiser
  <1>5. c # None
    BY EditIsConnection
  <1> HIDE DEF w
  <1>6. Sound(c, w, probe[s])
    BY <1>1, <1>2, <1>4, <1>5 DEF Sound
  <1>7. probe' = [probe EXCEPT ![s] = probe[s]]
    BY DEF WorkPart
  <1>8. setup' = [setup EXCEPT ![s] = w]
    BY DEF w
  <1>9. recover' \subseteq recover \cup {s}
    OBVIOUS
  <1> QED
    BY <1>5, <1>6, <1>7, <1>8, <1>9, OneServer

\* A connection is changed and keeps its transports.
LEMMA Edited ==
    ASSUME WorkPart, NEW s \in Servers, conn[s] # None, NEW c \in Connection,
           c.http = conn[s].http, c.sse = conn[s].sse, NEW p \in Check,
           conn' = [conn EXCEPT ![s] = c], setup' = setup,
           probe' = [probe EXCEPT ![s] = p], recover' = recover
    PROVE  WorkPart'
  <1>1. Sound(conn[s], setup[s], probe[s])
    BY WorkAt DEF SoundAt
  <1>2. c # None
    BY EditIsConnection
  <1>3. Sound(c, setup[s], p)
    BY <1>1, <1>2 DEF Sound
  <1>4. setup' = [setup EXCEPT ![s] = setup[s]]
    BY DEF WorkPart
  <1>5. recover' \subseteq recover \cup {s}
    OBVIOUS
  <1> QED
    BY <1>2, <1>3, <1>4, <1>5, OneServer

\* A changed Service closes the connection only together with a new initialiser.
LEMMA ModifiedKeeps ==
    ASSUME WorkPart, NEW s \in Servers, NEW o \in Object, conn[s] # None,
           OnServiceModified(s, o), recover' = recover
    PROVE  WorkPart'
  <1> DEFINE c == [conn[s] EXCEPT !.endpoint = o.url, !.protocol = o.protocol]
  <1>1. conn[s] \in Connection
    BY DEF WorkPart
  <1>2. c \in Connection
    BY <1>1, EditIsConnection
  <1>3. c.http = conn[s].http /\ c.sse = conn[s].sse
    BY <1>1 DEF Connection
  <1>4. CASE c.http # None /\ c.http # o.url
    <2>1. Reinitialize(s, c) /\ probe' = probe
      BY <1>4 DEF OnServiceModified
    <2> HIDE DEF c
    <2>2. closeConnection(c) \in Connection
      BY <1>2, EditIsConnection
    <2>3. CanInitialize(s) /\ conn' = [conn EXCEPT ![s] = closeConnection(c)]
      BY <2>1 DEF Reinitialize
    <2>4. setup' = [setup EXCEPT ![s] = WithInitializer(setup[s])]
      BY <2>1 DEF Reinitialize, WorkPart
    <2> QED
      BY <2>1, <2>2, <2>3, <2>4, Restarted
  <1>5. CASE ~(c.http # None /\ c.http # o.url)
    <2>1. /\ conn' = [conn EXCEPT ![s] = c] /\ setup' = setup
          /\ probe' = [probe EXCEPT ![s] = probe[s]]
      BY <1>5 DEF OnServiceModified, WorkPart
    <2>2. probe[s] \in Check
      BY DEF WorkPart
    <2> HIDE DEF c
    <2> QED
      BY <1>2, <1>3, <2>1, <2>2, Edited
  <1> QED
    BY <1>4, <1>5

\* OnServiceDeleted and Stop: the connections go with their goroutines.
LEMMA ForgetKeeps ==
    ASSUME WorkPart, NEW S, Forget(S)
    PROVE  WorkPart'
  <1>1. /\ conn' = [t \in Servers |-> conn'[t]] /\ DOMAIN conn' = Servers
        /\ setup' = [t \in Servers |-> setup'[t]]
        /\ probe' = [t \in Servers |-> probe'[t]] /\ recover' \subseteq Servers
    BY DEF WorkPart, Forget
  <1>2. ASSUME NEW t \in Servers
        PROVE  SoundAt(t)'
    <2>1. CASE t \in S
      <3>1. conn'[t] = None /\ setup'[t] = NoInits /\ probe'[t] = NoProbe
        BY <2>1 DEF Forget
      <3>2. t \notin recover'
        BY <2>1 DEF Forget
      <3>3. Sound(None, NoInits, NoProbe)
        BY IdleInits DEF Sound, Check, NoProbe
      <3> QED
        BY <3>1, <3>2, <3>3 DEF SoundAt
    <2>2. CASE t \notin S
      <3>1. conn'[t] = conn[t] /\ setup'[t] = setup[t] /\ probe'[t] = probe[t]
        BY <2>2 DEF Forget
      <3>2. t \in recover' => t \in recover
        BY DEF Forget
      <3> QED
        BY <3>1, <3>2, WorkAt DEF SoundAt
    <2> QED
      BY <2>1, <2>2
  <1> QED
    BY <1>1, <1>2, WorkFrom

-----------------------------------------------------------------------------
(* The goroutines of a connection *)

\* A goroutine works on a registered connection.
LEMMA Registered ==
    ASSUME WorkPart, NEW s \in Servers
    PROVE  /\ \A i \in Inits : setup[s][i].pc # "idle" => conn[s] \in Connection
           /\ probe[s] # NoProbe => conn[s] \in Connection
           /\ s \in recover => conn[s] \in Connection
           /\ conn[s] \in Connection => conn[s] # None
  <1>1. SoundAt(s)
    BY WorkAt
  <1>2. conn[s] \in Connection \/ conn[s] = None
    BY DEF WorkPart
  <1>3. conn[s] \in Connection => conn[s] # None
    BY EditIsConnection
  <1> QED
    BY <1>1, <1>2, <1>3, IdleInits DEF SoundAt, Sound

\* One initialiser goes on, with connection c and check p: the connection needs
\* a transport if the initialiser is not about to write.
LEMMA OneInit ==
    ASSUME WorkPart, NEW s \in Servers, NEW i \in Inits,
           NEW c \in Connection, NEW x \in Setup, NEW p \in Check,
           x.pc = "write" => x.url \in Urls /\ x.protocol \in Protocols,
           conn[s] \in Connection,
           \/ x.pc \in {"read", "write"}
           \/ c.http # None \/ c.sse # None
           \/ "other" \in Protocols
           \/ /\ setup[s][i].pc \notin {"read", "write"}
              /\ c.http = conn[s].http /\ c.sse = conn[s].sse,
           conn' = [conn EXCEPT ![s] = c],
           setup' = [setup EXCEPT ![s] = [setup[s] EXCEPT ![i] = x]],
           probe' = [probe EXCEPT ![s] = p], recover' = recover
    PROVE  WorkPart'
  <1> DEFINE w == [setup[s] EXCEPT ![i] = x]
  <1>1. Sound(conn[s], setup[s], probe[s])
    BY WorkAt DEF SoundAt
  <1>2. setup[s] \in [Inits -> Setup]
    BY <1>1 DEF Sound
  <1>3. w \in [Inits -> Setup] /\ w[i] = x
    BY <1>2
  <1>4. \A j \in Inits : j # i => w[j] = setup[s][j]
    BY <1>2
  <1>5. setup' = [setup EXCEPT ![s] = w]
    OBVIOUS
  <1> HIDE DEF w
  <1>6. c # None /\ conn[s] # None
    BY EditIsConnection
  <1>7. \A j \in Inits :
          w[j].pc = "write" => w[j].url \in Urls /\ w[j].protocol \in Protocols
    BY <1>1, <1>3, <1>4 DEF Sound
  <1>8. "other" \notin Protocols =>
          \/ c.http # None \/ c.sse # None
          \/ \E j \in Inits : w[j].pc \in {"read", "write"}
    BY <1>1, <1>3, <1>4, <1>6 DEF Sound
  <1>9. Sound(c, w, p)
    BY <1>3, <1>6, <1>7, <1>8 DEF Sound
  <1>10. recover' \subseteq recover \cup {s}
    OBVIOUS
  <1> QED
    BY <1>5, <1>6, <1>9, <1>10, OneServer

\* The initialiser reads endpoint and protocol, without a lock ...
LEMMA InitReadKeeps ==
    ASSUME WorkPart, NEW s \in Servers, NEW i \in Inits, InitRead(s, i)
    PROVE  WorkPart'
  <1> DEFINE x == [pc |-> "write", url |-> conn[s].endpoint,
                   protocol |-> conn[s].protocol]
  <1>1. conn[s] \in Connection /\ probe[s] \in Check
    BY Registered DEF InitRead, WorkPart
  <1>2. conn[s].endpoint \in Urls /\ conn[s].protocol \in Protocols
    BY <1>1 DEF Connection
  <1>3. /\ x \in Setup /\ x.pc = "write" /\ x.url \in Urls
        /\ x.protocol \in Protocols
    BY <1>2, Constants DEF Setup, Pc
  <1>4. setup' = [setup EXCEPT ![s] = [setup[s] EXCEPT ![i] = x]]
    BY DEF InitRead, WorkPart
  <1>5. /\ conn' = [conn EXCEPT ![s] = conn[s]]
        /\ probe' = [probe EXCEPT ![s] = probe[s]] /\ recover' = recover
    BY DEF InitRead, WorkPart
  <1> HIDE DEF x
  <1> QED
    BY <1>1, <1>3, <1>4, <1>5, OneInit

\* ... and writes the transport of what it has read.
LEMMA InitWriteKeeps ==
    ASSUME WorkPart, NEW s \in Servers, NEW i \in Inits, InitWrite(s, i)
    PROVE  WorkPart'
  <1> DEFINE y == setup[s][i]
             x == [y EXCEPT !.pc = "status", !.url = None]
  <1>1. conn[s] \in Connection /\ probe[s] \in Check
    BY Registered DEF InitWrite, WorkPart
  <1>2. y \in Setup /\ y.pc = "write"
    BY DEF InitWrite, WorkPart
  <1>3. y.url \in Urls /\ y.protocol \in Protocols /\ y.url # None
    BY <1>2, WorkAt, ConnectionAssumption DEF SoundAt, Sound
  <1>4. x \in Setup /\ x.pc = "status"
    BY <1>2, Constants DEF Setup, Pc
  <1>5. setup' = [setup EXCEPT ![s] = [setup[s] EXCEPT ![i] = x]]
    BY DEF InitWrite, WorkPart
  <1>6. probe' = [probe EXCEPT ![s] = probe[s]] /\ recover' = recover
    BY DEF InitWrite, WorkPart
  <1>7. CASE y.protocol = "http"
    <2> DEFINE c == [conn[s] EXCEPT !.http = y.url]
    <2>1. conn' = [conn EXCEPT ![s] = c]
      BY <1>7 DEF InitWrite, WorkPart
    <2>2. c \in Connection
      BY <1>1, <1>3, EditIsConnection
    <2>3. c.http # None
      BY <1>1, <1>3 DEF Connection
    <2> HIDE DEF c, x, y
    <2> QED
      BY <1>1, <1>4, <1>5, <1>6, <2>1, <2>2, <2>3, OneInit
  <1>8. CASE y.protocol = "sse"
    <2> DEFINE c == [conn[s] EXCEPT !.sse = y.url]
    <2>1. conn' = [conn EXCEPT ![s] = c]
      BY <1>8 DEF InitWrite, WorkPart
    <2>2. c \in Connection
      BY <1>1, <1>3, EditIsConnection
    <2>3. c.sse # None
      BY <1>1, <1>3 DEF Connection
    <2> HIDE DEF c, x, y
    <2> QED
      BY <1>1, <1>4, <1>5, <1>6, <2>1, <2>2, <2>3, OneInit
  <1>9. CASE y.protocol = "other"
    <2>1. conn' = [conn EXCEPT ![s] = conn[s]]
      BY <1>9 DEF InitWrite, WorkPart
    <2>2. "other" \in Protocols
      BY <1>3, <1>9
    <2> HIDE DEF x, y
    <2> QED
      BY <1>1, <1>4, <1>5, <1>6, <2>1, <2>2, OneInit
  <1> HIDE DEF x, y
  <1> QED
    BY <1>3, <1>7, <1>8, <1>9, ConnectionAssumption

\* A success changes the status and the counters, not the transport.
LEMMA InitSucceedsKeeps ==
    ASSUME WorkPart, NEW s \in Servers, NEW i \in Inits, InitSucceeds(s, i)
    PROVE  WorkPart'
  <1> DEFINE c == [conn[s] EXCEPT !.status = "connected", !.errors = 0,
                                  !.failures = 0]
             p == IF probe[s] = NoProbe THEN Probe("health", conn[s])
                                        ELSE probe[s]
  <1>1. conn[s] \in Connection /\ probe[s] \in Check
    BY Registered DEF InitSucceeds, WorkPart
  <1>2. c \in Connection
    BY <1>1, Constants, EditIsConnection DEF Status
  <1>3. c.http = conn[s].http /\ c.sse = conn[s].sse
    BY <1>1 DEF Connection
  <1>4. p \in Check
    BY <1>1, ProbeIsCheck
  <1>5. /\ conn' = [conn EXCEPT ![s] = c] /\ probe' = [probe EXCEPT ![s] = p]
        /\ recover' = recover
    BY DEF InitSucceeds, WorkPart
  <1>6. setup' = [setup EXCEPT ![s] = [setup[s] EXCEPT ![i] = Idle]]
    BY DEF InitSucceeds, WorkPart
  <1>7. setup[s][i].pc = "status" /\ Idle \in Setup /\ Idle.pc = "idle"
    BY IdleInits DEF InitSucceeds
  <1> HIDE DEF c, p
  <1> QED
    BY <1>1, <1>2, <1>3, <1>4, <1>5, <1>6, <1>7, OneInit

\* Only an unsupported protocol fails.
LEMMA InitFailsKeeps ==
    ASSUME WorkPart, NEW s \in Servers, NEW i \in Inits, InitFails(s, i)
    PROVE  WorkPart'
  <1> DEFINE e == Saturate(conn[s].errors, MaxRetries + 1)
             c == [conn[s] EXCEPT !.status = "failed", !.errors = e]
             x == IF RetriesLeft(e) THEN [Idle EXCEPT !.pc = "retry"] ELSE Idle
  <1>1. conn[s] \in Connection /\ probe[s] \in Check
    BY Registered DEF InitFails, WorkPart
  <1>2. conn[s].errors \in Errors
    BY <1>1 DEF Connection
  <1>3. e \in Errors
    BY <1>2, Constants
  <1>4. conn' = [conn EXCEPT ![s] = c]
    BY DEF InitFails, WorkPart
  <1>5. setup' = [setup EXCEPT ![s] = [setup[s] EXCEPT ![i] = x]]
    BY DEF InitFails, WorkPart
  <1>6. probe' = [probe EXCEPT ![s] = probe[s]] /\ recover' = recover
    BY DEF InitFails, WorkPart
  <1>7. setup[s][i].pc = "status"
    BY DEF InitFails
  <1>8. x \in Setup /\ x.pc \in {"idle", "retry"}
    BY IdleInits
  <1> HIDE DEF e
  <1>9. c \in Connection
    BY <1>1, <1>3, EditIsConnection DEF Status
  <1>10. c.http = conn[s].http /\ c.sse = conn[s].sse
    BY <1>1 DEF Connection
  <1> HIDE DEF c, x
  <1> QED
    BY <1>1, <1>4, <1>5, <1>6, <1>7, <1>8, <1>9, <1>10, OneInit

\* A retry reads again, or ends with the manager.
LEMMA RetryKeeps ==
    ASSUME WorkPart, NEW s \in Servers, NEW i \in Inits, Retry(s, i)
    PROVE  WorkPart'
  <1> DEFINE y == [setup[s][i] EXCEPT !.pc = "read"]
  <1>1. conn[s] \in Connection /\ probe[s] \in Check /\ setup[s][i] \in Setup
    BY Registered DEF Retry, WorkPart
  <1>2. /\ conn' = [conn EXCEPT ![s] = conn[s]] /\ recover' = recover
        /\ probe' = [probe EXCEPT ![s] = probe[s]]
    BY DEF Retry, WorkPart
  <1>3. CASE setup' = [setup EXCEPT ![s] = [setup[s] EXCEPT ![i] = y]]
    <2>1. y \in Setup /\ y.pc = "read"
      BY <1>1 DEF Setup, Pc
    <2> HIDE DEF y
    <2> QED
      BY <1>1, <1>2, <1>3, <2>1, OneInit
  <1>4. CASE setup' = [setup EXCEPT ![s] = [setup[s] EXCEPT ![i] = Idle]]
    <2>1. Idle \in Setup /\ Idle.pc = "idle" /\ setup[s][i].pc = "retry"
      BY IdleInits DEF Retry
    <2> QED
      BY <1>1, <1>2, <1>4, <2>1, OneInit
  <1> QED
    BY <1>3, <1>4 DEF Retry, WorkPart

\* performHealthChecks, performKeepAlive and their results.
LEMMA ProbesKeep ==
    ASSUME WorkPart, NEW s \in Servers,
           (\E probing \in {"health", "ping"} : ProbeStart(s, probing)) \/ ProbeEnd(s)
    PROVE  WorkPart'
  <1>1. ASSUME NEW probing \in {"health", "ping"}, ProbeStart(s, probing)
        PROVE  WorkPart'
    <2> DEFINE p == Probe(probing, conn[s])
    <2>1. conn[s] \in Connection /\ conn[s] # None
      BY <1>1 DEF ProbeStart, WorkPart
    <2>2. p \in Check
      BY <2>1, ProbeIsCheck
    <2>3. /\ conn' = [conn EXCEPT ![s] = conn[s]] /\ recover' = recover
          /\ probe' = [probe EXCEPT ![s] = p] /\ setup' = setup
      BY <1>1 DEF ProbeStart, WorkPart
    <2> HIDE DEF p
    <2> QED
      BY <2>1, <2>2, <2>3, Edited
  <1>2. ASSUME ProbeEnd(s)
        PROVE  WorkPart'
    <2> DEFINE ok == Answers(s, probe[s].target)
               c == IF probe[s].kind = "ping" THEN ApplyPing(conn[s], ok)
                                              ELSE ApplyHealth(conn[s], ok)
    <2>1. conn[s] \in Connection /\ conn[s] # None
      BY <1>2, Registered DEF ProbeEnd
    <2>2. NoProbe \in Check
      BY DEF NoProbe, Check
    <2>3. /\ conn' = [conn EXCEPT ![s] = c] /\ recover' = recover
          /\ probe' = [probe EXCEPT ![s] = NoProbe] /\ setup' = setup
      BY <1>2 DEF ProbeEnd, WorkPart
    <2>4. ok \in BOOLEAN
      BY DEF Answers
    <2> HIDE DEF ok
    <2>5. c \in Connection
      BY <2>1, <2>4, EditIsConnection
    <2>6. c.http = conn[s].http /\ c.sse = conn[s].sse
      BY <2>1, <2>4, ChecksKeepTransport
    <2> HIDE DEF c
    <2> QED
      BY <2>1, <2>2, <2>3, <2>5, <2>6, Edited
  <1> QED
    BY <1>1, <1>2

\* attemptConnectionRecovery: what was decided is done later.
LEMMA RecoveryKeeps ==
    ASSUME WorkPart, NEW s \in Servers, RecoveryDecides(s) \/ RecoveryActs(s)
    PROVE  WorkPart'
  <1>1. CASE RecoveryDecides(s)
    <2>1. Sound(conn[s], setup[s], probe[s]) /\ conn[s] # None
      BY <1>1, WorkAt DEF SoundAt, RecoveryDecides
    <2>2. /\ conn' = [conn EXCEPT ![s] = conn[s]]
          /\ setup' = [setup EXCEPT ![s] = setup[s]]
          /\ probe' = [probe EXCEPT ![s] = probe[s]]
      BY <1>1 DEF RecoveryDecides, WorkPart
    <2>3. recover' \subseteq recover \cup {s}
      BY <1>1 DEF RecoveryDecides
    <2> QED
      BY <2>1, <2>2, <2>3, OneServer
  <1>2. CASE RecoveryActs(s)
    <2> DEFINE c == [conn[s] EXCEPT !.status = "connecting", !.errors = 0,
                                    !.failures = 0]
    <2>1. conn[s] \in Connection /\ conn[s] # None
      BY <1>2, Registered DEF RecoveryActs
    <2>2. c \in Connection
      BY <2>1, Constants, EditIsConnection DEF Status
    <2>3. conn' = [conn EXCEPT ![s] = c]
      BY <1>2, <2>1 DEF RecoveryActs, WorkPart, Connection
    <2>4. setup' = [setup EXCEPT ![s] = WithInitializer(setup[s])]
      BY <1>2 DEF RecoveryActs, WorkPart
    <2>5. CanInitialize(s) /\ probe' = probe /\ recover' \subseteq recover
      BY <1>2 DEF RecoveryActs
    <2> HIDE DEF c
    <2> QED
      BY <2>1, <2>2, <2>3, <2>4, <2>5, Restarted
  <1> QED
    BY <1>1, <1>2

\* GetConnection and the passing of time touch LastUsed only.
LEMMA UseKeeps ==
    ASSUME WorkPart, NEW s \in Servers, GetConnection(s) \/ FiveMinutesPass(s)
    PROVE  WorkPart'
  <1>1. PICK b \in BOOLEAN : conn' = [conn EXCEPT ![s].recent = b]
    BY DEF GetConnection, FiveMinutesPass
  <1> DEFINE c == [conn[s] EXCEPT !.recent = b]
  <1>2. conn[s] # None /\ conn[s] \in Connection /\ probe[s] \in Check
    BY DEF GetConnection, FiveMinutesPass, WorkPart
  <1>3. /\ conn' = [conn EXCEPT ![s] = c] /\ recover' = recover
        /\ probe' = [probe EXCEPT ![s] = probe[s]] /\ setup' = setup
    BY <1>1 DEF GetConnection, FiveMinutesPass, WorkPart
  <1>4. c \in Connection /\ c.http = conn[s].http /\ c.sse = conn[s].sse
    <2>1. c \in Connection
      BY <1>2, EditIsConnection
    <2> QED
      BY <1>2, <2>1 DEF Connection
  <1> HIDE DEF c
  <1> QED
    BY <1>2, <1>3, <1>4, Edited

-----------------------------------------------------------------------------
(* The cluster, the queue of events, Start and Stop *)

\* The conjuncts that are not about goroutines.
ClusterPart ==
    /\ svc \in [Servers -> Object \cup {None}] /\ up \subseteq Servers
    /\ changes \in 0..MaxChanges
    /\ services \in [Servers -> Object \cup {None}]
    /\ events \in Seq(Event)
    /\ phase \in {"new", "adding", "started"}
    /\ {running, stuck, discovering} \subseteq BOOLEAN
    /\ listed \in [Servers -> Object \cup {None}]

\* The invariant is these two parts.
LEMMA ConnectionParts ==
    /\ ConnectionInv <=> ClusterPart /\ WorkPart
    /\ ConnectionInv' <=> ClusterPart' /\ WorkPart'
  <1>1. ConnectionInv <=> ClusterPart /\ WorkPart
    BY DEF ConnectionInv, TypeOK, ClusterPart, WorkPart
  <1>2. ConnectionInv' <=> ClusterPart' /\ WorkPart'
    BY DEF ConnectionInv, TypeOK, ClusterPart, WorkPart
  <1> QED
    BY <1>1, <1>2

\* What the informer queues is an event of a Service.
LEMMA EmitKeeps ==
    ASSUME ClusterPart, NEW type \in {"ADDED", "MODIFIED", "DELETED"},
           NEW s \in Servers, NEW o \in Object, Emit(type, s, o)
    PROVE  events' \in Seq(Event)
  <1>1. [type |-> type, name |-> s, object |-> o] \in Event
    BY DEF Event
  <1>2. events \in Seq(Event)
    BY DEF ClusterPart
  <1>3. Append(events, [type |-> type, name |-> s, object |-> o]) \in Seq(Event)
    BY <1>1, <1>2
  <1> QED
    BY <1>2, <1>3 DEF Emit

\* The event that is handled names a server and an object.
LEMMA HeadIsEvent ==
    ASSUME ClusterPart, NEW type, Handling(type)
    PROVE  /\ Head(events).name \in Servers /\ Head(events).object \in Object
           /\ events' \in Seq(Event)
  <1>1. events \in Seq(Event) /\ events # <<>>
    BY DEF ClusterPart, Handling
  <1>2. Head(events) \in Event /\ Tail(events) \in Seq(Event)
    BY <1>1
  <1> QED
    BY <1>2 DEF Event, Handling

\* Steps of the goroutines leave the cluster part alone.
LEMMA GoroutineStep ==
    ASSUME ClusterPart,
           UNCHANGED <<cluster, events, services, discovering, manager, stuck>>
    PROVE  ClusterPart'
  BY DEF ClusterPart, cluster, manager

\* Changes of Services are queued and touch no goroutine.
LEMMA ClusterKeeps ==
    ASSUME ClusterPart, WorkPart, NEW s \in Servers,
           ChangeService(s) \/ Resync(s) \/ ServerGoesUpOrDown(s)
    PROVE  ClusterPart' /\ WorkPart'
  <1>1. WorkPart'
    BY NoServer DEF ChangeService, Resync, ServerGoesUpOrDown
  <1>2. CASE ChangeService(s)
    <2>1. changes' \in 0..MaxChanges
      BY <1>2, ConnectionAssumption DEF ChangeService, ClusterPart
    <2>2. ASSUME NEW o \in Objects, svc' = [svc EXCEPT ![s] = o],
                 Emit(IF svc[s] = None THEN "ADDED" ELSE "MODIFIED", s, o)
          PROVE  /\ svc' \in [Servers -> Object \cup {None}]
                 /\ events' \in Seq(Event)
      <3>1. o \in Object
        BY DEF Objects
      <3>2. events' \in Seq(Event)
        BY <2>2, <3>1, EmitKeeps
      <3> QED
        BY <2>2, <3>1, <3>2 DEF ClusterPart
    <2>3. ASSUME svc[s] # None, svc' = [svc EXCEPT ![s] = None],
                 Emit("DELETED", s, svc[s]) \/ events' = events
          PROVE  /\ svc' \in [Servers -> Object \cup {None}]
                 /\ events' \in Seq(Event)
      <3>1. svc[s] \in Object
        BY <2>3 DEF ClusterPart
      <3>2. events' \in Seq(Event)
        BY <2>3, <3>1, EmitKeeps DEF ClusterPart
      <3> QED
        BY <2>3, <3>2 DEF ClusterPart
    <2>4. svc' \in [Servers -> Object \cup {None}] /\ events' \in Seq(Event)
      BY <1>2, <2>2, <2>3 DEF ChangeService
    <2>5. UNCHANGED <<up, services, discovering, listed, phase, running, stuck>>
      BY <1>2 DEF ChangeService, manager
    <2> QED
      BY <1>1, <2>1, <2>4, <2>5 DEF ClusterPart
  <1>3. CASE Resync(s)
    <2>1. svc[s] \in Object
      BY <1>3 DEF Resync, ClusterPart
    <2>2. events' \in Seq(Event)
      BY <1>3, <2>1, EmitKeeps DEF Resync
    <2>3. UNCHANGED <<svc, up, changes, services, discovering, listed, phase,
                      running, stuck>>
      BY <1>3 DEF Resync, cluster, manager
    <2> QED
      BY <1>1, <2>2, <2>3 DEF ClusterPart
  <1>4. CASE ServerGoesUpOrDown(s)
    BY <1>1, <1>4 DEF ServerGoesUpOrDown, ClusterPart, manager
  <1> QED
    BY <1>2, <1>3, <1>4

\* The informer's handlers, for the event at the head of the queue.
LEMMA HandlersKeep ==
    ASSUME ClusterPart, WorkPart, HandleEvent
    PROVE  ClusterPart' /\ WorkPart'
  <1> DEFINE s == Head(events).name
             o == Head(events).object
  <1>1. CASE handleServiceAdded
    <2>1. s \in Servers /\ o \in Object /\ events' \in Seq(Event)
      BY <1>1, HeadIsEvent DEF handleServiceAdded
    <2>2. \/ UNCHANGED <<services, conn, setup, probe>>
          \/ services' = [services EXCEPT ![s] = o] /\ OnServiceAdded(s, o)
      BY <1>1 DEF handleServiceAdded
    <2>3. UNCHANGED <<svc, up, changes, discovering, recover, listed, phase,
                      running, stuck>>
      BY <1>1 DEF handleServiceAdded, cluster, manager
    <2> HIDE DEF s, o
    <2>4. WorkPart'
      BY <2>1, <2>2, <2>3, AddedKeeps, NoServer
    <2>5. services' \in [Servers -> Object \cup {None}]
      BY <2>1, <2>2 DEF ClusterPart
    <2> QED
      BY <2>1, <2>3, <2>4, <2>5 DEF ClusterPart
  <1>2. CASE handleServiceModified
    <2>1. s \in Servers /\ o \in Object /\ events' \in Seq(Event)
      BY <1>2, HeadIsEvent DEF handleServiceModified
    <2>2. \/ UNCHANGED <<services, conn, setup, probe, stuck>>
          \/ /\ services' = [services EXCEPT ![s] = o]
             /\ \/ stuck' = TRUE /\ UNCHANGED <<conn, setup, probe>>
                \/ conn[s] # None /\ stuck' = stuck /\ OnServiceModified(s, o)
      BY <1>2 DEF handleServiceModified
    <2>3. UNCHANGED <<svc, up, changes, discovering, recover, listed, phase,
                      running>>
      BY <1>2 DEF handleServiceModified, cluster, manager
    <2> HIDE DEF s, o
    <2>4. WorkPart'
      BY <2>1, <2>2, <2>3, ModifiedKeeps, NoServer
    <2>5. services' \in [Servers -> Object \cup {None}]
      BY <2>1, <2>2 DEF ClusterPart
    <2>6. stuck' \in BOOLEAN
      BY <2>2 DEF ClusterPart
    <2> QED
      BY <2>1, <2>3, <2>4, <2>5, <2>6 DEF ClusterPart
  <1>3. CASE handleServiceDeleted
    <2>1. events' \in Seq(Event)
      BY <1>3, HeadIsEvent DEF handleServiceDeleted
    <2>2. WorkPart'
      BY <1>3, ForgetKeeps DEF handleServiceDeleted
    <2>3. UNCHANGED <<svc, up, changes, discovering, listed, phase, running,
                      stuck>>
      BY <1>3 DEF handleServiceDeleted, cluster, manager
    <2>4. services' \in [Servers -> Object \cup {None}]
      BY <1>3 DEF handleServiceDeleted, ClusterPart
    <2> QED
      BY <2>1, <2>2, <2>3, <2>4 DEF ClusterPart
  <1> QED
    BY <1>1, <1>2, <1>3 DEF HandleEvent

\* Start, its list, and the two halves of Stop.
LEMMA StartStopKeep ==
    ASSUME ClusterPart, WorkPart,
           \/ StartList \/ Started \/ StopManager \/ StopDiscovery
           \/ \E s \in Servers : StartAdd(s)
    PROVE  ClusterPart' /\ WorkPart'
  <1>1. CASE StartList
    <2>1. WorkPart'
      BY <1>1, NoServer DEF StartList
    <2>2. listed' \in [Servers -> Object \cup {None}]
      BY <1>1 DEF StartList, ClusterPart
    <2> QED
      BY <1>1, <2>1, <2>2 DEF StartList, ClusterPart, cluster
  <1>2. CASE Started
    BY <1>2, NoServer DEF Started, ClusterPart, cluster
  <1>3. CASE StopManager
    <2>1. WorkPart'
      BY <1>3, ForgetKeeps DEF StopManager
    <2> QED
      BY <1>3, <2>1 DEF StopManager, ClusterPart, cluster
  <1>4. CASE StopDiscovery
    <2>1. WorkPart'
      BY <1>4, NoServer DEF StopDiscovery
    <2>2. events' \in Seq(Event)
      BY <1>4 DEF StopDiscovery
    <2> QED
      BY <1>4, <2>1, <2>2 DEF StopDiscovery, ClusterPart, cluster, manager
  <1>5. ASSUME NEW s \in Servers, StartAdd(s)
        PROVE  ClusterPart' /\ WorkPart'
    <2>1. listed[s] \in Object
      BY <1>5 DEF StartAdd, ClusterPart
    <2>2. WorkPart'
      BY <1>5, <2>1, AddedKeeps DEF StartAdd
    <2>3. listed' \in [Servers -> Object \cup {None}]
      BY <1>5 DEF StartAdd, ClusterPart
    <2> QED
      BY <1>5, <2>2, <2>3 DEF StartAdd, ClusterPart, cluster
  <1> QED
    BY <1>1, <1>2, <1>3, <1>4, <1>5

\* The goroutines of a connection, the loops and the callers.
LEMMA GoroutinesKeep ==
    ASSUME ClusterPart, WorkPart, NEW s \in Servers,
           \/ \E i \in Inits : Initializer(s, i)
           \/ \E probing \in {"health", "ping"} : ProbeStart(s, probing)
           \/ ProbeEnd(s) \/ RecoveryDecides(s) \/ RecoveryActs(s)
           \/ GetConnection(s) \/ FiveMinutesPass(s)
    PROVE  ClusterPart' /\ WorkPart'
  <1>1. ASSUME NEW i \in Inits, Initializer(s, i)
        PROVE  ClusterPart' /\ WorkPart'
    <2>1. WorkPart'
      BY <1>1, InitReadKeeps, InitWriteKeeps, InitSucceedsKeeps, InitFailsKeeps,
         RetryKeeps DEF Initializer
    <2>2. UNCHANGED <<cluster, events, services, discovering, manager, stuck>>
      BY <1>1 DEF Initializer, InitRead, InitWrite, InitSucceeds, InitFails, Retry
    <2> QED
      BY <2>1, <2>2, GoroutineStep
  <1>2. ASSUME \/ \E probing \in {"health", "ping"} : ProbeStart(s, probing)
               \/ ProbeEnd(s)
        PROVE  ClusterPart' /\ WorkPart'
    <2>1. UNCHANGED <<cluster, events, services, discovering, manager, stuck>>
      BY <1>2 DEF ProbeStart, ProbeEnd
    <2> QED
      BY <1>2, <2>1, ProbesKeep, GoroutineStep
  <1>3. CASE RecoveryDecides(s) \/ RecoveryActs(s)
    <2>1. UNCHANGED <<cluster, events, services, discovering, manager, stuck>>
      BY <1>3 DEF RecoveryDecides, RecoveryActs
    <2> QED
      BY <1>3, <2>1, RecoveryKeeps, GoroutineStep
  <1>4. CASE GetConnection(s) \/ FiveMinutesPass(s)
    <2>1. UNCHANGED <<cluster, events, services, discovering, manager, stuck>>
      BY <1>4 DEF GetConnection, FiveMinutesPass
    <2> QED
      BY <1>4, <2>1, UseKeeps, GoroutineStep
  <1> QED
    BY <1>1, <1>2, <1>3, <1>4

-----------------------------------------------------------------------------
(* The theorems *)

\* At start nothing is connected and nothing is at work.
LEMMA InitSound == Init => ConnectionInv
  <1> SUFFICES ASSUME Init PROVE ConnectionInv
    OBVIOUS
  <1>1. ClusterPart
    <2>1. changes \in 0..MaxChanges
      BY ConnectionAssumption DEF Init
    <2>2. events \in Seq(Event)
      BY DEF Init
    <2>3. {running, stuck, discovering} \subseteq BOOLEAN
      BY DEF Init
    <2>4. /\ svc \in [Servers -> Object \cup {None}] /\ up \subseteq Servers
          /\ services \in [Servers -> Object \cup {None}]
          /\ listed \in [Servers -> Object \cup {None}]
          /\ phase \in {"new", "adding", "started"}
      BY DEF Init
    <2> QED
      BY <2>1, <2>2, <2>3, <2>4 DEF ClusterPart
  <1>2. NoProbe \in Check
    BY DEF NoProbe, Check
  <1>3. WorkPart
    BY <1>2, IdleInits DEF Init, WorkPart, WorkersInv, TransportInv
  <1> QED
    BY <1>1, <1>3, ConnectionParts

\* Every step of the manager, of its goroutines and of the cluster keeps the
\* invariant: whatever the interleaving of events, initialisers that read and
\* write without a lock, checks and recovery.
THEOREM ConnectionInvariant == Spec => []ConnectionInv
  <1>1. ConnectionInv /\ [Next]_vars => ConnectionInv'
    <2> SUFFICES ASSUME ClusterPart, WorkPart, [Next]_vars
                 PROVE  ClusterPart' /\ WorkPart'
      BY ConnectionParts
    <2>1. CASE Next
      BY <2>1, HandlersKeep, StartStopKeep, ClusterKeeps, GoroutinesKeep DEF Next
    <2>2. CASE UNCHANGED vars
      <3>1. WorkPart'
        BY <2>2, NoServer DEF vars
      <3> QED
        BY <2>2, <3>1 DEF vars, ClusterPart
    <2> QED
      BY <2>1, <2>2
  <1> QED
    BY InitSound, <1>1, PTL DEF Spec

\* For servers whose protocols the manager supports, a connection that
\* GetConnection hands out as "connected" has a transport, or an initialiser is
\* about to give it one (connection_manager.go).
THEOREM ConnectedAlwaysHasTransport ==
    ASSUME "other" \notin Protocols
    PROVE  Spec => []ConnectionsAreSound
  <1>1. ConnectionInv => ConnectionsAreSound
    BY DEF ConnectionInv, ConnectionsAreSound, TransportInv,
           ConnectedHasTransport, Unwritten, AtWork
  <1> QED
    BY ConnectionInvariant, <1>1, PTL

-----------------------------------------------------------------------------
(* The controllers and the commands *)

\* What a write of the resource may leave at the API server.
Updated(r) ==
    /\ r \in Resource(kind)
    /\ \/ r = Gone(kind)
       \/ /\ r.uid = res.uid /\ r.exists = res.exists
          /\ kind = "memory" =>
                /\ r.phase \in MemoryPhases
                /\ r.phase \in {"Starting", "Running"} /\ created = 1 /\ res.exists => Prepared

\* A phase that is not set is none of the others.
LEMMA NoPhaseDistinct ==
    NoPhase \notin {"Pending", "Creating", "Starting", "Running", "Degraded", "Failed",
                    "Terminating"}
BY Zenon DEF NoPhase

\* A resource that is not there.
LEMMA GoneType ==
    ASSUME NEW k
    PROVE  /\ Gone(k) \in Resource(k)
           /\ Gone(k).uid = 0 /\ ~Gone(k).exists /\ Gone(k).phase = NoPhase
<1>1. [p \in Parts(k) |-> 1] \in Specs(k)
    BY DEF Specs, Versions
<1>2. 0 \in 0..MaxUid
    BY ResourceAssumption
<1>3. NoPhase \in Phases /\ [pods |-> 0, gen |-> 0] \in [pods : 0..3, gen : Nat]
    BY DEF Phases
<1>4. QED
    BY <1>1, <1>2, <1>3 DEF Gone, Resource

\* A resource as it is created.
LEMMA FreshType ==
    ASSUME NEW k, NEW uid \in 1..MaxUid, NEW spec \in Specs(k)
    PROVE  /\ Fresh(k, uid, spec) \in Resource(k)
           /\ Fresh(k, uid, spec).uid = uid /\ Fresh(k, uid, spec).exists
           /\ Fresh(k, uid, spec).phase = NoPhase
<1>1. uid \in 0..MaxUid
    BY ResourceAssumption
<1>2. QED
    BY <1>1, GoneType DEF Fresh, Gone, Resource

\* The invariant holds initially.
LEMMA CommandsStart == ASSUME CommandInit PROVE ResourceInv
<1>1. /\ res = Gone(kind) /\ cache = Gone(kind) /\ snap = Gone(kind)
      /\ todo = <<>> /\ cmd = <<>> /\ created = 0
      /\ child = [c \in Names |-> NoChild]
    BY DEF CommandInit, ResourceInit
<1>2. \A c \in Names : child[c] = NoChild
    BY <1>1
<1>3. StateType
    <2>1. 0 \in 0..MaxUid /\ 0 \in 0..MaxDisturbances
        BY ResourceAssumption
    <2>2. /\ DOMAIN child = Names /\ child = [c \in Names |-> child[c]]
          /\ \A c \in Names : /\ child[c].uid \in 0..MaxUid
                        /\ child[c] = [uid |-> child[c].uid, built |-> child[c].built]
        BY <1>1, <1>2, <2>1 DEF NoChild
    <2>3. res \in Resource(kind) /\ cache \in Resource(kind) /\ snap \in Resource(kind)
        BY <1>1, GoneType
    <2>4. cmd \in Seq(CommandSteps)
        BY <1>1
    <2>5. /\ kind \in Kinds /\ cacheFresh \in BOOLEAN /\ snapFresh \in BOOLEAN
          /\ dirty \in BOOLEAN /\ peer \in BOOLEAN
        BY DEF CommandInit, ResourceInit
    <2>6. /\ seen \in 0..3 /\ pods \in 0..3 /\ pgpods \in 0..2
          /\ disturbances \in 0..MaxDisturbances /\ created \in 0..MaxUid
          /\ intent \in {"none", "up", "down"}
        BY <2>1 DEF CommandInit, ResourceInit
    <2>7. QED
        BY <2>2, <2>3, <2>4, <2>5, <2>6 DEF StateType
<1>g. \A r \in {res, cache, snap} : r.uid = 0 /\ ~r.exists
    BY <1>1, GoneType
<1>p. \A r \in {res, cache, snap} : r.phase = NoPhase
    BY <1>1, GoneType
<1>4. UidInv
    BY <1>1, <1>2, <1>g DEF UidInv, NoChild
<1>5. PlanInv
    <2>1. Len(todo) = 0 /\ Len(cmd) = 0 /\ todo \in Seq(ReconcileSteps)
        BY <1>1
    <2>2. snap.phase = NoPhase /\ Len(MemoryPlan(snap.phase)) = 2
        BY <1>p, NoPhaseDistinct DEF MemoryPlan
    <2>3. Rest(todo, MemoryPlan(snap.phase))
        <3>1. Len(todo) = 0 /\ Len(MemoryPlan(snap.phase)) = 2
            BY <2>1, <2>2
        <3>2. QED
            BY <3>1 DEF Rest
    <2>4. \A r \in {res, cache, snap} : r.phase \in MemoryPhases
        BY <1>p DEF MemoryPhases
    <2>5. \A i \in 1..Len(todo) : FALSE
        BY <2>1
    <2>6. \A i \in 1..Len(cmd) : FALSE
        BY <2>1
    <2>7. QED
        BY <2>1, <2>3, <2>4, <2>5, <2>6 DEF PlanInv
<1>6. MemoryInv
    BY <1>1 DEF MemoryInv, FirstMemory
<1>7. QED
    BY <1>3, <1>4, <1>5, <1>6 DEF ResourceInv

-----------------------------------------------------------------------------
\* The three copies of the resource carry a uid.
LEMMA CopyUids ==
    ASSUME ResourceInv
    PROVE  \A r \in {res, cache, snap} : r.uid \in Nat
<1>1. \A r \in Resource(kind) : r.uid \in 0..MaxUid
    BY DEF Resource
<1>2. 0..MaxUid \subseteq Nat
    BY ResourceAssumption
<1>3. QED
    BY <1>1, <1>2 DEF ResourceInv, StateType

\* A reconcile that returns holds nothing, so its step keeps the invariant if
\* the resource it leaves does.
LEMMA ReturnKeeps ==
    ASSUME ResourceInv, NEW b \in BOOLEAN, Return(b), Updated(res'),
           UNCHANGED <<kind, cache, child, pods, pgpods, peer, cmd, created, intent>>,
           cacheFresh' \in BOOLEAN, disturbances' \in 0..MaxDisturbances
    PROVE  ResourceInv'
<1>1. todo' = <<>> /\ snap' = Gone(kind)
    BY DEF Return
<1>g. Gone(kind) \in Resource(kind) /\ Gone(kind).uid = 0 /\ ~Gone(kind).exists
    BY GoneType
<1>p. Gone(kind).phase = NoPhase
    BY GoneType
<1>2. StateType'
    <2>1. dirty' \in BOOLEAN
        BY DEF ResourceInv, StateType, Return
    <2>2. res' \in Resource(kind) /\ snap' \in Resource(kind)
        BY <1>1, <1>g DEF Updated
    <2>3. seen' \in 0..3
        BY DEF Return
    <2>f. snapFresh' \in BOOLEAN
        BY Zenon DEF Return
    <2>4. QED
        BY <2>1, <2>2, <2>3, <2>f DEF ResourceInv, StateType
<1>3. UidInv'
    <2>1. created \in Nat
        BY ResourceAssumption DEF ResourceInv, StateType
    <2>2. res'.uid <= created /\ (res'.exists <=> res'.uid # 0)
        BY <1>g, <2>1 DEF ResourceInv, UidInv, Updated
    <2>3. snap'.uid <= created /\ (snap'.exists <=> snap'.uid # 0)
        BY <1>1, <1>g, <2>1
    <2>4. QED
        BY <1>1, <2>2, <2>3 DEF ResourceInv, UidInv
<1>4. PlanInv'
    <2>1. Len(todo') = 0 /\ todo' \in Seq(ReconcileSteps)
        BY <1>1
    <2>2. \A i \in 1..Len(todo') : FALSE
        BY <2>1
    <2>3. ASSUME kind = "memory"
          PROVE  \A r \in {res', cache', snap'} : r.phase \in MemoryPhases
        BY <1>1, <1>p, <2>3 DEF ResourceInv, PlanInv, Updated, MemoryPhases
    <2>4. Rest(todo', MemoryPlan(snap'.phase))
        <3>1. Len(MemoryPlan(NoPhase)) = 2
            BY NoPhaseDistinct DEF MemoryPlan
        <3>2. snap'.phase = NoPhase
            BY <1>1, <1>p
        <3>3. Len(todo') = 0 /\ Len(MemoryPlan(snap'.phase)) = 2
            BY <2>1, <3>1, <3>2
        <3>4. QED
            BY <3>3 DEF Rest
    <2>5. QED
        BY <2>1, <2>2, <2>3, <2>4 DEF ResourceInv, PlanInv
<1>5. MemoryInv'
    <2>1. SUFFICES ASSUME kind = "memory", created = 1, res'.exists
                   PROVE  MemoryStages'
        BY DEF MemoryInv, FirstMemory
    <2>2. /\ res.exists
          /\ res'.phase \in {"Starting", "Running"} => Prepared
        BY <1>g, <2>1 DEF Updated
    <2>s. MemoryStages
        BY <2>1, <2>2 DEF ResourceInv, MemoryInv, FirstMemory
    <2>3. /\ cache.exists /\ cache.phase \in {"Starting", "Running"} => Prepared
          /\ Has("deployment") => Prepared
        BY <2>s DEF MemoryStages
    <2>4. snap'.phase \notin {"Starting", "Running"}
        BY <1>1, <1>p, NoPhaseDistinct
    <2>5. (Prepared' <=> Prepared) /\ (Has("deployment")' <=> Has("deployment"))
        BY DEF Prepared, Has
    <2>6. \A r \in {res', cache', snap'} :
             r.exists /\ r.phase \in {"Starting", "Running"} => Prepared'
        BY <2>2, <2>3, <2>4, <2>5
    <2>7. QED
        BY <1>1, <2>3, <2>5, <2>6 DEF MemoryStages
<1>6. QED
    BY <1>2, <1>3, <1>4, <1>5 DEF ResourceInv

\* A step outside the reconciler that writes the resource, or moves on in a
\* command.
LEMMA WriteKeeps ==
    ASSUME ResourceInv, Updated(res'),
           UNCHANGED <<kind, cache, snap, todo, seen, dirty, child, pods, pgpods, peer, created>>,
           cacheFresh' \in BOOLEAN, snapFresh' \in BOOLEAN,
           disturbances' \in 0..MaxDisturbances, intent' \in {"none", "up", "down"},
           cmd' \in Seq(CommandSteps),
           kind # "server" => \A i \in 1..Len(cmd') : cmd'[i] \notin {"deldep", "delsvc"}
    PROVE  ResourceInv'
<1>g. ~Gone(kind).exists /\ Gone(kind).uid = 0
    BY GoneType
<1>1. StateType'
    <2>1. res' \in Resource(kind)
        BY DEF Updated
    <2>2. QED
        BY <2>1 DEF ResourceInv, StateType
<1>2. UidInv'
    <2>1. created \in Nat
        BY ResourceAssumption DEF ResourceInv, StateType
    <2>2. res'.uid <= created /\ (res'.exists <=> res'.uid # 0)
        BY <1>g, <2>1 DEF ResourceInv, UidInv, Updated
    <2>3. QED
        BY <2>2 DEF ResourceInv, UidInv
<1>3. PlanInv'
    <2>1. kind = "memory" => res'.phase \in MemoryPhases
        BY GoneType DEF Updated, MemoryPhases
    <2>2. QED
        BY <2>1 DEF ResourceInv, PlanInv
<1>4. MemoryInv'
    <2>1. SUFFICES ASSUME kind = "memory", created = 1, res'.exists
                   PROVE  MemoryStages'
        BY DEF MemoryInv, FirstMemory
    <2>2. /\ res.exists
          /\ res'.phase \in {"Starting", "Running"} => Prepared
        BY <1>g, <2>1 DEF Updated
    <2>3. MemoryStages
        BY <2>1, <2>2 DEF ResourceInv, MemoryInv, FirstMemory
    <2>4. (Prepared' <=> Prepared) /\ \A c \in Names : Has(c)' <=> Has(c)
        BY DEF Prepared, Has
    <2>5. \A r \in {res', cache', snap'} :
             r.exists /\ r.phase \in {"Starting", "Running"} => Prepared'
        BY <2>2, <2>3, <2>4 DEF MemoryStages
    <2>6. QED
        BY <2>3, <2>4, <2>5 DEF MemoryStages, Names
<1>5. QED
    BY <1>1, <1>2, <1>3, <1>4 DEF ResourceInv

\* The creation of the resource.
LEMMA CreateKeeps ==
    ASSUME ResourceInv, NEW spec \in Specs(kind), ~res.exists,
           created < MaxUid, created' = created + 1, res' = Fresh(kind, created + 1, spec),
           UNCHANGED <<kind, cache, snap, todo, seen, dirty, child, pods, pgpods, peer>>,
           cacheFresh' \in BOOLEAN, snapFresh' \in BOOLEAN,
           disturbances' \in 0..MaxDisturbances, intent' \in {"none", "up", "down"},
           cmd' \in Seq(CommandSteps),
           kind # "server" => \A i \in 1..Len(cmd') : cmd'[i] \notin {"deldep", "delsvc"}
    PROVE  ResourceInv'
<1>1. created \in Nat /\ created + 1 \in 1..MaxUid /\ created + 1 \in 0..MaxUid
    BY ResourceAssumption DEF ResourceInv, StateType
<1>u. PICK u \in 1..MaxUid : u = created + 1
    BY <1>1
<1>f. res' = Fresh(kind, u, spec)
    BY <1>u
<1>t. /\ Fresh(kind, u, spec) \in Resource(kind)
      /\ Fresh(kind, u, spec).uid = u /\ Fresh(kind, u, spec).exists
      /\ Fresh(kind, u, spec).phase = NoPhase
    BY FreshType, Zenon
<1>2. /\ res' \in Resource(kind) /\ res'.uid = created + 1 /\ res'.exists
    BY <1>u, <1>f, <1>t
<1>p. res'.phase = NoPhase
    BY <1>f, <1>t
<1>3. StateType'
    BY <1>1, <1>2 DEF ResourceInv, StateType
<1>4. UidInv'
    <2>u. \A r \in {cache, snap} : r.uid \in Nat
        BY CopyUids
    <2>1. \A r \in {cache, snap} : r.uid <= created + 1 /\ (r.exists <=> r.uid # 0)
        BY <1>1, <2>u DEF ResourceInv, UidInv
    <2>2. \A c \in Names : child[c].uid <= created + 1
        BY <1>1 DEF ResourceInv, UidInv, StateType
    <2>3. todo # <<>> => snap.exists
        BY DEF ResourceInv, UidInv
    <2>4. res'.uid <= created + 1 /\ (res'.exists <=> res'.uid # 0)
        BY <1>1, <1>2
    <2>5. QED
        BY <2>1, <2>2, <2>3, <2>4 DEF UidInv
<1>5. PlanInv'
    <2>1. res'.phase \in MemoryPhases
        BY <1>p DEF MemoryPhases
    <2>2. QED
        BY <2>1 DEF ResourceInv, PlanInv
<1>6. MemoryInv'
    <2>1. SUFFICES ASSUME created' = 1
                   PROVE  MemoryStages'
        BY DEF MemoryInv, FirstMemory
    <2>2. created = 0
        BY <1>1, <2>1
    <2>u. \A r \in {cache, snap} : r.uid \in Nat
        BY CopyUids
    <2>3. ~cache.exists /\ ~snap.exists
        BY <2>2, <2>u DEF ResourceInv, UidInv
    <2>4. ~Has("deployment")
        BY <2>2 DEF ResourceInv, UidInv, StateType, Has, Names
    <2>5. todo' = <<>> /\ ~Has("deployment")'
        BY <2>3, <2>4 DEF ResourceInv, UidInv, Has
    <2>6. \A r \in {res', cache', snap'} : ~(r.exists /\ r.phase \in {"Starting", "Running"})
        BY <1>p, <2>3, NoPhaseDistinct
    <2>7. QED
        BY <2>5, <2>6 DEF MemoryStages
<1>7. QED
    BY <1>3, <1>4, <1>5, <1>6 DEF ResourceInv

-----------------------------------------------------------------------------
(* What the writes leave *)

\* A write that keeps the identity and the phase.
LEMMA SamePhase ==
    ASSUME ResourceInv, NEW r \in Resource(kind),
           r.uid = res.uid, r.exists = res.exists, r.phase = res.phase
    PROVE  Updated(r)
<1>1. kind = "memory" => r.phase \in MemoryPhases
    BY DEF ResourceInv, PlanInv
<1>2. ASSUME kind = "memory", created = 1, res.exists, r.phase \in {"Starting", "Running"}
      PROVE  Prepared
    <2>1. MemoryStages
        BY <1>2 DEF ResourceInv, MemoryInv, FirstMemory
    <2>2. QED
        BY <1>2, <2>1 DEF MemoryStages
<1>3. QED
    BY <1>1, <1>2 DEF Updated

\* The resource as it is.
LEMMA SameUpdated ==
    ASSUME ResourceInv
    PROVE  Updated(res)
BY SamePhase DEF ResourceInv, StateType

\* A resource that is deleted.
LEMMA GoneUpdated ==
    Updated(Gone(kind))
BY GoneType DEF Updated

\* A write of the phase.
LEMMA PhaseUpdated ==
    ASSUME ResourceInv, NEW p \in Phases,
           kind = "memory" =>
              /\ p \in MemoryPhases
              /\ p \in {"Starting", "Running"} /\ created = 1 /\ res.exists => Prepared
    PROVE  Updated([res EXCEPT !.phase = p])
<1>1. res \in Resource(kind)
    BY DEF ResourceInv, StateType
<1>2. /\ [res EXCEPT !.phase = p] \in Resource(kind)
      /\ [res EXCEPT !.phase = p].uid = res.uid
      /\ [res EXCEPT !.phase = p].exists = res.exists
    BY <1>1 DEF Resource
<1>3. [res EXCEPT !.phase = p].phase = p
    BY <1>1 DEF Resource
<1>4. QED
    BY <1>2, <1>3 DEF Updated

\* The cache stays fresh or becomes old.
LEMMA WriteType ==
    ASSUME NEW r, Write(r)
    PROVE  res' = r /\ cacheFresh' \in BOOLEAN
BY DEF Write

\* The steps that are left of a sequence when its first is taken.
LEMMA RestOfTail ==
    ASSUME NEW S, NEW s \in Seq(S), s # <<>>, NEW T, NEW plan \in Seq(T), Rest(s, plan)
    PROVE  Rest(Tail(s), plan)
<1>1. /\ Len(s) \in Nat /\ Len(s) >= 1 /\ Len(plan) \in Nat /\ Len(Tail(s)) = Len(s) - 1
      /\ \A i \in 1..Len(Tail(s)) : Tail(s)[i] = s[i + 1]
    BY HeadTailProperties, EmptySeq, LenProperties
<1>2. /\ Len(s) <= Len(plan)
      /\ \A i \in 1..Len(s) : s[i] = plan[Len(plan) - Len(s) + i]
    BY DEF Rest
<1>3. ASSUME NEW i \in 1..Len(Tail(s))
      PROVE  Tail(s)[i] = plan[Len(plan) - Len(Tail(s)) + i]
    <2>1. i \in Nat /\ i + 1 \in 1..Len(s)
        BY <1>1
    <2>2. Tail(s)[i] = plan[Len(plan) - Len(s) + (i + 1)]
        BY <1>1, <1>2, <2>1
    <2>3. Len(plan) - Len(s) + (i + 1) = Len(plan) - Len(Tail(s)) + i
        BY <1>1, <2>1
    <2>4. QED
        BY <2>2, <2>3
<1>4. Len(Tail(s)) <= Len(plan)
    BY <1>1, <1>2
<1>5. QED
    BY <1>3, <1>4 DEF Rest

\* The steps that are left, and those of a plan.
Left == Len(todo)
PlanLength(p) == Len(MemoryPlan(p))

\* The plans of a memory server.
LEMMA MemoryPlans ==
    /\ MemoryPlan(NoPhase) \in Seq(ReconcileSteps) /\ PlanLength(NoPhase) = 2
    /\ MemoryPlan(NoPhase)[1] = "pending"
    /\ MemoryPlan(NoPhase)[2] = "creating"
    /\ MemoryPlan("Pending") \in Seq(ReconcileSteps) /\ PlanLength("Pending") = 1
    /\ MemoryPlan("Pending")[1] = "creating"
    /\ MemoryPlan("Creating") \in Seq(ReconcileSteps) /\ PlanLength("Creating") = 7
    /\ MemoryPlan("Creating")[1] = "pvc"
    /\ MemoryPlan("Creating")[2] = "pgdeployment"
    /\ MemoryPlan("Creating")[3] = "secret"
    /\ MemoryPlan("Creating")[4] = "configmap"
    /\ MemoryPlan("Creating")[5] = "service"
    /\ MemoryPlan("Creating")[6] = "deployment"
    /\ MemoryPlan("Creating")[7] = "starting"
    /\ MemoryPlan("Starting") \in Seq(ReconcileSteps) /\ PlanLength("Starting") = 1
    /\ MemoryPlan("Starting")[1] = "startup"
    /\ MemoryPlan("Running") \in Seq(ReconcileSteps) /\ PlanLength("Running") = 2
    /\ MemoryPlan("Running")[1] = "deployment"
    /\ MemoryPlan("Running")[2] = "health"
<1>3. /\ MemoryPlan(NoPhase) \in Seq(ReconcileSteps) /\ PlanLength(NoPhase) = 2
      /\ MemoryPlan(NoPhase)[1] = "pending"
      /\ MemoryPlan(NoPhase)[2] = "creating"
    <2>1. MemoryPlan(NoPhase) = <<"pending", "creating">>
        BY NoPhaseDistinct DEF MemoryPlan
    <2>s. "pending" \in ReconcileSteps /\ "creating" \in ReconcileSteps
        BY DEF ReconcileSteps, Names
    <2>t. <<"pending", "creating">> \in Seq(ReconcileSteps)
        BY <2>s
    <2>2. MemoryPlan(NoPhase) \in Seq(ReconcileSteps)
        BY <2>1, <2>t
    <2>3. PlanLength(NoPhase) = 2
        BY <2>1 DEF PlanLength
    <2>4. QED
        BY <2>1, <2>2, <2>3
<1>4. /\ MemoryPlan("Pending") \in Seq(ReconcileSteps) /\ PlanLength("Pending") = 1
      /\ MemoryPlan("Pending")[1] = "creating"
    <2>1. MemoryPlan("Pending") = <<"creating">>
        BY NoPhaseDistinct DEF MemoryPlan
    <2>s. "creating" \in ReconcileSteps
        BY DEF ReconcileSteps, Names
    <2>t. <<"creating">> \in Seq(ReconcileSteps)
        BY <2>s
    <2>2. MemoryPlan("Pending") \in Seq(ReconcileSteps)
        BY <2>1, <2>t
    <2>3. PlanLength("Pending") = 1
        BY <2>1 DEF PlanLength
    <2>4. QED
        BY <2>1, <2>2, <2>3
<1>5. /\ MemoryPlan("Creating") \in Seq(ReconcileSteps) /\ PlanLength("Creating") = 7
      /\ MemoryPlan("Creating")[1] = "pvc"
      /\ MemoryPlan("Creating")[2] = "pgdeployment"
      /\ MemoryPlan("Creating")[3] = "secret"
      /\ MemoryPlan("Creating")[4] = "configmap"
      /\ MemoryPlan("Creating")[5] = "service"
      /\ MemoryPlan("Creating")[6] = "deployment"
      /\ MemoryPlan("Creating")[7] = "starting"
    <2>1. MemoryPlan("Creating") = <<"pvc", "pgdeployment", "secret", "configmap", "service",
                                      "deployment", "starting">>
        BY NoPhaseDistinct DEF MemoryPlan
    <2>s. /\ "pvc" \in ReconcileSteps /\ "pgdeployment" \in ReconcileSteps
          /\ "secret" \in ReconcileSteps /\ "configmap" \in ReconcileSteps
          /\ "service" \in ReconcileSteps /\ "deployment" \in ReconcileSteps
          /\ "starting" \in ReconcileSteps
        BY DEF ReconcileSteps, Names
    <2>t. <<"pvc", "pgdeployment", "secret", "configmap", "service", "deployment", "starting">>
             \in Seq(ReconcileSteps)
        BY <2>s
    <2>2. MemoryPlan("Creating") \in Seq(ReconcileSteps)
        BY <2>1, <2>t
    <2>3. PlanLength("Creating") = 7
        BY <2>1 DEF PlanLength
    <2>4. QED
        BY <2>1, <2>2, <2>3
<1>6. /\ MemoryPlan("Starting") \in Seq(ReconcileSteps) /\ PlanLength("Starting") = 1
      /\ MemoryPlan("Starting")[1] = "startup"
    <2>1. MemoryPlan("Starting") = <<"startup">>
        BY NoPhaseDistinct DEF MemoryPlan
    <2>s. "startup" \in ReconcileSteps
        BY DEF ReconcileSteps, Names
    <2>t. <<"startup">> \in Seq(ReconcileSteps)
        BY <2>s
    <2>2. MemoryPlan("Starting") \in Seq(ReconcileSteps)
        BY <2>1, <2>t
    <2>3. PlanLength("Starting") = 1
        BY <2>1 DEF PlanLength
    <2>4. QED
        BY <2>1, <2>2, <2>3
<1>7. /\ MemoryPlan("Running") \in Seq(ReconcileSteps) /\ PlanLength("Running") = 2
      /\ MemoryPlan("Running")[1] = "deployment"
      /\ MemoryPlan("Running")[2] = "health"
    <2>1. MemoryPlan("Running") = <<"deployment", "health">>
        BY NoPhaseDistinct DEF MemoryPlan
    <2>s. "deployment" \in ReconcileSteps /\ "health" \in ReconcileSteps
        BY DEF ReconcileSteps, Names
    <2>t. <<"deployment", "health">> \in Seq(ReconcileSteps)
        BY <2>s
    <2>2. MemoryPlan("Running") \in Seq(ReconcileSteps)
        BY <2>1, <2>t
    <2>3. PlanLength("Running") = 2
        BY <2>1 DEF PlanLength
    <2>4. QED
        BY <2>1, <2>2, <2>3
<1>8. QED
    BY <1>3, <1>4, <1>5, <1>6, <1>7

\* Where a reconcile of a memory server is, by the phase it read.
LEMMA MemoryHead ==
    ASSUME ResourceInv, kind = "memory", todo # <<>>
    PROVE  /\ Left \in Nat \ {0}
           /\ \/ snap.phase = NoPhase /\ Left = 2 /\ Head(todo) = "pending"
              \/ snap.phase = NoPhase /\ Left = 1 /\ Head(todo) = "creating"
              \/ snap.phase = "Pending" /\ Left = 1 /\ Head(todo) = "creating"
              \/ snap.phase = "Creating" /\ Left = 7 /\ Head(todo) = "pvc"
              \/ snap.phase = "Creating" /\ Left = 6 /\ Head(todo) = "pgdeployment"
              \/ snap.phase = "Creating" /\ Left = 5 /\ Head(todo) = "secret"
              \/ snap.phase = "Creating" /\ Left = 4 /\ Head(todo) = "configmap"
              \/ snap.phase = "Creating" /\ Left = 3 /\ Head(todo) = "service"
              \/ snap.phase = "Creating" /\ Left = 2 /\ Head(todo) = "deployment"
              \/ snap.phase = "Creating" /\ Left = 1 /\ Head(todo) = "starting"
              \/ snap.phase = "Starting" /\ Left = 1 /\ Head(todo) = "startup"
              \/ snap.phase = "Running" /\ Left = 2 /\ Head(todo) = "deployment"
              \/ snap.phase = "Running" /\ Left = 1 /\ Head(todo) = "health"
<1>1. /\ todo \in Seq(ReconcileSteps) /\ Rest(todo, MemoryPlan(snap.phase))
      /\ snap.phase \in MemoryPhases
    BY DEF ResourceInv, PlanInv
<1>2. Left \in Nat \ {0}
    BY <1>1, EmptySeq DEF Left
<1>3. /\ Left <= PlanLength(snap.phase)
      /\ Head(todo) = MemoryPlan(snap.phase)[PlanLength(snap.phase) - Left + 1]
    <2>1. Head(todo) = todo[1]
        BY <1>1
    <2>2. QED
        BY <1>1, <1>2, <2>1 DEF Rest, Left, PlanLength
<1>4. CASE snap.phase = NoPhase
    <2>1. PlanLength(snap.phase) = 2 /\ MemoryPlan(snap.phase) = MemoryPlan(NoPhase)
        BY <1>4, MemoryPlans
    <2>2. Left \in 1..2
        BY <1>2, <1>3, <2>1
    <2>3. Left = 1 => Head(todo) = "creating"
        <3>1. MemoryPlan(NoPhase)[2] = "creating"
            BY MemoryPlans
        <3>2. QED
            BY <1>3, <2>1, <3>1
    <2>4. Left = 2 => Head(todo) = "pending"
        <3>1. MemoryPlan(NoPhase)[1] = "pending"
            BY MemoryPlans
        <3>2. QED
            BY <1>3, <2>1, <3>1
    <2>5. QED
        BY <1>2, <1>4, <2>2, <2>3, <2>4
<1>5. CASE snap.phase = "Pending"
    <2>1. PlanLength(snap.phase) = 1 /\ MemoryPlan(snap.phase) = MemoryPlan("Pending")
        BY <1>5, MemoryPlans
    <2>2. Left \in 1..1
        BY <1>2, <1>3, <2>1
    <2>3. Left = 1 => Head(todo) = "creating"
        <3>1. MemoryPlan("Pending")[1] = "creating"
            BY MemoryPlans
        <3>2. QED
            BY <1>3, <2>1, <3>1
    <2>4. QED
        BY <1>2, <1>5, <2>2, <2>3
<1>6. CASE snap.phase = "Creating"
    <2>1. PlanLength(snap.phase) = 7 /\ MemoryPlan(snap.phase) = MemoryPlan("Creating")
        BY <1>6, MemoryPlans
    <2>2. Left \in 1..7
        BY <1>2, <1>3, <2>1
    <2>3. Left = 1 => Head(todo) = "starting"
        <3>1. MemoryPlan("Creating")[7] = "starting"
            BY MemoryPlans
        <3>2. QED
            BY <1>3, <2>1, <3>1
    <2>4. Left = 2 => Head(todo) = "deployment"
        <3>1. MemoryPlan("Creating")[6] = "deployment"
            BY MemoryPlans
        <3>2. QED
            BY <1>3, <2>1, <3>1
    <2>5. Left = 3 => Head(todo) = "service"
        <3>1. MemoryPlan("Creating")[5] = "service"
            BY MemoryPlans
        <3>2. QED
            BY <1>3, <2>1, <3>1
    <2>6. Left = 4 => Head(todo) = "configmap"
        <3>1. MemoryPlan("Creating")[4] = "configmap"
            BY MemoryPlans
        <3>2. QED
            BY <1>3, <2>1, <3>1
    <2>7. Left = 5 => Head(todo) = "secret"
        <3>1. MemoryPlan("Creating")[3] = "secret"
            BY MemoryPlans
        <3>2. QED
            BY <1>3, <2>1, <3>1
    <2>8. Left = 6 => Head(todo) = "pgdeployment"
        <3>1. MemoryPlan("Creating")[2] = "pgdeployment"
            BY MemoryPlans
        <3>2. QED
            BY <1>3, <2>1, <3>1
    <2>9. Left = 7 => Head(todo) = "pvc"
        <3>1. MemoryPlan("Creating")[1] = "pvc"
            BY MemoryPlans
        <3>2. QED
            BY <1>3, <2>1, <3>1
    <2>10. QED
        BY <1>2, <1>6, <2>2, <2>3, <2>4, <2>5, <2>6, <2>7, <2>8, <2>9
<1>7. CASE snap.phase = "Starting"
    <2>1. PlanLength(snap.phase) = 1 /\ MemoryPlan(snap.phase) = MemoryPlan("Starting")
        BY <1>7, MemoryPlans
    <2>2. Left \in 1..1
        BY <1>2, <1>3, <2>1
    <2>3. Left = 1 => Head(todo) = "startup"
        <3>1. MemoryPlan("Starting")[1] = "startup"
            BY MemoryPlans
        <3>2. QED
            BY <1>3, <2>1, <3>1
    <2>4. QED
        BY <1>2, <1>7, <2>2, <2>3
<1>8. CASE snap.phase = "Running"
    <2>1. PlanLength(snap.phase) = 2 /\ MemoryPlan(snap.phase) = MemoryPlan("Running")
        BY <1>8, MemoryPlans
    <2>2. Left \in 1..2
        BY <1>2, <1>3, <2>1
    <2>3. Left = 1 => Head(todo) = "health"
        <3>1. MemoryPlan("Running")[2] = "health"
            BY MemoryPlans
        <3>2. QED
            BY <1>3, <2>1, <3>1
    <2>4. Left = 2 => Head(todo) = "deployment"
        <3>1. MemoryPlan("Running")[1] = "deployment"
            BY MemoryPlans
        <3>2. QED
            BY <1>3, <2>1, <3>1
    <2>5. QED
        BY <1>2, <1>8, <2>2, <2>3, <2>4
<1>9. QED
    BY <1>1, <1>4, <1>5, <1>6, <1>7, <1>8 DEF MemoryPhases

-----------------------------------------------------------------------------
(* The steps of a reconcile *)

\* What a step that returns leaves alone.
Outside == UNCHANGED <<kind, cache, clusterVars, cmd, created, intent>>

\* The disturbances stay within their bound.
LEMMA Bounded ==
    ASSUME ResourceInv, Disturb \/ UNCHANGED disturbances
    PROVE  disturbances' \in 0..MaxDisturbances
BY ResourceAssumption DEF ResourceInv, StateType, Disturb

\* A reconcile that writes the resource and returns.
LEMMA ReturnWrite ==
    ASSUME ResourceInv, NEW b \in BOOLEAN, NEW r, Updated(r), Write(r),
           Return(b), Outside, disturbances' \in 0..MaxDisturbances
    PROVE  ResourceInv'
<1>1. Updated(res') /\ cacheFresh' \in BOOLEAN
    BY WriteType
<1>2. QED
    BY <1>1, ReturnKeeps DEF Outside, clusterVars

\* A reconcile that returns and writes nothing.
LEMMA ReturnSame ==
    ASSUME ResourceInv, NEW b \in BOOLEAN, UNCHANGED <<res, cacheFresh>>,
           Return(b), Outside, disturbances' \in 0..MaxDisturbances
    PROVE  ResourceInv'
<1>1. Updated(res') /\ cacheFresh' \in BOOLEAN
    BY SameUpdated DEF ResourceInv, StateType
<1>2. QED
    BY <1>1, ReturnKeeps DEF Outside, clusterVars

\* A reconcile that ends with a status update, accepted or refused.
LEMMA SetPhaseKeeps ==
    ASSUME ResourceInv, NEW p \in Phases, NEW b \in BOOLEAN,
           kind = "memory" =>
              /\ p \in MemoryPhases
              /\ p \in {"Starting", "Running"} /\ created = 1 /\ res.exists => Prepared,
           SetPhase(p, b), Outside, disturbances' \in 0..MaxDisturbances
    PROVE  ResourceInv'
<1>1. CASE Accepted
    <2>1. Updated([res EXCEPT !.phase = p])
        BY PhaseUpdated
    <2>2. Write([res EXCEPT !.phase = p]) /\ Return(b)
        BY <1>1 DEF SetPhase
    <2>3. QED
        BY <2>1, <2>2, ReturnWrite
<1>2. CASE ~Accepted
    <2>1. UNCHANGED <<res, cacheFresh>> /\ Return(TRUE)
        BY <1>2 DEF SetPhase
    <2>2. QED
        BY <2>1, ReturnSame
<1>3. QED
    BY <1>1, <1>2

\* The finalizer is added, or removed with the resource.
LEMMA StepFinalizer ==
    ASSUME ResourceInv, Finalizer,
           UNCHANGED <<cmd, created, intent>>
    PROVE  ResourceInv'
<1>1. Outside /\ disturbances' \in 0..MaxDisturbances
    BY Bounded DEF Finalizer, Outside
<1>2. CASE Accepted /\ Head(todo) = "finalize"
    <2>1. Write([res EXCEPT !.fin = TRUE]) /\ Return(FALSE)
        BY <1>2 DEF Finalizer
    <2>2. res \in Resource(kind)
        BY DEF ResourceInv, StateType
    <2>3. [res EXCEPT !.fin = TRUE] \in Resource(kind)
        BY <2>2 DEF Resource
    <2>4. /\ [res EXCEPT !.fin = TRUE].uid = res.uid
          /\ [res EXCEPT !.fin = TRUE].exists = res.exists
          /\ [res EXCEPT !.fin = TRUE].phase = res.phase
        BY <2>2 DEF Resource
    <2>5. Updated([res EXCEPT !.fin = TRUE])
        BY <2>3, <2>4, SamePhase
    <2>6. QED
        BY <1>1, <2>1, <2>5, ReturnWrite
<1>3. CASE Accepted /\ Head(todo) # "finalize"
    <2>1. Write(Gone(kind)) /\ Return(FALSE)
        BY <1>3 DEF Finalizer
    <2>2. QED
        BY <1>1, <2>1, GoneUpdated, ReturnWrite
<1>4. CASE ~Accepted
    <2>1. UNCHANGED <<res, cacheFresh>> /\ Return(TRUE)
        BY <1>4 DEF Finalizer
    <2>2. QED
        BY <1>1, <2>1, ReturnSame
<1>5. QED
    BY <1>2, <1>3, <1>4

\* updateStatus of the server.
LEMMA ServerStatusKeeps ==
    ASSUME ResourceInv, serverStatus,
           UNCHANGED <<cmd, created, intent>>
    PROVE  ResourceInv'
<1>1. Outside /\ disturbances' \in 0..MaxDisturbances /\ kind = "server"
    BY Bounded DEF serverStatus, Outside
<1>2. PICK p \in Phases : SetPhase(p, TRUE)
    <2>1. (CASE seen > 1 -> "Running" [] seen = 1 -> "Starting" [] OTHER -> "Creating") \in Phases
        BY DEF Phases
    <2>2. QED
        BY <2>1 DEF serverStatus
<1>3. QED
    BY <1>1, <1>2, SetPhaseKeeps

\* updateDeploymentStatus of the proxy.
LEMMA ProxyStatusKeeps ==
    ASSUME ResourceInv, proxyStatus,
           UNCHANGED <<cmd, created, intent>>
    PROVE  ResourceInv'
<1>1. Outside /\ disturbances' \in 0..MaxDisturbances /\ kind = "proxy"
    BY Bounded DEF proxyStatus, Outside
<1> DEFINE p == IF pods > 1 THEN "Running" ELSE "Starting"
           new == [pods |-> pods, gen |-> snap.gen]
           w == [res EXCEPT !.phase = p, !.status = new, !.discovered = snap.discovered]
<1>2. CASE ~Has("deployment") \/ (snap.phase = p /\ snap.status = new)
    <2>1. UNCHANGED <<res, cacheFresh>> /\ Return(~Has("deployment"))
        BY <1>2 DEF proxyStatus
    <2>2. (~Has("deployment")) \in BOOLEAN
        BY DEF Has
    <2>3. QED
        BY <1>1, <2>1, <2>2, ReturnSame
<1>3. CASE /\ ~(~Has("deployment") \/ (snap.phase = p /\ snap.status = new))
           /\ Accepted
    <2>1. Write(w) /\ Return(FALSE)
        BY <1>3 DEF proxyStatus
    <2>2. res \in Resource(kind) /\ snap \in Resource(kind) /\ pods \in 0..3
        BY DEF ResourceInv, StateType
    <2>3. p \in Phases
        BY DEF Phases
    <2>4. new \in [pods : 0..3, gen : Nat] /\ snap.discovered \in BOOLEAN
        BY <2>2 DEF Resource
    <2>5. w \in Resource(kind) /\ w.uid = res.uid /\ w.exists = res.exists
        <3> HIDE DEF p, new
        <3>1. QED
            BY <2>2, <2>3, <2>4 DEF Resource
    <2>6. Updated(w)
        BY <1>1, <2>5 DEF Updated
    <2>7. QED
        BY <1>1, <2>1, <2>6, ReturnWrite
<1>4. CASE /\ ~(~Has("deployment") \/ (snap.phase = p /\ snap.status = new))
           /\ ~Accepted
    <2>1. UNCHANGED <<res, cacheFresh>> /\ Return(TRUE)
        BY <1>4 DEF proxyStatus
    <2>2. QED
        BY <1>1, <2>1, ReturnSame
<1>5. QED
    BY <1>2, <1>3, <1>4

\* An error of a step; a step of Postgres that fails is one that makes an object.
LEMMA ReturnErrorKeeps ==
    ASSUME ResourceInv, NEW c, ReturnError(c), Outside,
           kind = "postgres" => c \in Names, disturbances' \in 0..MaxDisturbances
    PROVE  ResourceInv'
<1>1. CASE kind = "proxy" /\ c \in {"deployment", "service", "ingress"}
    <2>1. Return(TRUE) /\ (Write([res EXCEPT !.phase = "Failed"]) \/ UNCHANGED <<res, cacheFresh>>)
        BY <1>1 DEF ReturnError
    <2>2. Updated([res EXCEPT !.phase = "Failed"])
        BY <1>1, PhaseUpdated DEF Phases
    <2>3. CASE Write([res EXCEPT !.phase = "Failed"])
        BY <2>1, <2>2, <2>3, ReturnWrite
    <2>4. CASE UNCHANGED <<res, cacheFresh>>
        BY <2>1, <2>4, ReturnSame
    <2>5. QED
        BY <2>1, <2>3, <2>4
<1>2. CASE kind = "postgres"
    <2> DEFINE w == [res EXCEPT !.phase = "Failed", !.error = c]
    <2>1. CASE Accepted
        <3>1. Write(w) /\ Return(FALSE)
            BY <1>2, <2>1 DEF ReturnError
        <3>2. res \in Resource(kind) /\ "Failed" \in Phases /\ c \in Names \cup {NoError}
            BY <1>2 DEF ResourceInv, StateType, Phases
        <3>3. w \in Resource(kind) /\ w.uid = res.uid /\ w.exists = res.exists
            BY <3>2 DEF Resource
        <3>4. Updated(w)
            BY <1>2, <3>3 DEF Updated
        <3>5. QED
            BY <3>1, <3>4, ReturnWrite
    <2>2. CASE ~Accepted
        <3>1. UNCHANGED <<res, cacheFresh>> /\ Return(TRUE)
            BY <1>2, <2>2 DEF ReturnError
        <3>2. QED
            BY <3>1, ReturnSame
    <2>3. QED
        BY <2>1, <2>2
<1>3. CASE ~(kind = "proxy" /\ c \in {"deployment", "service", "ingress"}) /\ kind # "postgres"
    <2>1. UNCHANGED <<res, cacheFresh>> /\ Return(TRUE)
        BY <1>3 DEF ReturnError
    <2>2. QED
        BY <2>1, ReturnSame
<1>4. QED
    BY <1>1, <1>2, <1>3

\* checkAndUpdateStatus of Postgres.
LEMMA PostgresStatusKeeps ==
    ASSUME ResourceInv, postgresStatus,
           UNCHANGED <<cmd, created, intent>>
    PROVE  ResourceInv'
<1>1. Outside /\ disturbances' \in 0..MaxDisturbances /\ kind = "postgres"
    BY Bounded DEF postgresStatus, Outside
<1> DEFINE p == CASE pods = 3 -> "Running" [] pods = 2 -> "Degraded" [] OTHER -> "Creating"
           w == [res EXCEPT !.error = NoError, !.phase = p]
<1>2. CASE Has("deployment") /\ Accepted
    <2>1. Write(w) /\ Return(FALSE)
        BY <1>2 DEF postgresStatus
    <2>2. p \in Phases
        BY DEF Phases
    <2>3. res \in Resource(kind) /\ NoError \in Names \cup {NoError}
        BY DEF ResourceInv, StateType
    <2>4. w \in Resource(kind) /\ w.uid = res.uid /\ w.exists = res.exists
        <3> HIDE DEF p
        <3>1. QED
            BY <2>2, <2>3 DEF Resource
    <2>5. Updated(w)
        BY <1>1, <2>4 DEF Updated
    <2>6. QED
        BY <1>1, <2>1, <2>5, ReturnWrite
<1>3. CASE Has("deployment") /\ ~Accepted
    <2>1. UNCHANGED <<res, cacheFresh>> /\ Return(TRUE)
        BY <1>3 DEF postgresStatus
    <2>2. QED
        BY <1>1, <2>1, ReturnSame
<1>4. CASE ~Has("deployment")
    <2>1. ReturnError("deployment")
        BY <1>4 DEF postgresStatus
    <2>2. "deployment" \in Names
        BY DEF Names
    <2>3. QED
        BY <1>1, <2>1, <2>2, ReturnErrorKeeps
<1>5. QED
    BY <1>2, <1>3, <1>4

\* A step that makes an object, or discovers, fails.
LEMMA EnsureFailsKeeps ==
    ASSUME ResourceInv, EnsureFails,
           UNCHANGED <<cmd, created, intent>>
    PROVE  ResourceInv'
<1>1. Outside /\ disturbances' \in 0..MaxDisturbances
    BY Bounded DEF EnsureFails, Outside
<1>2. ReturnError(Head(todo)) /\ todo # <<>> /\ Head(todo) \in Names \cup {"discover"}
    BY DEF EnsureFails, At
<1>3. ASSUME kind = "postgres" PROVE Head(todo) \in Names
    <2>1. todo \in Seq(ReconcileSteps) /\ \A i \in 1..Len(todo) : todo[i] # "discover"
        BY <1>3 DEF ResourceInv, PlanInv
    <2>2. Head(todo) = todo[1] /\ 1 \in 1..Len(todo)
        BY <1>2, <2>1, EmptySeq
    <2>3. QED
        BY <1>2, <2>1, <2>2
<1>4. QED
    BY <1>1, <1>2, <1>3, ReturnErrorKeeps

\* A reconcile of a memory server that has one step left to leave Creating, or
\* that is Starting, has what the Deployment needs.
LEMMA CreatedIsPrepared ==
    ASSUME ResourceInv, FirstMemory, todo # <<>>, Head(todo) \in {"starting", "startup"}
    PROVE  Prepared
<1>1. kind = "memory" /\ MemoryStages
    BY DEF ResourceInv, MemoryInv, FirstMemory
<1>2. snap.exists
    BY DEF ResourceInv, UidInv
<1>3. \/ snap.phase = "Creating" /\ Left = 1
      \/ snap.phase = "Starting"
    BY <1>1, MemoryHead
<1>4. CASE snap.phase = "Creating" /\ Left = 1
    <2>1. /\ Left < 5 => Has("secret")
          /\ Left < 4 => Has("configmap")
          /\ Left < 3 => Has("service")
        BY <1>1, <1>4 DEF MemoryStages, Left
    <2>2. QED
        BY <1>4, <2>1 DEF Prepared, Needed
<1>5. CASE snap.phase = "Starting"
    BY <1>1, <1>2, <1>5 DEF MemoryStages
<1>6. QED
    BY <1>3, <1>4, <1>5

\* reconcilePending and the end of reconcileCreating.
LEMMA MemoryPhaseKeeps ==
    ASSUME ResourceInv, memoryPhase,
           UNCHANGED <<cmd, created, intent>>
    PROVE  ResourceInv'
<1>1. Outside /\ disturbances' \in 0..MaxDisturbances /\ kind = "memory" /\ todo # <<>>
    BY Bounded DEF memoryPhase, Outside, At
<1>2. Head(todo) \in {"creating", "starting"}
    BY DEF memoryPhase, At
<1>3. CASE Head(todo) = "creating"
    <2>1. SetPhase("Creating", TRUE)
        BY <1>3 DEF memoryPhase
    <2>2. "Creating" \in Phases /\ "Creating" \in MemoryPhases
        BY DEF Phases, MemoryPhases
    <2>3. QED
        BY <1>1, <2>1, <2>2, SetPhaseKeeps
<1>4. CASE Head(todo) = "starting"
    <2>1. SetPhase("Starting", FALSE)
        BY <1>4 DEF memoryPhase
    <2>2. "Starting" \in Phases /\ "Starting" \in MemoryPhases
        BY DEF Phases, MemoryPhases
    <2>3. created = 1 /\ res.exists => Prepared
        BY <1>1, <1>4, CreatedIsPrepared DEF FirstMemory
    <2>4. QED
        BY <1>1, <2>1, <2>2, <2>3, SetPhaseKeeps
<1>5. QED
    BY <1>2, <1>3, <1>4

\* reconcileStarting of the memory server.
LEMMA StartingKeeps ==
    ASSUME ResourceInv, reconcileStarting,
           UNCHANGED <<cmd, created, intent>>
    PROVE  ResourceInv'
<1>1. Outside /\ disturbances' \in 0..MaxDisturbances /\ kind = "memory" /\ todo # <<>>
    BY Bounded DEF reconcileStarting, Outside, At
<1>2. Head(todo) = "startup"
    BY DEF reconcileStarting, At
<1>3. \/ UNCHANGED <<res, cacheFresh>> /\ Return(Has("pgdeployment") /\ ~Accepted)
      \/ SetPhase("Creating", TRUE)
      \/ SetPhase("Running", FALSE)
      \/ UNCHANGED <<res, cacheFresh>> /\ Return(FALSE)
    BY DEF reconcileStarting
<1>4. CASE UNCHANGED <<res, cacheFresh>> /\ Return(Has("pgdeployment") /\ ~Accepted)
    <2>1. (Has("pgdeployment") /\ ~Accepted) \in BOOLEAN
        BY DEF Has
    <2>2. QED
        BY <1>1, <1>4, <2>1, ReturnSame
<1>5. CASE SetPhase("Creating", TRUE)
    <2>1. "Creating" \in Phases /\ "Creating" \in MemoryPhases
        BY DEF Phases, MemoryPhases
    <2>2. QED
        BY <1>1, <1>5, <2>1, SetPhaseKeeps
<1>6. CASE SetPhase("Running", FALSE)
    <2>1. "Running" \in Phases /\ "Running" \in MemoryPhases
        BY DEF Phases, MemoryPhases
    <2>2. created = 1 /\ res.exists => Prepared
        BY <1>1, <1>2, CreatedIsPrepared DEF FirstMemory
    <2>3. QED
        BY <1>1, <1>6, <2>1, <2>2, SetPhaseKeeps
<1>7. CASE UNCHANGED <<res, cacheFresh>> /\ Return(FALSE)
    BY <1>1, <1>7, ReturnSame
<1>8. QED
    BY <1>3, <1>4, <1>5, <1>6, <1>7

\* The health check of the memory server.
LEMMA RunningKeeps ==
    ASSUME ResourceInv, reconcileRunning,
           UNCHANGED <<cmd, created, intent>>
    PROVE  ResourceInv'
<1>1. Outside /\ disturbances' \in 0..MaxDisturbances
    BY Bounded DEF reconcileRunning, Outside
<1> DEFINE w == [res EXCEPT !.healthy = pods > 1]
<1>2. \/ UNCHANGED <<res, cacheFresh>> /\ Return(FALSE)
      \/ Write(w) /\ Return(FALSE)
      \/ UNCHANGED <<res, cacheFresh>> /\ Return(TRUE)
    BY DEF reconcileRunning
<1>3. Updated(w)
    <2>1. res \in Resource(kind) /\ (pods > 1) \in BOOLEAN
        BY DEF ResourceInv, StateType
    <2>2. w \in Resource(kind)
        BY <2>1 DEF Resource
    <2>3. w.uid = res.uid /\ w.exists = res.exists /\ w.phase = res.phase
        BY <2>1 DEF Resource
    <2>4. QED
        BY <2>2, <2>3, SamePhase
<1>4. CASE UNCHANGED <<res, cacheFresh>> /\ Return(FALSE)
    BY <1>1, <1>4, ReturnSame
<1>5. CASE Write(w) /\ Return(FALSE)
    BY <1>1, <1>3, <1>5, ReturnWrite
<1>6. CASE UNCHANGED <<res, cacheFresh>> /\ Return(TRUE)
    BY <1>1, <1>6, ReturnSame
<1>7. QED
    BY <1>2, <1>4, <1>5, <1>6

-----------------------------------------------------------------------------
(* The plans of a reconcile *)

\* A plan of which no step was taken.
LEMMA RestOfItself ==
    ASSUME NEW T, NEW plan \in Seq(T)
    PROVE  Rest(plan, plan)
<1>1. Len(plan) \in Nat
    BY LenProperties
<1>2. \A i \in 1..Len(plan) : Len(plan) - Len(plan) + i = i
    BY <1>1
<1>3. QED
    BY <1>1, <1>2 DEF Rest

Ordinary == ReconcileSteps \ {"discover"}

\* All steps but the discovery of a proxy.
LEMMA OrdinarySteps ==
    /\ "pending" \in Ordinary /\ "creating" \in Ordinary /\ "terminating" \in Ordinary
    /\ "finalize" \in Ordinary /\ "unfinalize" \in Ordinary /\ "status" \in Ordinary
    /\ "deployment" \in Ordinary /\ "service" \in Ordinary /\ "ingress" \in Ordinary
    /\ "configmap" \in Ordinary /\ "pdb" \in Ordinary /\ "secret" \in Ordinary
    /\ "pvc" \in Ordinary
BY DEF Ordinary, ReconcileSteps, Names

\* A plan of such steps has no discovery in it.
LEMMA OrdinaryPlans ==
    ASSUME NEW s \in Seq(Ordinary)
    PROVE  s \in Seq(ReconcileSteps) /\ \A i \in 1..Len(s) : s[i] # "discover"
<1>1. \A i \in 1..Len(s) : s[i] \in Ordinary
    BY ElementOfSeq
<1>2. \A x \in Ordinary : x \in ReconcileSteps /\ x # "discover"
    BY DEF Ordinary
<1>3. s \in Seq(ReconcileSteps)
    BY <1>1, <1>2, SeqDef
<1>4. QED
    BY <1>1, <1>2, <1>3

\* The plan of a server.
LEMMA ServerPlan ==
    ASSUME NEW o
    PROVE  ServerSteps(o) \in Seq(Ordinary)
<1> USE OrdinarySteps
<1>1. <<"deployment", "service", "status">> \in Seq(Ordinary)
    OBVIOUS
<1>2. <<"unfinalize">> \in Seq(Ordinary) /\ <<"finalize">> \in Seq(Ordinary)
    OBVIOUS
<1>3. <<>> \in Seq(Ordinary) /\ <<"pending">> \in Seq(Ordinary)
    OBVIOUS
<1>4. (IF o.phase = NoPhase THEN <<"pending">> ELSE <<>>) \in Seq(Ordinary)
    BY <1>3
<1>5. (IF o.phase = NoPhase THEN <<"pending">> ELSE <<>>) \o <<"deployment", "service", "status">>
         \in Seq(Ordinary)
    BY <1>1, <1>4, ConcatProperties
<1>6. QED
    BY <1>2, <1>5, Zenon DEF ServerSteps

\* The plan of a Postgres.
LEMMA PostgresPlan ==
    ASSUME NEW o
    PROVE  PostgresSteps(o) \in Seq(Ordinary)
<1> USE OrdinarySteps
<1>1. <<"secret", "pvc", "service", "deployment", "status">> \in Seq(Ordinary)
    OBVIOUS
<1>2. <<"terminating", "unfinalize">> \in Seq(Ordinary) /\ <<"finalize">> \in Seq(Ordinary)
    OBVIOUS
<1>3. <<>> \in Seq(Ordinary) /\ <<"creating">> \in Seq(Ordinary)
    OBVIOUS
<1>4. (IF o.phase = NoPhase THEN <<"creating">> ELSE <<>>) \in Seq(Ordinary)
    BY <1>3
<1>5. (IF o.phase = NoPhase THEN <<"creating">> ELSE <<>>)
         \o <<"secret", "pvc", "service", "deployment", "status">> \in Seq(Ordinary)
    BY <1>1, <1>4, ConcatProperties
<1>6. QED
    BY <1>2, <1>5, Zenon DEF PostgresSteps

\* The plan of a proxy.
LEMMA ProxyPlan ==
    ASSUME NEW o
    PROVE  ProxySteps(o) \in Seq(ReconcileSteps)
<1> DEFINE a == IF o.phase \notin {"Creating", "Running"} THEN <<"creating">> ELSE <<>>
           b == <<"deployment", "service">>
           c == IF o.spec["ingress"] = 2 THEN <<"ingress">> ELSE <<>>
           d == <<"configmap">>
           e == IF o.spec["replicas"] > 1 THEN <<"pdb">> ELSE <<>>
           f == <<"discover", "status">>
<1>s. /\ "creating" \in ReconcileSteps /\ "deployment" \in ReconcileSteps
      /\ "service" \in ReconcileSteps /\ "ingress" \in ReconcileSteps
      /\ "configmap" \in ReconcileSteps /\ "pdb" \in ReconcileSteps
      /\ "discover" \in ReconcileSteps /\ "status" \in ReconcileSteps
    BY DEF ReconcileSteps, Names
<1>1. a \in Seq(ReconcileSteps)
    BY <1>s
<1>2. b \in Seq(ReconcileSteps)
    BY <1>s
<1>3. c \in Seq(ReconcileSteps)
    BY <1>s
<1>4. d \in Seq(ReconcileSteps)
    BY <1>s
<1>5. e \in Seq(ReconcileSteps)
    BY <1>s
<1>6. f \in Seq(ReconcileSteps)
    BY <1>s
<1> HIDE DEF a, b, c, d, e, f
<1>7. a \o b \o c \o d \o e \o f \in Seq(ReconcileSteps)
    BY <1>1, <1>2, <1>3, <1>4, <1>5, <1>6
<1>8. QED
    BY <1>7 DEF ProxySteps, a, b, c, d, e, f

\* Two steps before five others.
LEMMA TwoAndFive ==
    ASSUME NEW a, NEW b, NEW c, NEW d, NEW e, NEW f, NEW g
    PROVE  <<a, b>> \o <<c, d, e, f, g>> = <<a, b, c, d, e, f, g>>
<1> DEFINE S == {a, b, c, d, e, f, g}
           s == <<a, b>>
           t == <<c, d, e, f, g>>
           u == <<a, b, c, d, e, f, g>>
<1>1. s \in Seq(S)
    OBVIOUS
<1>2. t \in Seq(S)
    OBVIOUS
<1>3. u \in Seq(S)
    OBVIOUS
<1>4. s \o t \in Seq(S)
    BY <1>1, <1>2
<1>5. Len(s \o t) = Len(u)
    <2>1. Len(s) = 2 /\ Len(t) = 5
        OBVIOUS
    <2>2. Len(s \o t) = 7
        BY <1>1, <1>2, <2>1, ConcatProperties
    <2>3. QED
        BY <2>2
<1>6. ASSUME NEW i \in 1..7
      PROVE  (s \o t)[i] = u[i]
    <2>1. i \in {1, 2, 3, 4, 5, 6, 7}
        OBVIOUS
    <2>2. (s \o t)[i] = IF i <= Len(s) THEN s[i] ELSE t[i - Len(s)]
        BY <1>1, <1>2, ConcatProperties
    <2>3. QED
        BY <2>1, <2>2
<1>7. QED
    BY <1>3, <1>4, <1>5, <1>6, SeqEqual

\* What a memory server is to do is the plan of its phase, without the objects of
\* Postgres when that is off.
LEMMA MemoryPlanOf ==
    ASSUME NEW o, o.phase \in MemoryPhases
    PROVE  /\ MemorySteps(o) \in Seq(ReconcileSteps)
           /\ Rest(MemorySteps(o), MemoryPlan(o.phase))
           /\ o.phase = "Creating" => Len(MemorySteps(o)) >= 5
<1>1. MemoryPlan(o.phase) \in Seq(ReconcileSteps)
    BY MemoryPlans DEF MemoryPhases
<1>2. CASE o.phase # "Creating"
    <2>1. MemorySteps(o) = MemoryPlan(o.phase)
        BY <1>2, NoPhaseDistinct DEF MemorySteps, MemoryPlan, MemoryPhases
    <2>2. QED
        BY <1>1, <1>2, <2>1, RestOfItself
<1>3. CASE o.phase = "Creating"
    <2> DEFINE tail == <<"secret", "configmap", "service", "deployment", "starting">>
               all == <<"pvc", "pgdeployment", "secret", "configmap", "service",
                        "deployment", "starting">>
    <2>1. MemorySteps(o) = MemoryCreating(o)
        BY <1>3, NoPhaseDistinct DEF MemorySteps
    <2>2. MemoryPlan(o.phase) = all
        BY <1>3, NoPhaseDistinct DEF MemoryPlan
    <2>3. all \in Seq(ReconcileSteps)
        BY <1>1, <2>2
    <2>4. Rest(all, all)
        BY <2>3, RestOfItself
    <2>5. Tail(all) \in Seq(ReconcileSteps) /\ all # <<>> /\ Tail(all) # <<>>
        BY <2>3
    <2>6. Tail(Tail(all)) = tail
        OBVIOUS
    <2>7. Rest(Tail(all), all)
        BY <2>3, <2>4, <2>5, RestOfTail
    <2>8. Rest(tail, all) /\ tail \in Seq(ReconcileSteps)
        <3> HIDE DEF tail, all
        <3>1. Rest(Tail(Tail(all)), all)
            BY <2>3, <2>5, <2>7, RestOfTail
        <3>2. Tail(Tail(all)) \in Seq(ReconcileSteps)
            BY <2>5
        <3>3. QED
            BY <2>6, <3>1, <3>2
    <2>e. <<>> \o tail = tail
        <3> HIDE DEF tail
        <3>1. QED
            BY <2>8, ConcatEmptySeq
    <2>f. <<"pvc", "pgdeployment">> \o tail = all
        BY TwoAndFive
    <2>9. <<"pvc", "pgdeployment">> \o tail = all /\ <<>> \o tail = tail
        BY <2>e, <2>f
    <2>10. MemoryCreating(o) \in {tail, all}
        BY <2>9 DEF MemoryCreating
    <2>11. Len(tail) >= 5 /\ Len(all) >= 5
        OBVIOUS
    <2>12. QED
        BY <2>1, <2>2, <2>3, <2>4, <2>8, <2>10, <2>11
<1>4. QED
    BY <1>2, <1>3

\* A reconcile reads the cache and makes its plan.
LEMMA FetchKeeps ==
    ASSUME ResourceInv, fetchInstance,
           UNCHANGED <<cmd, created, intent>>
    PROVE  ResourceInv'
<1>1. /\ todo = <<>> /\ dirty' = FALSE
      /\ UNCHANGED <<kind, res, cache, cacheFresh, child, pods, pgpods, peer, disturbances>>
    BY DEF fetchInstance, apiVars, clusterVars
<1>d. dirty' \in BOOLEAN
    BY <1>1, Zenon
<1>h. (Prepared' <=> Prepared) /\ \A c \in Names : Has(c)' <=> Has(c)
    BY <1>1 DEF Prepared, Has
<1>2. CASE ~cache.exists
    <2>1. UNCHANGED <<snap, snapFresh, todo, seen>>
        BY <1>2 DEF fetchInstance, local
    <2>2. StateType'
        BY <1>1, <1>d, <2>1 DEF ResourceInv, StateType
    <2>3. UidInv' /\ PlanInv'
        BY <1>1, <2>1 DEF ResourceInv, UidInv, PlanInv
    <2>4. MemoryInv'
        BY <1>1, <1>h, <2>1 DEF ResourceInv, MemoryInv, FirstMemory, MemoryStages, Names
    <2>5. QED
        BY <2>2, <2>3, <2>4 DEF ResourceInv
<1>3. CASE cache.exists
    <2>1. todo' = Steps(cache) /\ snap' = cache /\ snapFresh' = cacheFresh /\ seen' = seen
        BY <1>3 DEF fetchInstance
    <2>2. StateType'
        BY <1>1, <1>d, <2>1 DEF ResourceInv, StateType
    <2>3. UidInv'
        BY <1>1, <1>3, <2>1 DEF ResourceInv, UidInv
    <2>4. kind = "memory" => /\ todo' = MemorySteps(cache) /\ cache.phase \in MemoryPhases
        BY <2>1 DEF Steps, ResourceInv, PlanInv
    <2>5. PlanInv'
        <3>1. todo' \in Seq(ReconcileSteps)
            <4>1. kind \in {"server", "proxy", "memory", "postgres"}
                BY ResourceAssumption DEF ResourceInv, StateType
            <4>2. CASE kind = "server"
                <5>1. Steps(cache) = ServerSteps(cache)
                    BY <4>2 DEF Steps
                <5>2. QED
                    BY <2>1, <5>1, ServerPlan, OrdinaryPlans
            <4>3. CASE kind = "proxy"
                <5>1. Steps(cache) = ProxySteps(cache)
                    BY <4>3 DEF Steps
                <5>2. QED
                    BY <2>1, <5>1, ProxyPlan
            <4>4. CASE kind = "memory"
                BY <2>4, <4>4, MemoryPlanOf
            <4>5. CASE kind = "postgres"
                <5>1. Steps(cache) = PostgresSteps(cache)
                    BY <4>5 DEF Steps
                <5>2. QED
                    BY <2>1, <5>1, PostgresPlan, OrdinaryPlans
            <4>6. QED
                BY <4>1, <4>2, <4>3, <4>4, <4>5
        <3>2. ASSUME kind = "postgres" PROVE \A i \in 1..Len(todo') : todo'[i] # "discover"
            <4>1. todo' = PostgresSteps(cache)
                BY <2>1, <3>2 DEF Steps
            <4>2. QED
                BY <4>1, PostgresPlan, OrdinaryPlans
        <3>3. kind = "memory" => Rest(todo', MemoryPlan(snap'.phase))
            BY <2>1, <2>4, MemoryPlanOf
        <3>4. kind = "memory" => \A r \in {res', cache', snap'} : r.phase \in MemoryPhases
            BY <1>1, <2>1 DEF ResourceInv, PlanInv
        <3>5. kind # "server" => \A i \in 1..Len(cmd') : cmd'[i] \notin {"deldep", "delsvc"}
            BY <1>1 DEF ResourceInv, PlanInv
        <3>6. QED
            BY <1>1, <3>1, <3>2, <3>3, <3>4, <3>5 DEF PlanInv
    <2>6. MemoryInv'
        <3>1. SUFFICES ASSUME kind = "memory", created = 1, res.exists
                       PROVE  MemoryStages'
            BY <1>1 DEF MemoryInv, FirstMemory
        <3>2. MemoryStages
            BY <3>1 DEF ResourceInv, MemoryInv, FirstMemory
        <3>3. \A r \in {res', cache', snap'} :
                 r.exists /\ r.phase \in {"Starting", "Running"} => Prepared'
            BY <1>1, <1>h, <2>1, <3>2 DEF MemoryStages
        <3>4. Has("deployment")' => Prepared'
            BY <1>h, <3>2 DEF MemoryStages, Names
        <3>5. snap'.phase = "Creating" => Len(todo') \in Nat /\ Len(todo') >= 5
            BY <2>1, <2>4, <3>1, MemoryPlanOf, LenProperties
        <3>6. ASSUME snap'.phase = "Creating"
              PROVE  ~(Len(todo') < 5) /\ ~(Len(todo') < 4) /\ ~(Len(todo') < 3)
            BY <3>5, <3>6
        <3>7. QED
            BY <3>3, <3>4, <3>6 DEF MemoryStages
    <2>7. QED
        BY <2>2, <2>3, <2>5, <2>6 DEF ResourceInv
<1>4. QED
    BY <1>2, <1>3

\* A step that was taken leaves the rest of the plan.
LEMMA TailPlan ==
    ASSUME ResourceInv, todo # <<>>
    PROVE  /\ Tail(todo) \in Seq(ReconcileSteps)
           /\ kind = "postgres" => \A i \in 1..Len(Tail(todo)) : Tail(todo)[i] # "discover"
           /\ kind = "memory" => Rest(Tail(todo), MemoryPlan(snap.phase))
           /\ Len(Tail(todo)) = Left - 1
<1>1. todo \in Seq(ReconcileSteps)
    BY DEF ResourceInv, PlanInv
<1>2. /\ Tail(todo) \in Seq(ReconcileSteps) /\ Len(Tail(todo)) = Len(todo) - 1
      /\ \A i \in 1..Len(Tail(todo)) : Tail(todo)[i] = todo[i + 1]
      /\ Len(todo) \in Nat
    BY <1>1, HeadTailProperties, EmptySeq, LenProperties
<1>3. ASSUME kind = "postgres" PROVE \A i \in 1..Len(Tail(todo)) : Tail(todo)[i] # "discover"
    <2>1. \A i \in 1..Len(todo) : todo[i] # "discover"
        BY <1>3 DEF ResourceInv, PlanInv
    <2>2. \A i \in 1..Len(Tail(todo)) : i + 1 \in 1..Len(todo)
        BY <1>2
    <2>3. QED
        BY <1>2, <2>1, <2>2
<1>4. ASSUME kind = "memory" PROVE Rest(Tail(todo), MemoryPlan(snap.phase))
    <2>1. snap.phase \in MemoryPhases /\ Rest(todo, MemoryPlan(snap.phase))
        BY <1>4 DEF ResourceInv, PlanInv
    <2>2. MemoryPlan(snap.phase) \in Seq(ReconcileSteps)
        BY <2>1, MemoryPlans DEF MemoryPhases
    <2>3. QED
        BY <1>1, <2>1, <2>2, RestOfTail
<1>5. QED
    BY <1>2, <1>3, <1>4 DEF Left

\* The discovery of a proxy.
LEMMA DiscoverKeeps ==
    ASSUME ResourceInv, discover, UNCHANGED <<cmd, created, intent>>
    PROVE  ResourceInv'
<1>1. /\ todo # <<>> /\ Head(todo) = "discover" /\ todo' = Tail(todo)
      /\ UNCHANGED <<kind, res, cache, cacheFresh, snapFresh, seen, dirty, child, pods, pgpods,
                     peer, disturbances>>
    BY DEF discover, At, apiVars, clusterVars
<1>2. kind # "memory"
    BY <1>1, MemoryHead
<1>3. /\ snap' \in Resource(kind) /\ snap'.uid = snap.uid /\ snap'.exists = snap.exists
    <2>1. snap \in Resource(kind) /\ peer \in BOOLEAN
        BY DEF ResourceInv, StateType
    <2>2. (peer /\ shouldIncludeService(snap)) \in BOOLEAN
        BY <2>1 DEF shouldIncludeService
    <2>3. PICK b \in BOOLEAN : snap' = [snap EXCEPT !.discovered = b]
        BY <2>2 DEF discover
    <2>4. QED
        BY <2>1, <2>3 DEF Resource
<1>4. StateType'
    BY <1>1, <1>3 DEF ResourceInv, StateType
<1>5. UidInv'
    BY <1>1, <1>3 DEF ResourceInv, UidInv
<1>6. PlanInv'
    BY <1>1, <1>2, TailPlan DEF ResourceInv, PlanInv
<1>7. MemoryInv'
    BY <1>1, <1>2 DEF MemoryInv, FirstMemory
<1>8. QED
    BY <1>4, <1>5, <1>6, <1>7 DEF ResourceInv

\* A status update in the middle of a reconcile.
LEMMA GoOnKeeps ==
    ASSUME ResourceInv, SetPhaseAndGoOn,
           UNCHANGED <<cmd, created, intent>>
    PROVE  ResourceInv'
<1>1. Outside /\ disturbances' \in 0..MaxDisturbances
    BY Bounded DEF SetPhaseAndGoOn, Outside
<1>2. /\ todo # <<>> /\ Left > 1 /\ Head(todo) \in {"pending", "creating", "terminating"}
    BY DEF SetPhaseAndGoOn, At, PhaseOf, Left
<1>3. CASE ~Accepted
    <2>1. UNCHANGED <<res, cacheFresh>> /\ Return(TRUE)
        BY <1>3 DEF SetPhaseAndGoOn
    <2>2. QED
        BY <1>1, <2>1, ReturnSame
<1>4. CASE Accepted
    <2>p. PICK p \in Phases : p = PhaseOf[Head(todo)] /\ (Head(todo) = "pending" => p = "Pending")
        BY <1>2 DEF PhaseOf, Phases
    <2>1. /\ Write([res EXCEPT !.phase = p]) /\ snap' = [snap EXCEPT !.phase = p]
          /\ todo' = Tail(todo) /\ UNCHANGED <<snapFresh, seen, dirty>>
        BY <1>4, <2>p DEF SetPhaseAndGoOn
    <2>2. UNCHANGED <<kind, cache, child, pods, pgpods, peer>>
        BY <1>1 DEF Outside, clusterVars
    <2>3. res' = [res EXCEPT !.phase = p] /\ cacheFresh' \in BOOLEAN
        BY <2>1, WriteType
    <2>4. res \in Resource(kind) /\ snap \in Resource(kind)
        BY DEF ResourceInv, StateType
    <2>5. res' \in Resource(kind) /\ res'.uid = res.uid /\ res'.exists = res.exists
        BY <2>3, <2>4 DEF Resource
    <2>6. snap' \in Resource(kind) /\ snap'.uid = snap.uid /\ snap'.exists = snap.exists
        BY <2>1, <2>4 DEF Resource
    <2>7. res'.phase = p /\ snap'.phase = p
        BY <2>1, <2>3, <2>4 DEF Resource
    <2>8. StateType'
        BY <1>1, <2>1, <2>2, <2>3, <2>5, <2>6 DEF ResourceInv, StateType
    <2>9. UidInv'
        BY <1>2, <2>1, <2>2, <2>5, <2>6 DEF ResourceInv, UidInv
    <2>m. ASSUME kind = "memory"
          PROVE  snap.phase = NoPhase /\ Left = 2 /\ p = "Pending"
        BY <1>2, <2>p, <2>m, MemoryHead
    <2>10. PlanInv'
        <3>1. ASSUME kind = "memory"
              PROVE  \A r \in {res', cache', snap'} : r.phase \in MemoryPhases
            BY <2>2, <2>7, <2>m, <3>1 DEF ResourceInv, PlanInv, MemoryPhases
        <3>2. ASSUME kind = "memory"
              PROVE  Rest(todo', MemoryPlan(snap'.phase))
            <4>1. Rest(Tail(todo), MemoryPlan(NoPhase)) /\ Len(Tail(todo)) = Left - 1 /\ Left = 2
                BY <1>2, <2>m, <3>2, TailPlan
            <4>2. PlanLength(NoPhase) = 2 /\ MemoryPlan(NoPhase)[2] = "creating"
                BY MemoryPlans
            <4>3. PlanLength("Pending") = 1 /\ MemoryPlan("Pending")[1] = "creating"
                BY MemoryPlans
            <4> DEFINE n == Len(Tail(todo))
            <4>4. n = 1
                BY <4>1
            <4>5. \A i \in 1..n : Tail(todo)[i] = MemoryPlan(NoPhase)[PlanLength(NoPhase) - n + i]
                BY <4>1 DEF Rest, PlanLength
            <4> HIDE DEF n
            <4>6. \A i \in 1..n : i = 1 /\ PlanLength(NoPhase) - n + i = 2
                                  /\ PlanLength("Pending") - n + i = 1
                BY <4>2, <4>3, <4>4
            <4>7. \A i \in 1..n : Tail(todo)[i] = MemoryPlan("Pending")[PlanLength("Pending") - n + i]
                BY <4>2, <4>3, <4>5, <4>6
            <4>8. n <= PlanLength("Pending")
                BY <4>3, <4>4
            <4>9. Rest(Tail(todo), MemoryPlan("Pending"))
                BY <4>7, <4>8 DEF Rest, n, PlanLength
            <4>10. QED
                BY <2>1, <2>7, <2>m, <3>2, <4>9
        <3>3. QED
            BY <1>1, <1>2, <2>1, <2>2, <3>1, <3>2, TailPlan DEF ResourceInv, PlanInv
    <2>11. MemoryInv'
        <3>1. SUFFICES ASSUME kind = "memory", created = 1, res.exists
                       PROVE  MemoryStages'
            BY <2>2, <2>5 DEF MemoryInv, FirstMemory
        <3>2. MemoryStages
            BY <3>1 DEF ResourceInv, MemoryInv, FirstMemory
        <3>3. (Prepared' <=> Prepared) /\ (Has("deployment")' <=> Has("deployment"))
            BY <2>2 DEF Prepared, Has
        <3>4. res'.phase = "Pending" /\ snap'.phase = "Pending"
            BY <2>7, <2>m, <3>1
        <3>5. \A r \in {res', cache', snap'} :
                 r.exists /\ r.phase \in {"Starting", "Running"} => Prepared'
            BY <2>2, <3>2, <3>3, <3>4 DEF MemoryStages
        <3>6. QED
            BY <3>2, <3>3, <3>4, <3>5 DEF MemoryStages
    <2>12. QED
        BY <2>8, <2>9, <2>10, <2>11 DEF ResourceInv
<1>5. QED
    BY <1>3, <1>4

-----------------------------------------------------------------------------
(* The owned objects *)

\* An object replaced by another keeps the types.
LEMMA ChildType ==
    ASSUME ResourceInv, NEW c \in Names, NEW o,
           o = [uid |-> o.uid, built |-> o.built], o.uid \in 0..MaxUid, o.uid <= created,
           child' = [child EXCEPT ![c] = o]
    PROVE  /\ DOMAIN child' = Names /\ child' = [d \in Names |-> child'[d]]
           /\ \A d \in Names : /\ child'[d].uid \in 0..MaxUid /\ child'[d].uid <= created
                               /\ child'[d] = [uid |-> child'[d].uid, built |-> child'[d].built]
           /\ child'[c] = o /\ \A d \in Names \ {c} : child'[d] = child[d]
<1>1. DOMAIN child = Names /\ child = [d \in Names |-> child[d]]
    BY DEF ResourceInv, StateType
<1>2. /\ DOMAIN child' = Names /\ child' = [d \in Names |-> child'[d]]
      /\ child'[c] = o /\ \A d \in Names \ {c} : child'[d] = child[d]
    BY <1>1
<1>3. \A d \in Names : /\ child[d].uid \in 0..MaxUid /\ child[d].uid <= created
                       /\ child[d] = [uid |-> child[d].uid, built |-> child[d].built]
    BY DEF ResourceInv, StateType, UidInv
<1>4. \A d \in Names : child'[d] = o \/ child'[d] = child[d]
    BY <1>2
<1>5. QED
    BY <1>2, <1>3, <1>4

\* An object that goes away, or changes, outside the reconciler.
LEMMA ChildKeeps ==
    ASSUME ResourceInv, NEW c \in Names, NEW o,
           o = [uid |-> o.uid, built |-> o.built], o.uid \in 0..MaxUid, o.uid <= created,
           child' = [child EXCEPT ![c] = o],
           FirstMemory => c \notin Needed /\ o.uid = 0,
           UNCHANGED <<kind, res, cache, cacheFresh, snap, snapFresh, todo, seen, peer, created>>,
           pods' \in 0..3, pgpods' \in 0..2, dirty' \in BOOLEAN,
           disturbances' \in 0..MaxDisturbances, intent' \in {"none", "up", "down"},
           cmd' \in Seq(CommandSteps),
           kind # "server" => \A i \in 1..Len(cmd') : cmd'[i] \notin {"deldep", "delsvc"}
    PROVE  ResourceInv'
<1>1. /\ DOMAIN child' = Names /\ child' = [d \in Names |-> child'[d]]
      /\ \A d \in Names : /\ child'[d].uid \in 0..MaxUid /\ child'[d].uid <= created
                          /\ child'[d] = [uid |-> child'[d].uid, built |-> child'[d].built]
      /\ child'[c] = o /\ \A d \in Names \ {c} : child'[d] = child[d]
    BY ChildType
<1>2. StateType'
    BY <1>1 DEF ResourceInv, StateType
<1>3. UidInv' /\ PlanInv'
    BY <1>1 DEF ResourceInv, UidInv, PlanInv
<1>4. MemoryInv'
    <2>1. SUFFICES ASSUME FirstMemory
                   PROVE  MemoryStages'
        BY DEF MemoryInv, FirstMemory
    <2>2. MemoryStages /\ c \notin Needed /\ o.uid = 0
        BY <2>1 DEF ResourceInv, MemoryInv
    <2>3. Needed \subseteq Names /\ "deployment" \in Names
        BY DEF Needed, Names
    <2>4. (\A d \in Needed : Has(d)' <=> Has(d)) /\ (Has("deployment")' => Has("deployment"))
        BY <1>1, <2>2, <2>3 DEF Has
    <2>5. Prepared' <=> Prepared
        BY <2>4 DEF Prepared
    <2>6. \A r \in {res', cache', snap'} :
             r.exists /\ r.phase \in {"Starting", "Running"} => Prepared'
        BY <2>2, <2>5 DEF MemoryStages
    <2>7. Has("deployment")' => Prepared'
        BY <2>2, <2>4, <2>5 DEF MemoryStages
    <2>8. QED
        BY <2>2, <2>4, <2>6, <2>7 DEF MemoryStages, Needed
<1>5. QED
    BY <1>2, <1>3, <1>4 DEF ResourceInv

\* An object that goes away.
LEMMA NoChildKeeps ==
    ASSUME ResourceInv, NEW c \in Names,
           child' = [child EXCEPT ![c] = NoChild], FirstMemory => c \notin Needed,
           UNCHANGED <<kind, res, cache, cacheFresh, snap, snapFresh, todo, seen, peer, created>>,
           pods' \in 0..3, pgpods' \in 0..2, dirty' \in BOOLEAN,
           disturbances' \in 0..MaxDisturbances, intent' \in {"none", "up", "down"},
           cmd' \in Seq(CommandSteps),
           kind # "server" => \A i \in 1..Len(cmd') : cmd'[i] \notin {"deldep", "delsvc"}
    PROVE  ResourceInv'
<1>1. /\ NoChild = [uid |-> NoChild.uid, built |-> NoChild.built] /\ NoChild.uid = 0
      /\ NoChild.uid \in 0..MaxUid /\ NoChild.uid <= created
    BY ResourceAssumption DEF NoChild, ResourceInv, StateType
<1>2. QED
    BY <1>1, ChildKeeps

\* What no command changes.
LEMMA CommandsStay ==
    ASSUME ResourceInv, UNCHANGED <<kind, cmd, intent>>
    PROVE  /\ intent' \in {"none", "up", "down"} /\ cmd' \in Seq(CommandSteps)
           /\ kind # "server" => \A i \in 1..Len(cmd') : cmd'[i] \notin {"deldep", "delsvc"}
BY DEF ResourceInv, StateType, PlanInv

\* The garbage collector takes nothing of the first memory server while it is there.
LEMMA CollectKeeps ==
    ASSUME ResourceInv, NEW c \in Names, GarbageCollect(c),
           UNCHANGED <<cmd, created, intent>>
    PROVE  ResourceInv'
<1>1. /\ child' = [child EXCEPT ![c] = NoChild]
      /\ UNCHANGED <<kind, res, cache, cacheFresh, snap, snapFresh, todo, seen, peer, disturbances>>
    BY DEF GarbageCollect, apiVars, local
<1>2. pods' \in 0..3 /\ pgpods' \in 0..2 /\ disturbances' \in 0..MaxDisturbances
    BY <1>1 DEF GarbageCollect, ResourceInv, StateType
<1>3. dirty' \in BOOLEAN
    BY Zenon DEF GarbageCollect
<1>4. ~FirstMemory
    <2>1. SUFFICES ASSUME created = 1, res.exists PROVE FALSE
        BY DEF FirstMemory
    <2>2. child[c].uid # 0 /\ child[c].uid # res.uid
        BY <2>1 DEF GarbageCollect, Has
    <2>3. child[c].uid \in Nat /\ child[c].uid <= 1
        BY <2>1, ResourceAssumption DEF ResourceInv, StateType, UidInv
    <2>4. res.uid \in Nat /\ res.uid <= 1 /\ res.uid # 0
        BY <2>1, CopyUids DEF ResourceInv, UidInv
    <2>5. QED
        BY <2>2, <2>3, <2>4
<1>5. QED
    BY <1>1, <1>2, <1>3, <1>4, CommandsStay, NoChildKeeps

\* Steps of pods, peers and commands that leave the resource and the objects.
LEMMA PodsKeep ==
    ASSUME ResourceInv,
           UNCHANGED <<kind, res, cache, cacheFresh, snap, snapFresh, todo, seen, child, created>>,
           pods' \in 0..3, pgpods' \in 0..2, dirty' \in BOOLEAN, peer' \in BOOLEAN,
           disturbances' \in 0..MaxDisturbances, intent' \in {"none", "up", "down"},
           cmd' \in Seq(CommandSteps),
           kind # "server" => \A i \in 1..Len(cmd') : cmd'[i] \notin {"deldep", "delsvc"}
    PROVE  ResourceInv'
<1>1. StateType'
    BY DEF ResourceInv, StateType
<1>2. UidInv' /\ PlanInv'
    BY DEF ResourceInv, UidInv, PlanInv
<1>3. MemoryInv'
    BY DEF ResourceInv, MemoryInv, FirstMemory, MemoryStages, Prepared, Has
<1>4. QED
    BY <1>1, <1>2, <1>3 DEF ResourceInv

\* Pods come up.
LEMMA ProgressKeeps ==
    ASSUME ResourceInv, PodsProgress,
           UNCHANGED <<cmd, created, intent>>
    PROVE  ResourceInv'
<1>1. /\ UNCHANGED <<kind, res, cache, cacheFresh, snap, snapFresh, todo, seen, child, peer,
                     disturbances>>
      /\ dirty' = TRUE
    BY DEF PodsProgress, apiVars, local
<1>2. dirty' \in BOOLEAN /\ peer' \in BOOLEAN
    BY <1>1 DEF ResourceInv, StateType
<1>3. pods' \in 0..3 /\ pgpods' \in 0..2
    <2>1. pods \in 0..3 /\ pgpods \in 0..2 /\ AllReady \in 2..3
        BY DEF ResourceInv, StateType, AllReady
    <2>2. \/ pods < AllReady /\ pods' = pods + 1 /\ pgpods' = pgpods
          \/ pgpods < 2 /\ pgpods' = pgpods + 1 /\ pods' = pods
        BY DEF PodsProgress
    <2>3. QED
        BY <2>1, <2>2
<1>4. disturbances' \in 0..MaxDisturbances
    BY <1>1 DEF ResourceInv, StateType
<1>5. QED
    BY <1>1, <1>2, <1>3, <1>4, CommandsStay, PodsKeep

\* Pods or the Deployment are lost.
LEMMA LostKeeps ==
    ASSUME ResourceInv, PodsLost, UNCHANGED <<cmd, created, intent>>
    PROVE  ResourceInv'
<1>1. UNCHANGED <<kind, res, cache, cacheFresh, snap, snapFresh, todo, seen, peer>>
    BY DEF PodsLost, apiVars, local
<1>2. dirty' \in BOOLEAN
    BY Zenon DEF PodsLost
<1>3. peer' \in BOOLEAN
    BY <1>1 DEF ResourceInv, StateType
<1>4. disturbances' \in 0..MaxDisturbances
    BY Bounded DEF PodsLost
<1>5. CASE pods' = 1 /\ UNCHANGED <<child, pgpods>>
    <2>1. pods' \in 0..3 /\ pgpods' \in 0..2
        BY <1>5 DEF ResourceInv, StateType
    <2>2. QED
        BY <1>1, <1>2, <1>3, <1>4, <1>5, <2>1, CommandsStay, PodsKeep
<1>6. CASE /\ pods' = 0 /\ UNCHANGED pgpods
           /\ child' = [child EXCEPT !["deployment"] = NoChild]
    <2>1. pods' \in 0..3 /\ pgpods' \in 0..2
        BY <1>6 DEF ResourceInv, StateType
    <2>2. "deployment" \in Names /\ "deployment" \notin Needed
        BY DEF Names, Needed
    <2>3. QED
        BY <1>1, <1>2, <1>4, <1>6, <2>1, <2>2, CommandsStay, NoChildKeeps
<1>7. QED
    BY <1>5, <1>6 DEF PodsLost

\* Another server appears.
LEMMA PeerKeeps ==
    ASSUME ResourceInv, PeerAppears,
           UNCHANGED <<cmd, created, intent>>
    PROVE  ResourceInv'
<1>1. UNCHANGED <<kind, res, cache, cacheFresh, snap, snapFresh, todo, seen, child, pods, pgpods>>
    BY DEF PeerAppears, apiVars, local
<1>2. dirty' \in BOOLEAN /\ peer' \in BOOLEAN
    BY Zenon DEF PeerAppears
<1>3. disturbances' \in 0..MaxDisturbances
    BY Bounded DEF PeerAppears
<1>4. pods' \in 0..3 /\ pgpods' \in 0..2
    BY <1>1 DEF ResourceInv, StateType
<1>5. QED
    BY <1>1, <1>2, <1>3, <1>4, CommandsStay, PodsKeep

\* An object that is made or updated is owned by a resource that was created.
LEMMA EnsuredType ==
    ASSUME ResourceInv, NEW c \in Names, todo # <<>>
    PROVE  LET o == reconcileResource(c) IN
           /\ o = [uid |-> o.uid, built |-> o.built] /\ o.uid \in 0..MaxUid
           /\ o.uid <= created /\ o.uid # 0
<1>1. /\ child[c] = [uid |-> child[c].uid, built |-> child[c].built]
      /\ child[c].uid \in 0..MaxUid /\ child[c].uid <= created
    BY DEF ResourceInv, StateType, UidInv
<1>2. /\ snap.uid \in 0..MaxUid /\ snap.uid <= created /\ snap.uid # 0
    BY DEF ResourceInv, StateType, UidInv, Resource
<1> DEFINE new == Desired(kind, c, snap.spec)
<1>3. \/ ~Has(c) /\ reconcileResource(c) = [uid |-> snap.uid, built |-> new]
      \/ Has(c) /\ reconcileResource(c) = [child[c] EXCEPT !.built = new]
      \/ Has(c) /\ reconcileResource(c) = child[c]
    BY DEF reconcileResource
<1> HIDE DEF new
<1>4. CASE ~Has(c) /\ reconcileResource(c) = [uid |-> snap.uid, built |-> new]
    BY <1>2, <1>4
<1>5. CASE Has(c) /\ reconcileResource(c) = [child[c] EXCEPT !.built = new]
    <2>1. reconcileResource(c) = [uid |-> child[c].uid, built |-> new]
        BY <1>1, <1>5
    <2>2. QED
        BY <1>1, <1>5, <2>1 DEF Has
<1>6. CASE Has(c) /\ reconcileResource(c) = child[c]
    BY <1>1, <1>6 DEF Has
<1>7. QED
    BY <1>3, <1>4, <1>5, <1>6

\* An object is made or updated; of a memory server the Deployment comes when
\* its Secret, ConfigMap and Service are there.
LEMMA EnsureKeeps ==
    ASSUME ResourceInv, Ensure, UNCHANGED <<cmd, created, intent>>
    PROVE  ResourceInv'
<1> DEFINE h == Head(todo)
           o == reconcileResource(h)
<1>1. /\ todo # <<>> /\ h \in Names /\ todo' = Tail(todo)
      /\ child' = [child EXCEPT ![h] = o]
      /\ UNCHANGED <<kind, res, cache, cacheFresh, snap, snapFresh, pods, pgpods, peer, disturbances>>
    BY DEF Ensure, At, apiVars
<1>2. /\ o = [uid |-> o.uid, built |-> o.built] /\ o.uid \in 0..MaxUid
      /\ o.uid <= created /\ o.uid # 0
    BY <1>1, EnsuredType
<1>d. dirty' \in BOOLEAN
    BY DEF Ensure, ResourceInv, StateType
<1>s. seen' \in 0..3
    BY DEF Ensure, ResourceInv, StateType
<1> HIDE DEF h, o
<1>3. /\ DOMAIN child' = Names /\ child' = [d \in Names |-> child'[d]]
      /\ \A d \in Names : /\ child'[d].uid \in 0..MaxUid /\ child'[d].uid <= created
                          /\ child'[d] = [uid |-> child'[d].uid, built |-> child'[d].built]
      /\ child'[h] = o /\ \A d \in Names \ {h} : child'[d] = child[d]
    BY <1>1, <1>2, ChildType
<1>4. StateType'
    BY <1>1, <1>3, <1>d, <1>s DEF ResourceInv, StateType
<1>5. UidInv'
    BY <1>1, <1>3 DEF ResourceInv, UidInv
<1>6. PlanInv'
    BY <1>1, TailPlan DEF ResourceInv, PlanInv
<1>7. MemoryInv'
    <2>1. SUFFICES ASSUME FirstMemory
                   PROVE  MemoryStages'
        BY <1>1 DEF MemoryInv, FirstMemory
    <2>2. MemoryStages /\ kind = "memory"
        BY <2>1 DEF ResourceInv, MemoryInv, FirstMemory
    <2>n. /\ Needed \subseteq Names /\ "deployment" \in Names
          /\ "secret" \in Names /\ "configmap" \in Names /\ "service" \in Names
        BY DEF Needed, Names
    <2>3. \A d \in Names : Has(d)' <=> (Has(d) \/ d = h)
        BY <1>2, <1>3 DEF Has
    <2>4. Prepared => Prepared'
        BY <2>3, <2>n DEF Prepared
    <2>5. \A r \in {res', cache', snap'} :
             r.exists /\ r.phase \in {"Starting", "Running"} => Prepared'
        BY <1>1, <2>2, <2>4 DEF MemoryStages
    <2>6. snap.exists
        BY <1>1 DEF ResourceInv, UidInv
    <2>h. /\ Left \in Nat \ {0}
          /\ \/ snap.phase # "Creating" /\ snap.phase # "Running" /\ h \notin Names
             \/ snap.phase = "Running"
             \/ snap.phase = "Creating" /\ Left = 7 /\ h = "pvc"
             \/ snap.phase = "Creating" /\ Left = 6 /\ h = "pgdeployment"
             \/ snap.phase = "Creating" /\ Left = 5 /\ h = "secret"
             \/ snap.phase = "Creating" /\ Left = 4 /\ h = "configmap"
             \/ snap.phase = "Creating" /\ Left = 3 /\ h = "service"
             \/ snap.phase = "Creating" /\ Left = 2 /\ h = "deployment"
             \/ snap.phase = "Creating" /\ Left = 1 /\ h \notin Names
        BY <1>1, <2>2, MemoryHead, NoPhaseDistinct DEF h, Names
    <2>c. snap.phase = "Creating" =>
             /\ Left < 5 => Has("secret")
             /\ Left < 4 => Has("configmap")
             /\ Left < 3 => Has("service")
        BY <1>1, <2>2 DEF MemoryStages, Left
    <2>7. Has("deployment")' => Prepared'
        <3>1. CASE Has("deployment")
            BY <2>2, <2>4, <3>1 DEF MemoryStages
        <3>2. CASE h = "deployment" /\ snap.phase = "Running"
            BY <2>2, <2>4, <2>6, <3>2 DEF MemoryStages
        <3>3. CASE h = "deployment" /\ snap.phase = "Creating"
            <4>1. Left = 2
                BY <2>h, <2>n, <3>3
            <4>2. Prepared
                BY <2>c, <3>3, <4>1 DEF Prepared, Needed
            <4>3. QED
                BY <2>4, <4>2
        <3>4. h = "deployment" => snap.phase \in {"Running", "Creating"}
            BY <2>h, <2>n
        <3>5. QED
            BY <2>3, <2>n, <3>1, <3>2, <3>3, <3>4
    <2>8. ASSUME snap.phase = "Creating"
          PROVE  /\ Left - 1 < 5 => Has("secret")'
                 /\ Left - 1 < 4 => Has("configmap")'
                 /\ Left - 1 < 3 => Has("service")'
        <3>1. h \in Names
            BY <1>1
        <3>2. Left - 1 < 5 => Has("secret") \/ h = "secret"
            BY <2>8, <2>c, <2>h, <3>1
        <3>3. Left - 1 < 4 => Has("configmap") \/ h = "configmap"
            BY <2>8, <2>c, <2>h, <3>1
        <3>4. Left - 1 < 3 => Has("service") \/ h = "service"
            BY <2>8, <2>c, <2>h, <3>1
        <3>5. QED
            BY <2>3, <2>n, <3>2, <3>3, <3>4
    <2>9. Len(todo') = Left - 1 /\ snap' = snap
        BY <1>1, TailPlan
    <2>10. QED
        BY <2>5, <2>7, <2>8, <2>9 DEF MemoryStages
<1>8. QED
    BY <1>4, <1>5, <1>6, <1>7 DEF ResourceInv

\* The cache catches up.
LEMMA CatchUpKeeps ==
    ASSUME ResourceInv, CacheCatchesUp,
           UNCHANGED <<cmd, created, intent>>
    PROVE  ResourceInv'
<1>1. /\ cache' = res
      /\ UNCHANGED <<kind, res, snap, snapFresh, todo, seen, child, pods, pgpods, peer, disturbances>>
    BY DEF CacheCatchesUp, local, clusterVars
<1>2. cacheFresh' \in BOOLEAN /\ dirty' \in BOOLEAN
    BY Zenon DEF CacheCatchesUp
<1>3. StateType'
    BY <1>1, <1>2 DEF ResourceInv, StateType
<1>4. UidInv' /\ PlanInv'
    BY <1>1 DEF ResourceInv, UidInv, PlanInv
<1>5. MemoryInv'
    BY <1>1 DEF ResourceInv, MemoryInv, FirstMemory, MemoryStages, Prepared, Has
<1>6. QED
    BY <1>3, <1>4, <1>5 DEF ResourceInv

\* The restart is a reconcile that returns without a write, with a new cache.
LEMMA RestartsKeeps ==
    ASSUME ResourceInv, ControllerRestarts,
           UNCHANGED <<cmd, created, intent>>
    PROVE  ResourceInv'
<1>1. /\ cache' = res /\ todo' = <<>> /\ snap' = Gone(kind) /\ seen' = 0
      /\ UNCHANGED <<kind, res, child, pods, pgpods, peer>>
    BY DEF ControllerRestarts, clusterVars
<1>2. cacheFresh' \in BOOLEAN /\ dirty' \in BOOLEAN /\ snapFresh' \in BOOLEAN
    BY Zenon DEF ControllerRestarts
<1>3. disturbances' \in 0..MaxDisturbances
    BY Bounded DEF ControllerRestarts
<1>g. Gone(kind) \in Resource(kind) /\ Gone(kind).uid = 0 /\ ~Gone(kind).exists
    BY GoneType
<1>p. Gone(kind).phase = NoPhase
    BY GoneType
<1>4. StateType'
    BY <1>1, <1>2, <1>3, <1>g DEF ResourceInv, StateType
<1>5. UidInv'
    BY <1>1, <1>g, ResourceAssumption DEF ResourceInv, UidInv, StateType
<1>6. PlanInv'
    <2>1. Len(todo') = 0 /\ todo' \in Seq(ReconcileSteps)
        BY <1>1
    <2>2. \A i \in 1..Len(todo') : FALSE
        BY <2>1
    <2>3. ASSUME kind = "memory"
          PROVE  \A r \in {res', cache', snap'} : r.phase \in MemoryPhases
        BY <1>1, <1>p, <2>3 DEF ResourceInv, PlanInv, MemoryPhases
    <2>4. Rest(todo', MemoryPlan(snap'.phase))
        <3>1. PlanLength(NoPhase) = 2 /\ snap'.phase = NoPhase
            BY <1>1, <1>p, MemoryPlans
        <3>2. Len(todo') <= Len(MemoryPlan(snap'.phase))
            BY <2>1, <3>1 DEF PlanLength
        <3>3. QED
            BY <2>2, <3>2 DEF Rest
    <2>5. QED
        BY <1>1, <2>1, <2>2, <2>3, <2>4 DEF ResourceInv, PlanInv
<1>7. MemoryInv'
    <2>1. SUFFICES ASSUME FirstMemory
                   PROVE  MemoryStages'
        BY <1>1 DEF MemoryInv, FirstMemory
    <2>2. MemoryStages
        BY <2>1 DEF ResourceInv, MemoryInv
    <2>3. (Prepared' <=> Prepared) /\ (Has("deployment")' <=> Has("deployment"))
        BY <1>1 DEF Prepared, Has
    <2>4. \A r \in {res', cache', snap'} :
             r.exists /\ r.phase \in {"Starting", "Running"} => Prepared'
        BY <1>1, <1>g, <2>2, <2>3 DEF MemoryStages
    <2>5. QED
        BY <1>1, <2>2, <2>3, <2>4 DEF MemoryStages
<1>8. QED
    BY <1>4, <1>5, <1>6, <1>7 DEF ResourceInv

-----------------------------------------------------------------------------
(* Users and commands *)

\* A user applies another spec.
LEMMA EditKeeps ==
    ASSUME ResourceInv, EditSpec, UNCHANGED <<cmd, created, intent>>
    PROVE  ResourceInv'
<1>1. PICK p \in Parts(kind), v \in Versions : Write([res EXCEPT !.spec[p] = v, !.gen = @ + 1])
    BY DEF EditSpec
<1> DEFINE w == [res EXCEPT !.spec[p] = v, !.gen = @ + 1]
<1>2. res \in Resource(kind)
    BY DEF ResourceInv, StateType
<1>3. [res.spec EXCEPT ![p] = v] \in Specs(kind) /\ res.gen + 1 \in Nat
    BY <1>2 DEF Resource, Specs
<1>4. w \in Resource(kind)
    BY <1>2, <1>3 DEF Resource
<1>5. w.uid = res.uid /\ w.exists = res.exists /\ w.phase = res.phase
    BY <1>2 DEF Resource
<1>6. Updated(w)
    BY <1>4, <1>5, SamePhase
<1>7. Updated(res') /\ cacheFresh' \in BOOLEAN
    BY <1>1, <1>6, WriteType
<1>8. disturbances' \in 0..MaxDisturbances
    BY Bounded DEF EditSpec
<1>9. snapFresh' \in BOOLEAN
    BY Zenon DEF EditSpec
<1>10. UNCHANGED <<kind, cache, snap, todo, seen, dirty, child, pods, pgpods, peer>>
    BY DEF EditSpec, clusterVars
<1>11. QED
    BY <1>7, <1>8, <1>9, <1>10, CommandsStay, WriteKeeps

\* The specs of the commands are specs of the kind.
LEMMA ConfiguredType ==
    ASSUME ResourceInv, NEW v \in Versions
    PROVE  Configured(v) \in Specs(kind)
<1>1. kind \in {"server", "proxy", "memory", "postgres"}
    BY ResourceAssumption DEF ResourceInv, StateType
<1>o. 1 \in Versions /\ 2 \in Versions
    BY DEF Versions
<1>2. CASE kind = "server"
    BY <1>2 DEF Configured, convertServerConfigToMCPServer, Specs
<1>3. CASE kind = "proxy"
    <2>1. /\ Configured(v) = proxySpec(v)
          /\ Parts(kind) = {"replicas", "pod", "type", "ingress", "selector"}
        BY <1>3 DEF Configured, Parts
    <2>2. proxySpec(v) \in [{"replicas", "pod", "type", "ingress", "selector"} -> Versions]
        BY <1>o DEF proxySpec
    <2>3. QED
        BY <2>1, <2>2 DEF Specs
<1>4. CASE kind = "memory"
    BY <1>4 DEF Configured, createMemoryResource, Specs
<1>5. CASE kind = "postgres"
    <2>1. /\ Configured(v) = postgresSpec(v)
          /\ Parts(kind) = {"replicas", "version", "pod", "password", "port"}
        BY <1>5 DEF Configured, Parts
    <2>2. postgresSpec(v) \in [{"replicas", "version", "pod", "password", "port"} -> Versions]
        BY <1>o DEF postgresSpec
    <2>3. QED
        BY <2>1, <2>2 DEF Specs
<1>6. QED
    BY <1>1, <1>2, <1>3, <1>4, <1>5

\* A command that creates the resource, updates it or leaves it as it is.
LEMMA StartKeeps ==
    ASSUME ResourceInv, NEW spec \in Specs(kind), Start(spec),
           UNCHANGED <<kind, cache, snap, todo, seen, dirty, clusterVars>>,
           snapFresh' \in BOOLEAN,
           disturbances' \in 0..MaxDisturbances, intent' \in {"none", "up", "down"},
           cmd' \in Seq(CommandSteps),
           kind # "server" => \A i \in 1..Len(cmd') : cmd'[i] \notin {"deldep", "delsvc"}
    PROVE  ResourceInv'
<1>1. kind \in {"server", "proxy", "memory", "postgres"}
    BY ResourceAssumption DEF ResourceInv, StateType
<1>u. UNCHANGED <<child, pods, pgpods, peer>>
    BY DEF clusterVars
<1>2. CASE ~res.exists
    <2>1. Create(spec)
        BY <1>1, <1>2 DEF Start, startMCPServer, startProxyService,
           enablePostgresService, memoryStart
    <2>2. created < MaxUid /\ created' = created + 1 /\ Write(Fresh(kind, created + 1, spec))
        BY <2>1 DEF Create
    <2>3. res' = Fresh(kind, created + 1, spec) /\ cacheFresh' \in BOOLEAN
        BY <2>2, WriteType
    <2>4. QED
        BY <1>2, <1>u, <2>2, <2>3, CreateKeeps
<1>3. CASE res.exists
    <2> DEFINE srv == [res EXCEPT !.spec = spec, !.fin = FALSE]
               pxy == [res EXCEPT !.spec = spec, !.gen = IF res.spec = spec THEN @ ELSE @ + 1]
    <2>t. res \in Resource(kind)
        BY DEF ResourceInv, StateType
    <2>1. \/ Write(Gone(kind)) /\ created' = created
          \/ Write(srv) /\ created' = created
          \/ Write(pxy) /\ created' = created
          \/ UNCHANGED <<res, cacheFresh, created>>
        BY <1>1, <1>3 DEF Start, startMCPServer, startProxyService,
           enablePostgresService, memoryStart
    <2>2. Updated(srv)
        <3>1. srv \in Resource(kind)
            BY <2>t DEF Resource
        <3>2. srv.uid = res.uid /\ srv.exists = res.exists /\ srv.phase = res.phase
            BY <2>t DEF Resource
        <3>3. QED
            BY <3>1, <3>2, SamePhase
    <2>3. Updated(pxy)
        <3>1. (IF res.spec = spec THEN res.gen ELSE res.gen + 1) \in Nat
            BY <2>t DEF Resource
        <3>2. pxy \in Resource(kind)
            BY <2>t, <3>1 DEF Resource
        <3>3. pxy.uid = res.uid /\ pxy.exists = res.exists /\ pxy.phase = res.phase
            BY <2>t DEF Resource
        <3>4. QED
            BY <3>2, <3>3, SamePhase
    <2> HIDE DEF srv, pxy
    <2>4. Updated(res') /\ cacheFresh' \in BOOLEAN /\ created' = created
        <3>1. CASE Write(Gone(kind)) /\ created' = created
            BY <3>1, WriteType, GoneUpdated
        <3>2. CASE Write(srv) /\ created' = created
            BY <2>2, <3>2, WriteType
        <3>3. CASE Write(pxy) /\ created' = created
            BY <2>3, <3>3, WriteType
        <3>4. CASE UNCHANGED <<res, cacheFresh, created>>
            BY <3>4, SameUpdated DEF ResourceInv, StateType
        <3>5. QED
            BY <2>1, <3>1, <3>2, <3>3, <3>4
    <2>5. QED
        BY <1>u, <2>4, WriteKeeps
<1>4. QED
    BY <1>2, <1>3

\* `matey up' and the commands that start one resource.
LEMMA UpKeeps ==
    ASSUME ResourceInv, Up
    PROVE  ResourceInv'
<1>1. PICK v \in Versions : Start(Configured(v))
    BY DEF Up
<1>2. /\ UNCHANGED <<kind, cache, snap, todo, seen, dirty, clusterVars, cmd>> /\ intent' = "up"
    BY DEF Up
<1>3. disturbances' \in 0..MaxDisturbances
    BY Bounded DEF Up
<1>4. snapFresh' \in BOOLEAN
    BY DEF Up, ResourceInv, StateType
<1>5. /\ intent' \in {"none", "up", "down"} /\ cmd' \in Seq(CommandSteps)
      /\ kind # "server" => \A i \in 1..Len(cmd') : cmd'[i] \notin {"deldep", "delsvc"}
    BY <1>2 DEF ResourceInv, StateType, PlanInv
<1>6. Configured(v) \in Specs(kind)
    BY ConfiguredType
<1>7. QED
    BY <1>1, <1>2, <1>3, <1>4, <1>5, <1>6, StartKeeps

\* `matey install'.
LEMMA InstallKeeps ==
    ASSUME ResourceInv, install
    PROVE  ResourceInv'
<1> DEFINE spec == [p \in Parts(kind) |-> 1]
<1>1. /\ ~res.exists /\ Create(spec) /\ intent' = "up"
      /\ UNCHANGED <<kind, cache, snap, todo, seen, dirty, clusterVars, cmd, disturbances>>
    BY DEF install
<1>2. spec \in Specs(kind)
    BY DEF Specs, Versions
<1> HIDE DEF spec
<1>3. created < MaxUid /\ created' = created + 1 /\ Write(Fresh(kind, created + 1, spec))
    BY <1>1 DEF Create
<1>4. res' = Fresh(kind, created + 1, spec) /\ cacheFresh' \in BOOLEAN
    BY <1>3, WriteType
<1>5. snapFresh' \in BOOLEAN
    BY Zenon DEF install
<1>6. /\ intent' \in {"none", "up", "down"} /\ cmd' \in Seq(CommandSteps)
      /\ disturbances' \in 0..MaxDisturbances
      /\ kind # "server" => \A i \in 1..Len(cmd') : cmd'[i] \notin {"deldep", "delsvc"}
    BY <1>1 DEF ResourceInv, StateType, PlanInv
<1>7. UNCHANGED <<kind, cache, snap, todo, seen, dirty, child, pods, pgpods, peer>>
    BY <1>1 DEF clusterVars
<1>8. QED
    BY <1>1, <1>2, <1>3, <1>4, <1>5, <1>6, <1>7, CreateKeeps

\* Only a server's Stop deletes owned objects by hand.
LEMMA StopPlan ==
    /\ StopSteps \in Seq(CommandSteps)
    /\ StopSteps \o <<"wait", "start">> \in Seq(CommandSteps)
    /\ kind # "server" =>
          /\ \A i \in 1..Len(StopSteps) : StopSteps[i] \notin {"deldep", "delsvc"}
          /\ \A i \in 1..Len(StopSteps \o <<"wait", "start">>) :
                (StopSteps \o <<"wait", "start">>)[i] \notin {"deldep", "delsvc"}
<1> DEFINE Others == CommandSteps \ {"deldep", "delsvc"}
<1>1. /\ "delete" \in Others /\ "wait" \in Others /\ "start" \in Others
      /\ "deldep" \in CommandSteps /\ "delsvc" \in CommandSteps
      /\ "delete" \in CommandSteps /\ "wait" \in CommandSteps /\ "start" \in CommandSteps
    BY DEF CommandSteps
<1>2. \A x \in Others : x \notin {"deldep", "delsvc"}
    OBVIOUS
<1> HIDE DEF Others
<1>3. <<"delete">> \in Seq(Others) /\ <<"wait", "start">> \in Seq(Others)
    BY <1>1
<1>4. /\ <<"delete", "deldep", "delsvc">> \in Seq(CommandSteps)
      /\ <<"delete">> \in Seq(CommandSteps) /\ <<"wait", "start">> \in Seq(CommandSteps)
    BY <1>1
<1>5. StopSteps \in Seq(CommandSteps)
    BY <1>4 DEF StopSteps
<1>6. StopSteps \o <<"wait", "start">> \in Seq(CommandSteps)
    BY <1>4, <1>5, ConcatProperties
<1>7. ASSUME kind # "server"
      PROVE  /\ \A i \in 1..Len(StopSteps) : StopSteps[i] \notin {"deldep", "delsvc"}
             /\ \A i \in 1..Len(StopSteps \o <<"wait", "start">>) :
                   (StopSteps \o <<"wait", "start">>)[i] \notin {"deldep", "delsvc"}
    <2>1. StopSteps \in Seq(Others)
        BY <1>3, <1>7 DEF StopSteps
    <2>2. StopSteps \o <<"wait", "start">> \in Seq(Others)
        BY <1>3, <2>1, ConcatProperties
    <2>3. \A s \in Seq(Others) : \A i \in 1..Len(s) : s[i] \in Others
        BY ElementOfSeq
    <2>4. QED
        BY <1>2, <2>1, <2>2, <2>3
<1>8. QED
    BY <1>5, <1>6, <1>7

\* Stop and Restart begin.
LEMMA StopKeeps ==
    ASSUME ResourceInv, Stop \/ Restart
    PROVE  ResourceInv'
<1>1. UNCHANGED <<kind, apiVars, local, dirty, clusterVars, created, intent>>
    BY DEF Stop, Restart
<1>2. UNCHANGED <<kind, res, cache, cacheFresh, snap, snapFresh, todo, seen, child, pods, pgpods,
                  peer, dirty, created, intent>>
    BY <1>1 DEF apiVars, local, clusterVars
<1>3. disturbances' \in 0..MaxDisturbances
    BY Bounded DEF Stop, Restart
<1>4. cmd' = StopSteps \/ cmd' = StopSteps \o <<"wait", "start">>
    BY DEF Stop, Restart
<1>5. /\ cmd' \in Seq(CommandSteps)
      /\ kind # "server" => \A i \in 1..Len(cmd') : cmd'[i] \notin {"deldep", "delsvc"}
    BY <1>4, StopPlan
<1>6. /\ pods' \in 0..3 /\ pgpods' \in 0..2 /\ intent' \in {"none", "up", "down"}
    BY <1>2 DEF ResourceInv, StateType
<1>7. dirty' \in BOOLEAN /\ peer' \in BOOLEAN
    BY <1>2 DEF ResourceInv, StateType
<1>8. QED
    BY <1>2, <1>3, <1>5, <1>6, <1>7, PodsKeep

\* A step of a command was taken.
LEMMA CommandTail ==
    ASSUME ResourceInv, cmd # <<>>, cmd' = Tail(cmd)
    PROVE  /\ cmd' \in Seq(CommandSteps)
           /\ kind # "server" => \A i \in 1..Len(cmd') : cmd'[i] \notin {"deldep", "delsvc"}
<1>1. cmd \in Seq(CommandSteps)
    BY DEF ResourceInv, StateType
<1>2. /\ Tail(cmd) \in Seq(CommandSteps) /\ Len(Tail(cmd)) = Len(cmd) - 1
      /\ \A i \in 1..Len(Tail(cmd)) : Tail(cmd)[i] = cmd[i + 1]
      /\ Len(cmd) \in Nat
    BY <1>1, HeadTailProperties, EmptySeq, LenProperties
<1>3. ASSUME kind # "server" PROVE \A i \in 1..Len(cmd') : cmd'[i] \notin {"deldep", "delsvc"}
    <2>1. \A i \in 1..Len(cmd) : cmd[i] \notin {"deldep", "delsvc"}
        BY <1>3 DEF ResourceInv, PlanInv
    <2>2. \A i \in 1..Len(Tail(cmd)) : i + 1 \in 1..Len(cmd)
        BY <1>2
    <2>3. QED
        BY <1>2, <2>1, <2>2
<1>4. QED
    BY <1>2, <1>3

\* A command moves on or ends.
LEMMA FinishType ==
    ASSUME ResourceInv, NEW what \in {"up", "down"}, Finish(what)
    PROVE  cmd' = Tail(cmd) /\ intent' \in {"none", "up", "down"}
BY DEF ResourceInv, StateType, Finish

\* The resource is deleted, at once or when its finalizer goes.
LEMMA DeleteKeeps ==
    ASSUME ResourceInv, DeleteCR
    PROVE  ResourceInv'
<1>1. /\ cmd # <<>> /\ Finish("down")
      /\ UNCHANGED <<kind, cache, snap, todo, seen, dirty, clusterVars, created, disturbances>>
    BY DEF DeleteCR
<1>2. cmd' = Tail(cmd) /\ intent' \in {"none", "up", "down"}
    BY <1>1, FinishType
<1>3. /\ cmd' \in Seq(CommandSteps)
      /\ kind # "server" => \A i \in 1..Len(cmd') : cmd'[i] \notin {"deldep", "delsvc"}
    BY <1>1, <1>2, CommandTail
<1>4. snapFresh' \in BOOLEAN
    BY DEF DeleteCR, ResourceInv, StateType
<1>5. disturbances' \in 0..MaxDisturbances
    BY <1>1, Bounded
<1>6. UNCHANGED <<kind, cache, snap, todo, seen, dirty, child, pods, pgpods, peer, created>>
    BY <1>1 DEF clusterVars
<1> DEFINE w == [res EXCEPT !.deleting = TRUE]
<1>7. Updated(w)
    <2>1. res \in Resource(kind)
        BY DEF ResourceInv, StateType
    <2>2. w \in Resource(kind)
        BY <2>1 DEF Resource
    <2>3. w.uid = res.uid /\ w.exists = res.exists /\ w.phase = res.phase
        BY <2>1 DEF Resource
    <2>4. QED
        BY <2>2, <2>3, SamePhase
<1>8. Write(w) \/ Write(Gone(kind)) \/ UNCHANGED <<res, cacheFresh>>
    BY DEF DeleteCR, Deleted
<1> HIDE DEF w
<1>9. Updated(res') /\ cacheFresh' \in BOOLEAN
    <2>1. CASE Write(w)
        BY <1>7, <2>1, WriteType
    <2>2. CASE Write(Gone(kind))
        BY <2>2, GoneUpdated, WriteType
    <2>3. CASE UNCHANGED <<res, cacheFresh>>
        BY <2>3, SameUpdated DEF ResourceInv, StateType
    <2>4. QED
        BY <1>8, <2>1, <2>2, <2>3
<1>10. QED
    BY <1>2, <1>3, <1>4, <1>5, <1>6, <1>9, WriteKeeps

\* The clean-up by hand, which only a server has.
LEMMA DeleteOwnedKeeps ==
    ASSUME ResourceInv, DeleteOwned
    PROVE  ResourceInv'
<1>1. /\ cmd # <<>> /\ Head(cmd) \in {"deldep", "delsvc"} /\ Finish("down")
      /\ UNCHANGED <<kind, apiVars, local, pgpods, peer, created, disturbances>>
    BY DEF DeleteOwned
<1>2. cmd' = Tail(cmd) /\ intent' \in {"none", "up", "down"}
    BY <1>1, FinishType
<1>3. /\ cmd' \in Seq(CommandSteps)
      /\ kind # "server" => \A i \in 1..Len(cmd') : cmd'[i] \notin {"deldep", "delsvc"}
    BY <1>1, <1>2, CommandTail
<1>4. kind = "server"
    <2>1. cmd \in Seq(CommandSteps)
        BY DEF ResourceInv, StateType
    <2>2. Head(cmd) = cmd[1] /\ 1 \in 1..Len(cmd)
        BY <1>1, <2>1, EmptySeq
    <2>3. QED
        BY <1>1, <2>2 DEF ResourceInv, PlanInv
<1>5. ~FirstMemory
    BY <1>4 DEF FirstMemory
<1>6. PICK c \in Names : /\ child' = [child EXCEPT ![c] = NoChild]
                         /\ pods' = (IF c = "deployment" THEN 0 ELSE pods)
                         /\ dirty' = (dirty \/ Has(c))
    BY DEF DeleteOwned, Names
<1>7. pods' \in 0..3 /\ pgpods' \in 0..2 /\ disturbances' \in 0..MaxDisturbances
    BY <1>1, <1>6 DEF ResourceInv, StateType
<1>8. dirty' \in BOOLEAN
    BY <1>6 DEF ResourceInv, StateType, Has
<1>9. UNCHANGED <<kind, res, cache, cacheFresh, snap, snapFresh, todo, seen, peer, created>>
    BY <1>1 DEF apiVars, local
<1>10. QED
    BY <1>2, <1>3, <1>5, <1>6, <1>7, <1>8, <1>9, NoChildKeeps

\* waitForDeploymentDeleted.
LEMMA WaitKeeps ==
    ASSUME ResourceInv, waitForDeploymentDeleted
    PROVE  ResourceInv'
<1>1. cmd # <<>> /\ cmd' = Tail(cmd) /\ UNCHANGED <<resourceVars, created, intent>>
    BY DEF waitForDeploymentDeleted
<1>2. UNCHANGED <<kind, res, cache, cacheFresh, snap, snapFresh, todo, seen, child, pods, pgpods,
                  peer, dirty, disturbances>>
    BY <1>1 DEF resourceVars, apiVars, local, clusterVars
<1>3. /\ cmd' \in Seq(CommandSteps)
      /\ kind # "server" => \A i \in 1..Len(cmd') : cmd'[i] \notin {"deldep", "delsvc"}
    BY <1>1, CommandTail
<1>4. /\ pods' \in 0..3 /\ pgpods' \in 0..2 /\ intent' \in {"none", "up", "down"}
      /\ disturbances' \in 0..MaxDisturbances
    BY <1>1, <1>2 DEF ResourceInv, StateType
<1>5. dirty' \in BOOLEAN /\ peer' \in BOOLEAN
    BY <1>2 DEF ResourceInv, StateType
<1>6. QED
    BY <1>1, <1>2, <1>3, <1>4, <1>5, PodsKeep

\* The second half of a Restart.
LEMMA StartAgainKeeps ==
    ASSUME ResourceInv, StartAgain
    PROVE  ResourceInv'
<1>1. /\ cmd # <<>> /\ Start(res.spec) /\ Finish("up")
      /\ UNCHANGED <<kind, cache, snap, todo, seen, dirty, clusterVars, disturbances>>
    BY DEF StartAgain
<1>2. cmd' = Tail(cmd) /\ intent' \in {"none", "up", "down"}
    BY <1>1, FinishType
<1>3. /\ cmd' \in Seq(CommandSteps)
      /\ kind # "server" => \A i \in 1..Len(cmd') : cmd'[i] \notin {"deldep", "delsvc"}
    BY <1>1, <1>2, CommandTail
<1>4. snapFresh' \in BOOLEAN
    BY DEF StartAgain, ResourceInv, StateType
<1>5. disturbances' \in 0..MaxDisturbances
    BY <1>1, Bounded
<1>6. res.spec \in Specs(kind)
    BY DEF ResourceInv, StateType, Resource
<1>7. QED
    BY <1>1, <1>2, <1>3, <1>4, <1>5, <1>6, StartKeeps

\* The proxy's Deployment is scaled or its pods rolled.
LEMMA SystemServiceKeeps ==
    ASSUME ResourceInv, SystemService
    PROVE  ResourceInv'
<1>1. /\ kind = "proxy"
      /\ startSystemService \/ stopSystemService \/ restartSystemService
      /\ UNCHANGED <<kind, apiVars, local, pgpods, peer, cmd, created, intent>>
    BY DEF SystemService
<1>2. UNCHANGED <<kind, res, cache, cacheFresh, snap, snapFresh, todo, seen, pgpods, peer, created>>
    BY <1>1 DEF apiVars, local
<1>3. /\ intent' \in {"none", "up", "down"} /\ cmd' \in Seq(CommandSteps)
      /\ kind # "server" => \A i \in 1..Len(cmd') : cmd'[i] \notin {"deldep", "delsvc"}
    BY <1>1 DEF ResourceInv, StateType, PlanInv
<1>4. disturbances' \in 0..MaxDisturbances
    BY Bounded DEF SystemService
<1>5. dirty' \in BOOLEAN
    BY Zenon DEF SystemService
<1>p. peer' \in BOOLEAN
    BY <1>2 DEF ResourceInv, StateType
<1>6. pods' \in 0..3 /\ pgpods' \in 0..2
    BY <1>1 DEF ResourceInv, StateType, startSystemService, stopSystemService, Scale,
                restartSystemService
<1>7. CASE UNCHANGED child
    BY <1>2, <1>3, <1>4, <1>5, <1>p, <1>6, <1>7, PodsKeep
<1>8. ASSUME NEW n, child' = [child EXCEPT !["deployment"].built["replicas"] = n]
      PROVE  ResourceInv'
    <2>1. "deployment" \in Names
        BY DEF Names
    <2> DEFINE old == child["deployment"]
               o == [old EXCEPT !.built["replicas"] = n]
    <2>2. child' = [child EXCEPT !["deployment"] = o]
        BY <1>8
    <2>3. /\ old = [uid |-> old.uid, built |-> old.built] /\ old.uid \in 0..MaxUid
          /\ old.uid <= created
        BY <2>1 DEF ResourceInv, StateType, UidInv
    <2>4. o = [uid |-> old.uid, built |-> [old.built EXCEPT !["replicas"] = n]]
        <3> HIDE DEF old
        <3>1. QED
            BY <2>3
    <2>5. o = [uid |-> o.uid, built |-> o.built] /\ o.uid \in 0..MaxUid /\ o.uid <= created
        <3> HIDE DEF old, o
        <3>1. QED
            BY <2>3, <2>4
    <2>6. ~FirstMemory
        BY <1>1 DEF FirstMemory
    <2> HIDE DEF old, o
    <2>7. QED
        BY <1>2, <1>3, <1>4, <1>5, <1>6, <2>1, <2>2, <2>5, <2>6, ChildKeeps
<1>9. QED
    BY <1>1, <1>7, <1>8 DEF startSystemService, stopSystemService, Scale, restartSystemService

-----------------------------------------------------------------------------
\* A step of a command, of a controller or of the cluster.
LEMMA ResourceStep ==
    ASSUME ResourceInv, [CommandNext]_allVars
    PROVE  ResourceInv'
<1>1. CASE Command
    BY <1>1, UpKeeps, InstallKeeps, StopKeeps, SystemServiceKeeps DEF Command
<1>2. CASE CommandStep
    BY <1>2, DeleteKeeps, DeleteOwnedKeeps, WaitKeeps, StartAgainKeeps DEF CommandStep
<1>3. CASE Controller
    <2>1. UNCHANGED <<cmd, created, intent>>
        BY <1>3 DEF Controller
    <2>2. QED
        BY <1>3, <2>1, FetchKeeps, GoOnKeeps, StepFinalizer, EnsureKeeps, DiscoverKeeps,
           ServerStatusKeeps, ProxyStatusKeeps, PostgresStatusKeeps, MemoryPhaseKeeps,
           StartingKeeps, RunningKeeps DEF Controller, ReconcileStep
<1>4. CASE ClusterStep
    <2>1. UNCHANGED <<cmd, created, intent>>
        BY <1>4 DEF ClusterStep
    <2>2. QED
        BY <1>4, <2>1, CatchUpKeeps, EditKeeps, ProgressKeeps, LostKeeps, PeerKeeps,
           EnsureFailsKeeps, RestartsKeeps, CollectKeeps DEF ClusterStep, Cluster
<1>5. CASE UNCHANGED allVars
    BY <1>5 DEF allVars, resourceVars, apiVars, local, clusterVars,
       ResourceInv, StateType, UidInv, PlanInv,
       Rest, MemoryInv, FirstMemory, MemoryStages, Prepared, Has
<1>6. QED
    BY <1>1, <1>2, <1>3, <1>4, <1>5 DEF CommandNext

\* The invariant says what the resources run checks.
LEMMA ResourceMeans ==
    ASSUME ResourceInv
    PROVE  ResourcesAreSound
<1>1. ResourceTypeOK
    <2>1. \A r \in Resource(kind) : IsResource(r)
        BY DEF Resource, IsResource
    <2>2. QED
        BY <2>1 DEF ResourceInv, StateType, ResourceTypeOK
<1>2. CommandTypeOK
    <2>1. cmd \in Seq(CommandSteps)
        BY DEF ResourceInv, StateType
    <2>2. \A i \in 1..Len(cmd) : cmd[i] \in CommandSteps
        BY <2>1, ElementOfSeq
    <2>3. QED
        BY <1>1, <2>2 DEF ResourceInv, StateType, CommandTypeOK
<1>3. MemoryDeploymentLast
    BY DEF ResourceInv, MemoryInv, FirstMemory, MemoryStages, Prepared, Needed,
           MemoryDeploymentLast
<1>4. QED
    BY <1>2, <1>3 DEF ResourcesAreSound

\* For every set of kinds, every number of disturbances and of creations: what
\* the controllers and the commands hold has its type, and a memory server's
\* Deployment and its phases Starting and Running come after the objects that
\* it needs, whatever a stale cache, a refused update or a failing call does.
THEOREM ResourcesStaySound == CommandSpec => []ResourcesAreSound
<1>1. CommandInit => ResourceInv
    BY CommandsStart
<1>2. ResourceInv /\ [CommandNext]_allVars => ResourceInv'
    BY ResourceStep
<1>3. ResourceInv => ResourcesAreSound
    BY ResourceMeans
<1>4. QED
    BY <1>1, <1>2, <1>3, PTL DEF CommandSpec
=============================================================================
