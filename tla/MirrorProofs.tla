--------------------------- MODULE MirrorProofs -----------------------------
(***************************************************************************)
(* Proofs about Mirror, for any texts and questions, any capacity of the   *)
(* channel, and any number of changes, calls and lives of the daemon.      *)
(***************************************************************************)
EXTENDS Mirror, SequenceTheorems, TLAPS

Texts == Results \cup {"none"}
Asked == Questions \cup {"none"}
Facts == [state : States, result : Texts]
Props == [name : {"state"}, value : States] \cup [name : {"result"}, value : Texts]
           \cup [name : {"enabled"}, value : BOOLEAN]
Tasks == {"starting", "select", "napping", "fetching", "setting", "calling"}

\* The types of everything the properties depend on.
Typed ==
  /\ up \in BOOLEAN /\ changed \in BOOLEAN /\ missed \in BOOLEAN /\ enabled \in BOOLEAN
  /\ status \in Facts /\ previous \in Facts
  /\ publishing \in Seq({"get", "state", "result"}) /\ notices \in Seq(Questions)
  /\ setter \in {"nobody", "ui", "other"}
  /\ control \in Seq({"ui", "enabled"}) /\ Len(control) <= ControlQueue
  /\ signals \in [state : Seq(States), props : Seq(Props), confirm : Seq(Questions),
                  owner : Seq({"here", "gone"})]
  /\ worker \in [task : Tasks, value : States \cup {"none"}]
  /\ worker.task = "fetching" => worker.value = "idle"
  /\ connected \in BOOLEAN
  /\ commands \in Seq([kind : {"enabled", "call"}, on : BOOLEAN])
  /\ ui \in [state : Shown, result : Texts, enabled : BOOLEAN, question : Asked]

\* Who waits for whom: the UI's worker for the lock it holds, or for the answer to
\* the one request it has in the channel.
Linked ==
  /\ setter = "ui" <=> worker.task = "setting"
  /\ \A i \in 1..Len(control) : control[i] = "ui" => worker.task = "calling"
  /\ \A i, j \in 1..Len(control) : control[i] = "ui" /\ control[j] = "ui" => i = j

\* A daemon that is not there has nothing under way, and a publisher that was not
\* woken has seen the status.
Reset == ~up => /\ status = Default /\ ~changed /\ ~missed
                /\ publishing = <<>> /\ setter = "nobody"
Seen == ~changed => previous = status

\* The last the UI hears of the name on the bus is true.
OwnerTrue ==
  /\ signals.owner # <<>> => (signals.owner[Len(signals.owner)] = "here" <=> up)
  /\ signals.owner = <<>> /\ worker.task \notin {"starting", "napping"} => connected = up
-----------------------------------------------------------------------------
\* Some signal of a stream is about a property; the last one has this value.
About(s, name) == \E i \in 1..Len(s) : s[i].name = name
Latest(s, name, v) ==
  \A i \in 1..Len(s) : s[i].name = name /\ (\A j \in 1..Len(s) : j > i => s[j].name # name)
                         => s[i].value = v

\* The publisher will find a fact changed, or has found it.
Owed(name) == changed /\ status[name] # previous[name]
Comes(name) == Owed(name) \/ Contains(publishing, name)
Getting == publishing # <<>> /\ Head(publishing) = "get" /\ Contains(publishing, "state")

\* The last signal of each kind says what is so, unless another is to come.
SwitchSent == up /\ setter = "nobody" => Latest(signals.props, "enabled", enabled)
FactsSent == up /\ ~missed =>
  \A name \in {"state", "result"} :
    Comes(name) \/ Latest(signals.props, name, status[name])
StateSent == up /\ ~missed =>
  \/ Owed("state") \/ Getting
  \/ IF signals.state # <<>> THEN signals.state[Len(signals.state)] = status.state
     ELSE worker.task = "fetching" => worker.value = status.state

\* The worker has read everything from this daemon, and will hear of no other.
Settled == /\ worker.task \notin {"starting", "napping"} /\ connected
           /\ ~Contains(signals.owner, "gone")

\* From then on what the UI shows is so, unless something is on its way.
SwitchShown == up /\ Settled =>
  \/ ui.enabled = enabled \/ setter # "nobody" \/ About(signals.props, "enabled")
  \/ \E i \in 1..Len(commands) : commands[i].kind = "enabled"
ResultShown == up /\ Settled =>
  missed \/ ui.result = status.result \/ Comes("result") \/ About(signals.props, "result")
StateShown == up /\ Settled =>
  \/ missed \/ ui.state = status.state \/ Comes("state") \/ About(signals.props, "state")
  \/ signals.state # <<>> \/ worker.task = "fetching"

Inv == /\ Typed /\ Linked /\ Reset /\ Seen /\ OwnerTrue
       /\ SwitchSent /\ FactsSent /\ StateSent
       /\ SwitchShown /\ ResultShown /\ StateShown
-----------------------------------------------------------------------------
(* Streams. *)

\* Sending something on a stream.
LEMMA Sending ==
  ASSUME NEW S, NEW s \in Seq(S), NEW e \in S
  PROVE  /\ Append(s, e) \in Seq(S) /\ Append(s, e) # <<>> /\ Len(Append(s, e)) = Len(s) + 1
         /\ Append(s, e)[Len(s) + 1] = e
         /\ \A i \in 1..Len(s) : Append(s, e)[i] = s[i]
         /\ \A x : Contains(Append(s, e), x) <=> Contains(s, x) \/ x = e
<1>1. /\ Append(s, e) \in Seq(S) /\ Append(s, e) # <<>> /\ Len(Append(s, e)) = Len(s) + 1
      /\ Append(s, e)[Len(s) + 1] = e
      /\ \A i \in 1..Len(s) : Append(s, e)[i] = s[i]
  OBVIOUS
<1>2. Len(s) \in Nat /\ \A i : i \in 1..(Len(s) + 1) <=> i \in 1..Len(s) \/ i = Len(s) + 1
  OBVIOUS
<1>3. ASSUME NEW x PROVE Contains(Append(s, e), x) <=> Contains(s, x) \/ x = e
  BY <1>1, <1>2 DEF Contains
<1> QED BY <1>1, <1>3

\* Taking something from a stream.
LEMMA Taking ==
  ASSUME NEW S, NEW s \in Seq(S), s # <<>>
  PROVE  /\ Head(s) \in S /\ Tail(s) \in Seq(S) /\ Len(s) > 0 /\ Head(s) = s[1]
         /\ Len(Tail(s)) = Len(s) - 1
         /\ \A i \in 1..Len(Tail(s)) : i + 1 \in 1..Len(s) /\ Tail(s)[i] = s[i + 1]
         /\ \A x : Contains(s, x) <=> Contains(Tail(s), x) \/ x = Head(s)
         /\ Tail(s) = <<>> => Len(s) = 1
         /\ Tail(s) # <<>> => Tail(s)[Len(Tail(s))] = s[Len(s)]
<1>1. /\ Head(s) \in S /\ Tail(s) \in Seq(S) /\ Len(s) > 0 /\ Len(s) \in Nat /\ Head(s) = s[1]
      /\ Len(Tail(s)) = Len(s) - 1
      /\ \A i \in 1..Len(Tail(s)) : i + 1 \in 1..Len(s) /\ Tail(s)[i] = s[i + 1]
  OBVIOUS
<1>2. \A i \in 1..Len(s) : i = 1 \/ (i - 1 \in 1..Len(Tail(s)) /\ (i - 1) + 1 = i)
  BY <1>1
<1>3. ASSUME NEW x PROVE Contains(s, x) <=> Contains(Tail(s), x) \/ x = Head(s)
  <2>1. ASSUME NEW i \in 1..Len(s), s[i] = x PROVE Contains(Tail(s), x) \/ x = Head(s)
    <3>1. i # 1 => Tail(s)[i - 1] = s[i]
      BY <1>1, <1>2
    <3> QED BY <1>1, <1>2, <2>1, <3>1 DEF Contains
  <2>2. 1 \in 1..Len(s)
    BY <1>1
  <2> QED BY <1>1, <2>1, <2>2 DEF Contains
<1>4. Tail(s) = <<>> => Len(s) = 1
  <2>1. Len(<<>>) = 0
    OBVIOUS
  <2>2. Tail(s) = <<>> => Len(Tail(s)) = Len(<<>>)
    BY Zenon
  <2> HIDE <1>1
  <2>3. Len(Tail(s)) = Len(s) - 1 /\ Len(s) \in Nat
    BY <1>1
  <2> QED BY <2>1, <2>2, <2>3
<1>5. Tail(s) # <<>> => Tail(s)[Len(Tail(s))] = s[Len(s)]
  <2> SUFFICES ASSUME Tail(s) # <<>> PROVE Tail(s)[Len(Tail(s))] = s[Len(s)]
    OBVIOUS
  <2>1. Len(Tail(s)) \in 1..Len(Tail(s))
    BY <1>1
  <2>2. Len(Tail(s)) + 1 = Len(s)
    BY <1>1
  <2> QED BY <1>1, <2>1, <2>2
<1> QED BY <1>1, <1>3, <1>4, <1>5

\* Putting streams together.
LEMMA Joining ==
  ASSUME NEW S, NEW s \in Seq(S), NEW t \in Seq(S)
  PROVE  /\ s \o t \in Seq(S)
         /\ \A x : Contains(s \o t, x) <=> Contains(s, x) \/ Contains(t, x)
         /\ s # <<>> => s \o t # <<>> /\ Head(s \o t) = Head(s)
<1>1. /\ s \o t \in Seq(S) /\ Len(s \o t) = Len(s) + Len(t)
      /\ Len(s) \in Nat /\ Len(t) \in Nat
      /\ \A i \in 1..Len(s) + Len(t) :
           (s \o t)[i] = IF i <= Len(s) THEN s[i] ELSE t[i - Len(s)]
  BY ConcatProperties
<1>2. ASSUME NEW x PROVE Contains(s \o t, x) <=> Contains(s, x) \/ Contains(t, x)
  <2>1. ASSUME NEW i \in 1..Len(s), s[i] = x PROVE Contains(s \o t, x)
    BY <1>1, <2>1 DEF Contains
  <2>2. ASSUME NEW i \in 1..Len(t), t[i] = x PROVE Contains(s \o t, x)
    <3>1. Len(s) + i \in 1..Len(s) + Len(t) /\ ~(Len(s) + i <= Len(s)) /\ (Len(s) + i) - Len(s) = i
      BY <1>1
    <3> QED BY <1>1, <2>2, <3>1 DEF Contains
  <2>3. ASSUME NEW i \in 1..Len(s \o t), (s \o t)[i] = x PROVE Contains(s, x) \/ Contains(t, x)
    <3>1. i \in 1..Len(s) \/ (~(i <= Len(s)) /\ i - Len(s) \in 1..Len(t))
      BY <1>1
    <3> QED BY <1>1, <2>3, <3>1 DEF Contains
  <2> QED BY <2>1, <2>2, <2>3 DEF Contains
<1>3. s # <<>> => s \o t # <<>> /\ Head(s \o t) = Head(s)
  BY <1>1
<1> QED BY <1>1, <1>2, <1>3

\* A signal sent about a property is the latest about it, and leaves the others.
LEMMA SentLatest ==
  ASSUME NEW s \in Seq(Props), NEW p \in Props, NEW name, NEW v
  PROVE  /\ p.name = name /\ p.value = v => Latest(Append(s, p), name, v)
         /\ p.name # name /\ Latest(s, name, v) => Latest(Append(s, p), name, v)
         /\ About(s, name) \/ p.name = name => About(Append(s, p), name)
<1> DEFINE a == Append(s, p)
<1>1. /\ Len(a) = Len(s) + 1 /\ Len(s) \in Nat /\ a[Len(s) + 1] = p
      /\ \A i \in 1..Len(s) : a[i] = s[i]
  BY Sending
<1> HIDE DEF a
<1>2. \A i : i \in 1..Len(a) <=> i \in 1..Len(s) \/ i = Len(s) + 1
  BY <1>1
<1>3. \A i \in 1..Len(s) : Len(s) + 1 > i
  BY <1>1
<1>4. p.name = name /\ p.value = v => Latest(a, name, v)
  BY <1>1, <1>2, <1>3 DEF Latest
<1>5. p.name # name /\ Latest(s, name, v) => Latest(a, name, v)
  <2> SUFFICES ASSUME p.name # name, Latest(s, name, v), NEW i \in 1..Len(a), a[i].name = name,
                      \A j \in 1..Len(a) : j > i => a[j].name # name
               PROVE  a[i].value = v
    BY DEF Latest
  <2>1. i \in 1..Len(s) /\ s[i] = a[i]
    BY <1>1, <1>2
  <2>2. \A j \in 1..Len(s) : j > i => s[j].name # name
    BY <1>1, <1>2
  <2> QED BY <2>1, <2>2 DEF Latest
<1>6. About(s, name) \/ p.name = name => About(a, name)
  BY <1>1, <1>2 DEF About
<1> QED BY <1>4, <1>5, <1>6 DEF a

\* The one taken was the last about its property, or there is another.
LEMMA TakenLatest ==
  ASSUME NEW s \in Seq(Props), s # <<>>, NEW name, NEW v
  PROVE  /\ Latest(s, name, v) => Latest(Tail(s), name, v)
         /\ Latest(s, name, v) /\ Head(s).name = name /\ ~About(Tail(s), name) => Head(s).value = v
         /\ About(s, name) /\ Head(s).name # name => About(Tail(s), name)
<1> DEFINE a == Tail(s)
<1>1. /\ Len(s) > 0 /\ Len(s) \in Nat /\ Head(s) = s[1] /\ Len(a) = Len(s) - 1
      /\ \A i \in 1..Len(a) : i + 1 \in 1..Len(s) /\ a[i] = s[i + 1]
  BY Taking
<1> HIDE DEF a
<1>2. \A i \in 1..Len(s) : i = 1 \/ (i - 1 \in 1..Len(a) /\ a[i - 1] = s[i])
  BY <1>1
<1>3. 1 \in 1..Len(s)
  BY <1>1
<1>4. Latest(s, name, v) => Latest(a, name, v)
  <2> SUFFICES ASSUME Latest(s, name, v), NEW i \in 1..Len(a), a[i].name = name,
                      \A j \in 1..Len(a) : j > i => a[j].name # name
               PROVE  a[i].value = v
    BY DEF Latest
  <2>1. i + 1 \in 1..Len(s) /\ s[i + 1] = a[i]
    BY <1>1
  <2>2. ASSUME NEW j \in 1..Len(s), j > i + 1 PROVE s[j].name # name
    <3>1. j - 1 \in 1..Len(a) /\ a[j - 1] = s[j] /\ j - 1 > i
      BY <1>1, <1>2, <2>2
    <3> QED BY <3>1
  <2> QED BY <2>1, <2>2 DEF Latest
<1>5. Latest(s, name, v) /\ Head(s).name = name /\ ~About(a, name) => Head(s).value = v
  <2> SUFFICES ASSUME Latest(s, name, v), s[1].name = name, ~About(a, name) PROVE s[1].value = v
    BY <1>1
  <2>1. ASSUME NEW j \in 1..Len(s), j > 1 PROVE s[j].name # name
    BY <1>2, <2>1 DEF About
  <2> QED BY <1>3, <2>1 DEF Latest
<1>6. About(s, name) /\ Head(s).name # name => About(a, name)
  <2> SUFFICES ASSUME About(s, name), s[1].name # name PROVE About(a, name)
    BY <1>1
  <2>1. PICK i \in 1..Len(s) : s[i].name = name
    BY DEF About
  <2> QED BY <1>2, <2>1 DEF About
<1> QED BY <1>4, <1>5, <1>6 DEF a

\* Nothing was sent on an empty stream.
LEMMA EmptyStreams ==
  /\ \A name, v : Latest(<<>>, name, v) /\ ~About(<<>>, name)
  /\ \A x : ~Contains(<<>>, x)
BY DEF Latest, About, Contains
-----------------------------------------------------------------------------
(* Types. *)

Streams == [state : Seq(States), props : Seq(Props), confirm : Seq(Questions),
            owner : Seq({"here", "gone"})]

\* One stream is replaced, and the others stay as they were.
LEMMA Replaced ==
  ASSUME NEW A, NEW B, NEW C, NEW D, NEW r \in [state : A, props : B, confirm : C, owner : D]
  PROVE  /\ \A x \in A :
              /\ [r EXCEPT !["state"] = x] \in [state : A, props : B, confirm : C, owner : D] /\ [r EXCEPT !["state"] = x].state = x
              /\ [r EXCEPT !["state"] = x].props = r.props
              /\ [r EXCEPT !["state"] = x].confirm = r.confirm
              /\ [r EXCEPT !["state"] = x].owner = r.owner
         /\ \A x \in B :
              /\ [r EXCEPT !["props"] = x] \in [state : A, props : B, confirm : C, owner : D] /\ [r EXCEPT !["props"] = x].props = x
              /\ [r EXCEPT !["props"] = x].state = r.state
              /\ [r EXCEPT !["props"] = x].confirm = r.confirm
              /\ [r EXCEPT !["props"] = x].owner = r.owner
         /\ \A x \in C :
              /\ [r EXCEPT !["confirm"] = x] \in [state : A, props : B, confirm : C, owner : D] /\ [r EXCEPT !["confirm"] = x].confirm = x
              /\ [r EXCEPT !["confirm"] = x].state = r.state
              /\ [r EXCEPT !["confirm"] = x].props = r.props
              /\ [r EXCEPT !["confirm"] = x].owner = r.owner
         /\ \A x \in D :
              /\ [r EXCEPT !["owner"] = x] \in [state : A, props : B, confirm : C, owner : D] /\ [r EXCEPT !["owner"] = x].owner = x
              /\ [r EXCEPT !["owner"] = x].state = r.state
              /\ [r EXCEPT !["owner"] = x].props = r.props
              /\ [r EXCEPT !["owner"] = x].confirm = r.confirm
<1>1. ASSUME NEW x \in A
      PROVE  /\ [r EXCEPT !["state"] = x] \in [state : A, props : B, confirm : C, owner : D] /\ [r EXCEPT !["state"] = x].state = x
             /\ [r EXCEPT !["state"] = x].props = r.props
             /\ [r EXCEPT !["state"] = x].confirm = r.confirm
             /\ [r EXCEPT !["state"] = x].owner = r.owner
  OBVIOUS
<1>2. ASSUME NEW x \in B
      PROVE  /\ [r EXCEPT !["props"] = x] \in [state : A, props : B, confirm : C, owner : D] /\ [r EXCEPT !["props"] = x].props = x
             /\ [r EXCEPT !["props"] = x].state = r.state
             /\ [r EXCEPT !["props"] = x].confirm = r.confirm
             /\ [r EXCEPT !["props"] = x].owner = r.owner
  OBVIOUS
<1>3. ASSUME NEW x \in C
      PROVE  /\ [r EXCEPT !["confirm"] = x] \in [state : A, props : B, confirm : C, owner : D] /\ [r EXCEPT !["confirm"] = x].confirm = x
             /\ [r EXCEPT !["confirm"] = x].state = r.state
             /\ [r EXCEPT !["confirm"] = x].props = r.props
             /\ [r EXCEPT !["confirm"] = x].owner = r.owner
  OBVIOUS
<1>4. ASSUME NEW x \in D
      PROVE  /\ [r EXCEPT !["owner"] = x] \in [state : A, props : B, confirm : C, owner : D] /\ [r EXCEPT !["owner"] = x].owner = x
             /\ [r EXCEPT !["owner"] = x].state = r.state
             /\ [r EXCEPT !["owner"] = x].props = r.props
             /\ [r EXCEPT !["owner"] = x].confirm = r.confirm
  OBVIOUS
<1> QED BY <1>1, <1>2, <1>3, <1>4

\* A set of streams with one replaced.
Put(r, stream, x) == [r EXCEPT ![stream] = x]

\* The same of the UI's streams.
LEMMA Rerouted ==
  ASSUME NEW r \in Streams
  PROVE  /\ \A x \in Seq(States) :
              /\ Put(r, "state", x) \in Streams /\ Put(r, "state", x).state = x
              /\ Put(r, "state", x).props = r.props
              /\ Put(r, "state", x).confirm = r.confirm
              /\ Put(r, "state", x).owner = r.owner
         /\ \A x \in Seq(Props) :
              /\ Put(r, "props", x) \in Streams /\ Put(r, "props", x).props = x
              /\ Put(r, "props", x).state = r.state
              /\ Put(r, "props", x).confirm = r.confirm
              /\ Put(r, "props", x).owner = r.owner
         /\ \A x \in Seq(Questions) :
              /\ Put(r, "confirm", x) \in Streams /\ Put(r, "confirm", x).confirm = x
              /\ Put(r, "confirm", x).state = r.state
              /\ Put(r, "confirm", x).props = r.props
              /\ Put(r, "confirm", x).owner = r.owner
         /\ \A x \in Seq({"here", "gone"}) :
              /\ Put(r, "owner", x) \in Streams /\ Put(r, "owner", x).owner = x
              /\ Put(r, "owner", x).state = r.state
              /\ Put(r, "owner", x).props = r.props
              /\ Put(r, "owner", x).confirm = r.confirm
<1> DEFINE A == Seq(States)
           B == Seq(Props)
           C == Seq(Questions)
           D == Seq({"here", "gone"})
<1>1. Streams = [state : A, props : B, confirm : C, owner : D]
  BY DEF Streams
<1> HIDE DEF A, B, C, D
<1>2. r \in [state : A, props : B, confirm : C, owner : D]
  BY <1>1
<1>3. ASSUME NEW x \in A
      PROVE  /\ Put(r, "state", x) \in Streams /\ Put(r, "state", x).state = x
             /\ Put(r, "state", x).props = r.props
             /\ Put(r, "state", x).confirm = r.confirm
             /\ Put(r, "state", x).owner = r.owner
  BY <1>1, <1>2, Replaced DEF Put
<1>4. ASSUME NEW x \in B
      PROVE  /\ Put(r, "props", x) \in Streams /\ Put(r, "props", x).props = x
             /\ Put(r, "props", x).state = r.state
             /\ Put(r, "props", x).confirm = r.confirm
             /\ Put(r, "props", x).owner = r.owner
  BY <1>1, <1>2, Replaced DEF Put
<1>5. ASSUME NEW x \in C
      PROVE  /\ Put(r, "confirm", x) \in Streams /\ Put(r, "confirm", x).confirm = x
             /\ Put(r, "confirm", x).state = r.state
             /\ Put(r, "confirm", x).props = r.props
             /\ Put(r, "confirm", x).owner = r.owner
  BY <1>1, <1>2, Replaced DEF Put
<1>6. ASSUME NEW x \in D
      PROVE  /\ Put(r, "owner", x) \in Streams /\ Put(r, "owner", x).owner = x
             /\ Put(r, "owner", x).state = r.state
             /\ Put(r, "owner", x).props = r.props
             /\ Put(r, "owner", x).confirm = r.confirm
  BY <1>1, <1>2, Replaced DEF Put
<1> QED BY <1>3, <1>4, <1>5, <1>6 DEF A, B, C, D

\* A signal goes to the end of its stream.
LEMMA SentTyped ==
  ASSUME Typed
  PROVE  /\ \A e \in States :
              /\ Sent("state", e) \in Streams /\ Sent("state", e).state = Append(signals.state, e)
              /\ Sent("state", e).props = signals.props /\ Sent("state", e).confirm = signals.confirm
              /\ Sent("state", e).owner = signals.owner
         /\ \A e \in Props :
              /\ Sent("props", e) \in Streams /\ Sent("props", e).props = Append(signals.props, e)
              /\ Sent("props", e).state = signals.state /\ Sent("props", e).confirm = signals.confirm
              /\ Sent("props", e).owner = signals.owner
         /\ \A e \in Questions :
              /\ Sent("confirm", e) \in Streams /\ Sent("confirm", e).confirm = Append(signals.confirm, e)
              /\ Sent("confirm", e).state = signals.state /\ Sent("confirm", e).props = signals.props
              /\ Sent("confirm", e).owner = signals.owner
         /\ \A e \in {"here", "gone"} :
              /\ Sent("owner", e) \in Streams /\ Sent("owner", e).owner = Append(signals.owner, e)
              /\ Sent("owner", e).state = signals.state /\ Sent("owner", e).props = signals.props
              /\ Sent("owner", e).confirm = signals.confirm
<1>1. /\ signals \in Streams
      /\ signals.state \in Seq(States) /\ signals.props \in Seq(Props)
      /\ signals.confirm \in Seq(Questions) /\ signals.owner \in Seq({"here", "gone"})
  BY DEF Typed, Streams
<1>2. ASSUME NEW e \in States
      PROVE  /\ Sent("state", e) \in Streams /\ Sent("state", e).state = Append(signals.state, e)
             /\ Sent("state", e).props = signals.props /\ Sent("state", e).confirm = signals.confirm
             /\ Sent("state", e).owner = signals.owner
  <2> DEFINE v == Append(signals.state, e)
             n == Sent("state", e)
  <2>1. v \in Seq(States)
    BY <1>1
  <2>2. n = Put(signals, "state", v)
    BY DEF Sent, Put
  <2> HIDE DEF n, v
  <2>3. \A x \in Seq(States) :
          /\ Put(signals, "state", x) \in Streams /\ Put(signals, "state", x).state = x
          /\ Put(signals, "state", x).props = signals.props /\ Put(signals, "state", x).confirm = signals.confirm
          /\ Put(signals, "state", x).owner = signals.owner
    BY <1>1, Rerouted
  <2>4. n \in Streams /\ n.state = v /\ n.props = signals.props /\ n.confirm = signals.confirm /\ n.owner = signals.owner
    BY <2>1, <2>2, <2>3
  <2> QED BY <2>4 DEF n, v
<1>3. ASSUME NEW e \in Props
      PROVE  /\ Sent("props", e) \in Streams /\ Sent("props", e).props = Append(signals.props, e)
             /\ Sent("props", e).state = signals.state /\ Sent("props", e).confirm = signals.confirm
             /\ Sent("props", e).owner = signals.owner
  <2> DEFINE v == Append(signals.props, e)
             n == Sent("props", e)
  <2>1. v \in Seq(Props)
    BY <1>1
  <2>2. n = Put(signals, "props", v)
    BY DEF Sent, Put
  <2> HIDE DEF n, v
  <2>3. \A x \in Seq(Props) :
          /\ Put(signals, "props", x) \in Streams /\ Put(signals, "props", x).props = x
          /\ Put(signals, "props", x).state = signals.state /\ Put(signals, "props", x).confirm = signals.confirm
          /\ Put(signals, "props", x).owner = signals.owner
    BY <1>1, Rerouted
  <2>4. n \in Streams /\ n.props = v /\ n.state = signals.state /\ n.confirm = signals.confirm /\ n.owner = signals.owner
    BY <2>1, <2>2, <2>3
  <2> QED BY <2>4 DEF n, v
<1>4. ASSUME NEW e \in Questions
      PROVE  /\ Sent("confirm", e) \in Streams /\ Sent("confirm", e).confirm = Append(signals.confirm, e)
             /\ Sent("confirm", e).state = signals.state /\ Sent("confirm", e).props = signals.props
             /\ Sent("confirm", e).owner = signals.owner
  <2> DEFINE v == Append(signals.confirm, e)
             n == Sent("confirm", e)
  <2>1. v \in Seq(Questions)
    BY <1>1
  <2>2. n = Put(signals, "confirm", v)
    BY DEF Sent, Put
  <2> HIDE DEF n, v
  <2>3. \A x \in Seq(Questions) :
          /\ Put(signals, "confirm", x) \in Streams /\ Put(signals, "confirm", x).confirm = x
          /\ Put(signals, "confirm", x).state = signals.state /\ Put(signals, "confirm", x).props = signals.props
          /\ Put(signals, "confirm", x).owner = signals.owner
    BY <1>1, Rerouted
  <2>4. n \in Streams /\ n.confirm = v /\ n.state = signals.state /\ n.props = signals.props /\ n.owner = signals.owner
    BY <2>1, <2>2, <2>3
  <2> QED BY <2>4 DEF n, v
<1>5. ASSUME NEW e \in {"here", "gone"}
      PROVE  /\ Sent("owner", e) \in Streams /\ Sent("owner", e).owner = Append(signals.owner, e)
             /\ Sent("owner", e).state = signals.state /\ Sent("owner", e).props = signals.props
             /\ Sent("owner", e).confirm = signals.confirm
  <2> DEFINE v == Append(signals.owner, e)
             n == Sent("owner", e)
  <2>1. v \in Seq({"here", "gone"})
    BY <1>1
  <2>2. n = Put(signals, "owner", v)
    BY DEF Sent, Put
  <2> HIDE DEF n, v
  <2>3. \A x \in Seq({"here", "gone"}) :
          /\ Put(signals, "owner", x) \in Streams /\ Put(signals, "owner", x).owner = x
          /\ Put(signals, "owner", x).state = signals.state /\ Put(signals, "owner", x).props = signals.props
          /\ Put(signals, "owner", x).confirm = signals.confirm
    BY <1>1, Rerouted
  <2>4. n \in Streams /\ n.owner = v /\ n.state = signals.state /\ n.props = signals.props /\ n.confirm = signals.confirm
    BY <2>1, <2>2, <2>3
  <2> QED BY <2>4 DEF n, v
<1> QED BY <1>2, <1>3, <1>4, <1>5

\* A signal is taken from the front.
LEMMA TakenTyped ==
  ASSUME Typed
  PROVE  /\ signals.state # <<>> =>
              /\ Taken("state") \in Streams /\ Taken("state").state = Tail(signals.state)
              /\ Taken("state").props = signals.props /\ Taken("state").confirm = signals.confirm
              /\ Taken("state").owner = signals.owner
         /\ signals.props # <<>> =>
              /\ Taken("props") \in Streams /\ Taken("props").props = Tail(signals.props)
              /\ Taken("props").state = signals.state /\ Taken("props").confirm = signals.confirm
              /\ Taken("props").owner = signals.owner
         /\ signals.confirm # <<>> =>
              /\ Taken("confirm") \in Streams /\ Taken("confirm").confirm = Tail(signals.confirm)
              /\ Taken("confirm").state = signals.state /\ Taken("confirm").props = signals.props
              /\ Taken("confirm").owner = signals.owner
         /\ signals.owner # <<>> =>
              /\ Taken("owner") \in Streams /\ Taken("owner").owner = Tail(signals.owner)
              /\ Taken("owner").state = signals.state /\ Taken("owner").props = signals.props
              /\ Taken("owner").confirm = signals.confirm
<1>1. /\ signals \in Streams
      /\ signals.state \in Seq(States) /\ signals.props \in Seq(Props)
      /\ signals.confirm \in Seq(Questions) /\ signals.owner \in Seq({"here", "gone"})
  BY DEF Typed, Streams
<1>2. ASSUME signals.state # <<>>
      PROVE  /\ Taken("state") \in Streams /\ Taken("state").state = Tail(signals.state)
             /\ Taken("state").props = signals.props /\ Taken("state").confirm = signals.confirm
             /\ Taken("state").owner = signals.owner
  <2> DEFINE v == Tail(signals.state)
             n == Taken("state")
  <2>1. v \in Seq(States)
    BY <1>1, <1>2
  <2>2. n = Put(signals, "state", v)
    BY DEF Taken, Put
  <2> HIDE DEF n, v
  <2>3. \A x \in Seq(States) :
          /\ Put(signals, "state", x) \in Streams /\ Put(signals, "state", x).state = x
          /\ Put(signals, "state", x).props = signals.props /\ Put(signals, "state", x).confirm = signals.confirm
          /\ Put(signals, "state", x).owner = signals.owner
    BY <1>1, Rerouted
  <2>4. n \in Streams /\ n.state = v /\ n.props = signals.props /\ n.confirm = signals.confirm /\ n.owner = signals.owner
    BY <2>1, <2>2, <2>3
  <2> QED BY <2>4 DEF n, v
<1>3. ASSUME signals.props # <<>>
      PROVE  /\ Taken("props") \in Streams /\ Taken("props").props = Tail(signals.props)
             /\ Taken("props").state = signals.state /\ Taken("props").confirm = signals.confirm
             /\ Taken("props").owner = signals.owner
  <2> DEFINE v == Tail(signals.props)
             n == Taken("props")
  <2>1. v \in Seq(Props)
    BY <1>1, <1>3
  <2>2. n = Put(signals, "props", v)
    BY DEF Taken, Put
  <2> HIDE DEF n, v
  <2>3. \A x \in Seq(Props) :
          /\ Put(signals, "props", x) \in Streams /\ Put(signals, "props", x).props = x
          /\ Put(signals, "props", x).state = signals.state /\ Put(signals, "props", x).confirm = signals.confirm
          /\ Put(signals, "props", x).owner = signals.owner
    BY <1>1, Rerouted
  <2>4. n \in Streams /\ n.props = v /\ n.state = signals.state /\ n.confirm = signals.confirm /\ n.owner = signals.owner
    BY <2>1, <2>2, <2>3
  <2> QED BY <2>4 DEF n, v
<1>4. ASSUME signals.confirm # <<>>
      PROVE  /\ Taken("confirm") \in Streams /\ Taken("confirm").confirm = Tail(signals.confirm)
             /\ Taken("confirm").state = signals.state /\ Taken("confirm").props = signals.props
             /\ Taken("confirm").owner = signals.owner
  <2> DEFINE v == Tail(signals.confirm)
             n == Taken("confirm")
  <2>1. v \in Seq(Questions)
    BY <1>1, <1>4
  <2>2. n = Put(signals, "confirm", v)
    BY DEF Taken, Put
  <2> HIDE DEF n, v
  <2>3. \A x \in Seq(Questions) :
          /\ Put(signals, "confirm", x) \in Streams /\ Put(signals, "confirm", x).confirm = x
          /\ Put(signals, "confirm", x).state = signals.state /\ Put(signals, "confirm", x).props = signals.props
          /\ Put(signals, "confirm", x).owner = signals.owner
    BY <1>1, Rerouted
  <2>4. n \in Streams /\ n.confirm = v /\ n.state = signals.state /\ n.props = signals.props /\ n.owner = signals.owner
    BY <2>1, <2>2, <2>3
  <2> QED BY <2>4 DEF n, v
<1>5. ASSUME signals.owner # <<>>
      PROVE  /\ Taken("owner") \in Streams /\ Taken("owner").owner = Tail(signals.owner)
             /\ Taken("owner").state = signals.state /\ Taken("owner").props = signals.props
             /\ Taken("owner").confirm = signals.confirm
  <2> DEFINE v == Tail(signals.owner)
             n == Taken("owner")
  <2>1. v \in Seq({"here", "gone"})
    BY <1>1, <1>5
  <2>2. n = Put(signals, "owner", v)
    BY DEF Taken, Put
  <2> HIDE DEF n, v
  <2>3. \A x \in Seq({"here", "gone"}) :
          /\ Put(signals, "owner", x) \in Streams /\ Put(signals, "owner", x).owner = x
          /\ Put(signals, "owner", x).state = signals.state /\ Put(signals, "owner", x).props = signals.props
          /\ Put(signals, "owner", x).confirm = signals.confirm
    BY <1>1, Rerouted
  <2>4. n \in Streams /\ n.owner = v /\ n.state = signals.state /\ n.props = signals.props /\ n.confirm = signals.confirm
    BY <2>1, <2>2, <2>3
  <2> QED BY <2>4 DEF n, v
<1> QED BY <1>2, <1>3, <1>4, <1>5

\* What the publisher is to emit.
LEMMA EmitTyped ==
  ASSUME Typed, NEW now \in Facts
  PROVE  /\ ToEmit(now) \in Seq({"get", "state", "result"}) /\ ToEmit(now) # <<>>
         /\ Head(ToEmit(now)) = "get"
         /\ Contains(ToEmit(now), "state") <=> now.state # previous.state
         /\ Contains(ToEmit(now), "result") <=> now.result # previous.result
<1> DEFINE E == {"get", "state", "result"}
           a == IF now.state # previous.state THEN <<"state">> ELSE <<>>
           b == IF now.result # previous.result THEN <<"result">> ELSE <<>>
<1>1. /\ <<"get">> \in Seq(E) /\ <<"get">> # <<>> /\ Head(<<"get">>) = "get"
      /\ a \in Seq(E) /\ b \in Seq(E)
  <2>1. <<"get">> \in Seq(E) /\ <<"get">> # <<>> /\ Head(<<"get">>) = "get"
    OBVIOUS
  <2>2. <<"state">> \in Seq(E) /\ <<"result">> \in Seq(E) /\ <<>> \in Seq(E)
    OBVIOUS
  <2> QED BY <2>1, <2>2
<1>2. \A x : /\ Contains(<<"get">>, x) <=> x = "get"
             /\ Contains(<<"state">>, x) <=> x = "state"
             /\ Contains(<<"result">>, x) <=> x = "result"
             /\ ~Contains(<<>>, x)
  BY DEF Contains
<1>3. /\ Contains(a, "state") <=> now.state # previous.state
      /\ Contains(b, "result") <=> now.result # previous.result
      /\ ~Contains(a, "result") /\ ~Contains(b, "state")
      /\ ~Contains(<<"get">>, "state") /\ ~Contains(<<"get">>, "result")
  BY <1>2
<1> HIDE DEF a, b, E
<1>4. /\ <<"get">> \o a \in Seq(E) /\ <<"get">> \o a # <<>> /\ Head(<<"get">> \o a) = "get"
      /\ \A x : Contains(<<"get">> \o a, x) <=> Contains(<<"get">>, x) \/ Contains(a, x)
  BY <1>1, Joining
<1>5. /\ (<<"get">> \o a) \o b \in Seq(E) /\ (<<"get">> \o a) \o b # <<>>
      /\ Head((<<"get">> \o a) \o b) = "get"
      /\ \A x : Contains((<<"get">> \o a) \o b, x) <=> Contains(<<"get">> \o a, x) \/ Contains(b, x)
  BY <1>1, <1>4, Joining
<1>6. ToEmit(now) = (<<"get">> \o a) \o b
  BY DEF ToEmit, a, b
<1> QED BY <1>3, <1>4, <1>5, <1>6 DEF E

\* A step that leaves the worker, the UI and its commands alone.
LEMMA DaemonTyped ==
  ASSUME Typed, StatusChanges \/ PublisherWakes \/ PublisherGets \/ PublisherEmits \/ PublisherNotes
  PROVE  Typed'
<1>0. Quick \in [task : Tasks, value : States \cup {"none"}] /\ Default \in Facts
  BY DEF Quick, Tasks, Default, Facts, States, Texts
<1>1. CASE StatusChanges
  <2>1. missed' \in BOOLEAN /\ changed' \in BOOLEAN
    <3>1. changed' = TRUE /\ missed' = (missed \/ changed)
      BY <1>1 DEF StatusChanges, StatusSent
    <3> QED BY <3>1 DEF Typed
  <2>2. notices' \in Seq(Questions)
    <3>1. CASE UNCHANGED notices
      BY <3>1 DEF Typed
    <3>2. ASSUME NEW q \in Questions, notices' = Append(notices, q) PROVE notices' \in Seq(Questions)
      <4>1. notices \in Seq(Questions)
        BY DEF Typed
      <4> QED BY <3>2, <4>1
    <3> QED BY <1>1, <3>1, <3>2, Zenon DEF StatusChanges
  <2>4. status' \in Facts
    <3>1. \/ status' = [status EXCEPT !.state = "recording"]
          \/ status' = [status EXCEPT !.state = "waiting"]
          \/ \E r \in Results : status' = [state |-> "idle", result |-> r]
      BY <1>1, Zenon DEF StatusChanges, StatusSent
    <3>2. status \in [state : States, result : Texts] /\ "recording" \in States /\ "waiting" \in States
          /\ "idle" \in States /\ \A r \in Results : r \in Texts
      BY DEF Typed, Facts, States, Texts
    <3>3. CASE status' = [status EXCEPT !.state = "recording"]
      BY <3>2, <3>3 DEF Facts
    <3>4. CASE status' = [status EXCEPT !.state = "waiting"]
      BY <3>2, <3>4 DEF Facts
    <3>5. CASE \E r \in Results : status' = [state |-> "idle", result |-> r]
      BY <3>2, <3>5 DEF Facts
    <3> QED BY <3>1, <3>3, <3>4, <3>5
  <2>3. UNCHANGED <<up, previous, publishing, enabled, setter, control, signals, worker,
                    connected, commands, ui>>
    BY <1>1 DEF StatusChanges, Interface, Client
  <2> QED BY <2>1, <2>2, <2>3, <2>4 DEF Typed
<1>2. CASE PublisherWakes
  <2>1. publishing' \in Seq({"get", "state", "result"}) /\ previous' \in Facts /\ changed' \in BOOLEAN
    BY <1>2, EmitTyped DEF PublisherWakes, Typed
  <2>2. UNCHANGED <<up, status, missed, notices, enabled, setter, control, signals, worker,
                    connected, commands, ui>>
    BY <1>2 DEF PublisherWakes, Interface, Client
  <2> QED BY <2>1, <2>2 DEF Typed
<1>3. CASE PublisherGets \/ PublisherEmits
  <2>1. publishing # <<>> /\ publishing' = Tail(publishing)
    BY <1>3 DEF PublisherGets, PublisherEmits, Reading
  <2>2. publishing' \in Seq({"get", "state", "result"}) /\ Head(publishing) \in {"get", "state", "result"}
    BY <2>1, Taking DEF Typed
  <2>3. previous.state \in States /\ status.state \in States /\ status.result \in Texts
    BY DEF Typed, Facts
  <2>4. signals' \in Streams
    <3>1. CASE PublisherGets
      BY <2>3, <3>1, SentTyped DEF PublisherGets, Typed, Streams
    <3>2. CASE PublisherEmits
      <4>1. Head(publishing) \in {"state", "result"}
        BY <2>2, <3>2 DEF PublisherEmits, Reading
      <4>2. Prop(Head(publishing), status[Head(publishing)]) \in Props
        BY <2>3, <4>1 DEF Prop, Props
      <4> QED BY <3>2, <4>2, SentTyped DEF PublisherEmits
    <3> QED BY <1>3, <3>1, <3>2
  <2>5. UNCHANGED <<up, status, changed, missed, previous, notices, enabled, setter, control, worker,
                    connected, commands, ui>>
    BY <1>3 DEF PublisherGets, PublisherEmits, Interface, Client
  <2> QED BY <2>2, <2>4, <2>5 DEF Typed, Streams
<1>4. CASE PublisherNotes
  <2>1. notices # <<>> /\ notices' = Tail(notices) /\ signals' = Sent("confirm", Head(notices))
    BY <1>4 DEF PublisherNotes
  <2>2. notices' \in Seq(Questions) /\ Head(notices) \in Questions
    BY <2>1, Taking DEF Typed
  <2>3. signals' \in Streams
    BY <2>1, <2>2, SentTyped
  <2>4. UNCHANGED <<up, status, changed, missed, previous, publishing, enabled, setter, control, worker,
                    connected, commands, ui>>
    BY <1>4 DEF PublisherNotes, Interface, Client
  <2> QED BY <2>2, <2>3, <2>4 DEF Typed, Streams
<1> QED BY <1>1, <1>2, <1>3, <1>4

\* Writes of Enabled, the main loop, and the daemon's lives.
LEMMA ServerTyped ==
  ASSUME Typed, SetterDone \/ OtherSets \/ LoopActs \/ Dies \/ Starts
  PROVE  Typed'
<1>0. /\ Quick \in [task : Tasks, value : States \cup {"none"}] /\ Default \in Facts
      /\ Quick.task = "select" /\ 0 <= ControlQueue
  BY ControlHolds DEF Quick, Tasks, Default, Facts, States, Texts
<1>1. CASE SetterDone
  <2>1. control' \in Seq({"ui", "enabled"}) /\ Len(control') <= ControlQueue
    BY <1>1, ControlHolds DEF SetterDone, Typed
  <2>2. Prop("enabled", enabled) \in Props
    BY DEF Prop, Props, Typed
  <2>3. signals' \in Streams
    BY <1>1, <2>2, SentTyped DEF SetterDone
  <2>4. worker' \in {worker, Quick} /\ setter' = "nobody" /\ enabled' = enabled
    BY <1>1 DEF SetterDone
  <2>5. UNCHANGED <<up, status, changed, missed, previous, publishing, notices, connected, commands, ui>>
    BY <1>1 DEF SetterDone, Published
  <2> QED BY <1>0, <2>1, <2>3, <2>4, <2>5 DEF Typed, Streams
<1>2. CASE OtherSets
  <2>1. setter' = "other" /\ enabled' = ~enabled /\ control' = control
    BY <1>2 DEF OtherSets, Sets
  <2>2. UNCHANGED <<up, status, changed, missed, previous, publishing, notices, signals, worker,
                    connected, commands, ui>>
    BY <1>2 DEF OtherSets, Published, Client
  <2> QED BY <2>1, <2>2 DEF Typed
<1>3. CASE LoopActs
  <2>1. control # <<>> /\ control' = Tail(control) /\ worker' \in {worker, Quick}
    BY <1>3 DEF LoopActs
  <2>2. control' \in Seq({"ui", "enabled"}) /\ Len(control') <= ControlQueue
    BY <2>1, Taking, ControlHolds DEF Typed
  <2>3. UNCHANGED <<up, status, changed, missed, previous, publishing, notices, enabled, setter,
                    signals, connected, commands, ui>>
    BY <1>3 DEF LoopActs, Published
  <2> QED BY <1>0, <2>1, <2>2, <2>3 DEF Typed
<1>4. CASE Dies
  <2>1. signals' \in Streams
    BY <1>4, SentTyped DEF Dies
  <2>2. /\ up' = FALSE /\ status' = Default /\ changed' = FALSE /\ missed' = FALSE
        /\ previous' = Default /\ publishing' = <<>> /\ notices' = <<>>
        /\ enabled' = TRUE /\ setter' = "nobody" /\ control' = <<>> /\ worker' \in {worker, Quick}
        /\ UNCHANGED <<connected, commands, ui>>
    BY <1>4 DEF Dies
  <2>3. <<>> \in Seq({"get", "state", "result"}) /\ <<>> \in Seq(Questions)
        /\ <<>> \in Seq({"ui", "enabled"}) /\ Len(<<>>) = 0
    OBVIOUS
  <2> QED BY <1>0, <2>1, <2>2, <2>3 DEF Typed, Streams
<1>5. CASE Starts
  <2>1. signals' \in Streams /\ up' = TRUE
    BY <1>5, SentTyped DEF Starts
  <2>2. UNCHANGED <<status, changed, missed, previous, publishing, notices, enabled, setter,
                    control, worker, connected, commands, ui>>
    BY <1>5 DEF Starts, Published, Interface, Client
  <2> QED BY <2>1, <2>2 DEF Typed, Streams
<1> QED BY <1>1, <1>2, <1>3, <1>4, <1>5

Shows == [state : Shown, result : Texts, enabled : BOOLEAN, question : Asked]

\* What the UI may show.
LEMMA ShowTyped ==
  ASSUME Typed
  PROVE  /\ \A s \in Shown, u \in Shows :
              /\ WithState(u, s) \in Shows /\ WithState(u, s).state = s
              /\ WithState(u, s).result = u.result /\ WithState(u, s).enabled = u.enabled
         /\ \A u \in Shows, r \in Texts :
              /\ [u EXCEPT !.result = r] \in Shows /\ [u EXCEPT !.result = r].result = r
              /\ [u EXCEPT !.result = r].state = u.state /\ [u EXCEPT !.result = r].enabled = u.enabled
         /\ \A u \in Shows, b \in BOOLEAN :
              /\ [u EXCEPT !.enabled = b] \in Shows /\ [u EXCEPT !.enabled = b].enabled = b
              /\ [u EXCEPT !.enabled = b].state = u.state /\ [u EXCEPT !.enabled = b].result = u.result
         /\ \A u \in Shows, q \in Asked :
              /\ [u EXCEPT !.question = q] \in Shows /\ [u EXCEPT !.question = q].enabled = u.enabled
              /\ [u EXCEPT !.question = q].state = u.state /\ [u EXCEPT !.question = q].result = u.result
BY DEF WithState, Shows, Asked, Shown

\* Reading everything shows what there is.
LEMMA Refreshing ==
  ASSUME Typed, Refreshed
  PROVE  /\ ui' \in Shows /\ connected' = up
         /\ up => /\ ui'.state = status.state /\ ui'.result = status.result
                  /\ ui'.enabled = enabled
<1>1. /\ ui \in Shows /\ status.state \in Shown /\ status.result \in Texts
      /\ enabled \in BOOLEAN /\ up \in BOOLEAN /\ "offline" \in Shown /\ "none" \in Asked
  BY DEF Typed, Shows, Facts, Shown, Asked
<1>2. CASE up
  <2> DEFINE w == WithState(ui, status.state)
             r == status.result
             b == enabled
  <2>1. w \in Shows /\ w.state = status.state
    BY <1>1, ShowTyped
  <2>2. connected' = TRUE /\ ui' = [w EXCEPT !.result = r, !.enabled = b]
    BY <1>2 DEF Refreshed
  <2>3. r \in Texts /\ b \in BOOLEAN
    BY <1>1
  <2> HIDE DEF w, r, b
  <2>4. ui' \in Shows /\ ui'.state = w.state /\ ui'.result = r /\ ui'.enabled = b
    BY <2>1, <2>2, <2>3 DEF Shows
  <2> QED BY <1>1, <1>2, <2>1, <2>2, <2>4 DEF r, b
<1>3. CASE ~up
  <2>1. connected' = FALSE /\ ui' = [ui EXCEPT !.state = "offline", !.question = "none"]
    BY <1>3 DEF Refreshed, ShowsConnection
  <2>2. ui' \in Shows
    BY <1>1, <2>1 DEF Shows
  <2> QED BY <1>1, <1>3, <2>1, <2>2
<1> QED BY <1>2, <1>3

\* A change of the owner is handled in one of two ways.
LEMMA Owning ==
  ASSUME Typed, OwnerChanged
  PROVE  /\ ui' \in Shows /\ connected' \in BOOLEAN /\ ui'.enabled = ui.enabled
         /\ ui'.result = ui.result
         /\ \/ /\ Head(signals.owner) = "here" /\ ~connected /\ connected' = connected
               /\ worker' = [task |-> "napping", value |-> "none"]
            \/ /\ ~(Head(signals.owner) = "here" /\ ~connected) /\ worker' = worker
               /\ connected' = (Head(signals.owner) = "here")
               /\ connected' => ui' = ui
<1> DEFINE now == Head(signals.owner) = "here"
<1>1. ui \in Shows /\ "offline" \in Shown /\ "none" \in Asked /\ connected \in BOOLEAN /\ now \in BOOLEAN
  BY DEF Typed, Shows, Shown, Asked
<1>2. IF now /\ ~connected
      THEN worker' = [task |-> "napping", value |-> "none"] /\ UNCHANGED <<connected, ui>>
      ELSE ShowsConnection(now) /\ UNCHANGED worker
  BY DEF OwnerChanged, OwnerHandled
<1> HIDE DEF now
<1>3. CASE now /\ ~connected
  BY <1>1, <1>2, <1>3 DEF now
<1>4. CASE ~(now /\ ~connected)
  <2>1. connected' = now /\ worker' = worker
    BY <1>2, <1>4 DEF ShowsConnection
  <2>2. ui' = IF now THEN ui ELSE [ui EXCEPT !.state = "offline", !.question = "none"]
    BY <1>2, <1>4 DEF ShowsConnection
  <2>3. ui' \in Shows /\ ui'.enabled = ui.enabled /\ ui'.result = ui.result /\ (now => ui' = ui)
    BY <1>1, <2>2 DEF Shows
  <2> QED BY <1>1, <1>4, <2>1, <2>3 DEF now
<1> QED BY <1>3, <1>4

\* What is shown of a change of a property.
LEMMA Changing ==
  ASSUME Typed, PropsChanged
  PROVE  /\ ui' \in Shows
         /\ LET p == Head(signals.props)
            IN /\ p \in Props
               /\ p.name = "state" => /\ ui'.state = p.value /\ ui'.result = ui.result
                                      /\ ui'.enabled = ui.enabled
               /\ p.name = "result" => /\ ui'.result = p.value /\ ui'.state = ui.state
                                       /\ ui'.enabled = ui.enabled
               /\ p.name = "enabled" => /\ ui'.enabled = p.value /\ ui'.state = ui.state
                                        /\ ui'.result = ui.result
<1> DEFINE p == Head(signals.props)
<1>1. p \in Props /\ ui \in Shows
  <2>1. signals.props # <<>> /\ signals.props \in Seq(Props) /\ ui \in Shows
    BY DEF PropsChanged, Typed, Shows
  <2> QED BY <2>1, Taking
<1>2. ui' = IF p.name = "state" THEN WithState(ui, p.value) ELSE [ui EXCEPT ![p.name] = p.value]
  BY DEF PropsChanged
<1> HIDE DEF p
<1>3. CASE p.name = "state"
  <2>1. p.value \in Shown
    BY <1>1, <1>3 DEF Props, Shown
  <2> QED BY <1>1, <1>2, <1>3, <2>1, ShowTyped DEF p
<1>4. CASE p.name = "result"
  <2>1. p.value \in Texts
    BY <1>1, <1>4 DEF Props
  <2>2. ui' = [ui EXCEPT !.result = p.value]
    BY <1>2, <1>4
  <2> QED BY <1>1, <1>4, <2>1, <2>2, ShowTyped DEF p
<1>5. CASE p.name = "enabled"
  <2>1. p.value \in BOOLEAN
    BY <1>1, <1>5 DEF Props
  <2>2. ui' = [ui EXCEPT !.enabled = p.value]
    BY <1>2, <1>5
  <2> QED BY <1>1, <1>5, <2>1, <2>2, ShowTyped DEF p
<1>6. p.name \in {"state", "result", "enabled"}
  BY <1>1 DEF Props
<1> QED BY <1>3, <1>4, <1>5, <1>6

\* What is shown after `idle`.
LEMMA Fetching ==
  ASSUME Typed, Fetches
  PROVE  /\ ui' \in Shows /\ ui'.state = "idle" /\ ui'.enabled = ui.enabled
         /\ up => ui'.result = status.result
<1> DEFINE w == WithState(ui, "idle")
           r == IF up THEN status.result ELSE ui.result
<1>1. worker.value = "idle" /\ ui \in Shows /\ r \in Texts /\ "idle" \in Shown
  BY DEF Typed, Fetches, Shows, Facts, Shown, States
<1>2. w \in Shows /\ w.state = "idle" /\ w.enabled = ui.enabled /\ w.result = ui.result
  BY <1>1, ShowTyped
<1>3. ui' = [WithState(ui, worker.value) EXCEPT !.result = IF up THEN status.result ELSE @]
  BY DEF Fetches
<1>4. ui' = [w EXCEPT !.result = r]
  BY <1>1, <1>2, <1>3
<1>5. up => r = status.result
  OBVIOUS
<1> HIDE DEF w, r
<1> QED BY <1>1, <1>2, <1>4, <1>5, ShowTyped

\* A command of the user.
Commands == [kind : {"enabled", "call"}, on : BOOLEAN]

\* A step of the UI or of its worker.
LEMMA ReadTyped ==
  ASSUME Typed, WorkerBegins \/ Naps \/ OwnerChanged \/ StateChanged \/ Fetches \/ PropsChanged \/ Confirm
  PROVE  Typed'
<1>0. /\ \A t \in Tasks : [task |-> t, value |-> "none"] \in [task : Tasks, value : States \cup {"none"}]
      /\ [task |-> "fetching", value |-> "idle"] \in [task : Tasks, value : States \cup {"none"}]
      /\ Quick \in [task : Tasks, value : States \cup {"none"}] /\ Quick.task = "select"
      /\ \A t, v : [task |-> t, value |-> v].task = t /\ [task |-> t, value |-> v].value = v
      /\ "napping" \in Tasks /\ "napping" # "fetching" /\ "select" # "fetching"
  BY DEF Quick, Tasks, States
<1>1. CASE WorkerBegins \/ Naps
  <2>1. Refreshed /\ worker' = Quick
        /\ UNCHANGED <<up, status, changed, missed, previous, publishing, notices, enabled, setter,
                       control, signals, commands>>
    BY <1>1 DEF WorkerBegins, Naps, Published, Interface
  <2>2. ui' \in Shows /\ connected' \in BOOLEAN
    BY <2>1, Refreshing DEF Typed
  <2> QED BY <1>0, <2>1, <2>2 DEF Typed, Shows
<1>2. CASE OwnerChanged
  <2>1. signals' \in Streams
    BY <1>2, TakenTyped DEF OwnerChanged
  <2>2. UNCHANGED <<up, status, changed, missed, previous, publishing, notices, enabled, setter,
                    control, commands>>
    BY <1>2 DEF OwnerChanged, Published, Interface
  <2>3. /\ ui' \in Shows /\ connected' \in BOOLEAN
        /\ worker' \in {worker, [task |-> "napping", value |-> "none"]}
    BY <1>2, Owning
  <2>4. /\ worker' \in [task : Tasks, value : States \cup {"none"}]
        /\ worker'.task = "fetching" => worker'.value = "idle"
    BY <1>0, <2>3 DEF Typed
  <2> QED BY <2>1, <2>2, <2>3, <2>4 DEF Typed, Shows, Streams
<1>3. CASE StateChanged
  <2>1. signals' \in Streams /\ Head(signals.state) \in States
    <3>1. signals.state # <<>> /\ signals.state \in Seq(States) /\ signals' = Taken("state")
      BY <1>3 DEF StateChanged, Typed
    <3> QED BY <3>1, TakenTyped, Taking
  <2>2. UNCHANGED <<up, status, changed, missed, previous, publishing, notices, enabled, setter,
                    control, commands, connected>>
    BY <1>3 DEF StateChanged, Published, Interface
  <2>3. /\ ui' \in {ui, WithState(ui, Head(signals.state))}
        /\ worker' \in {worker, [task |-> "fetching", value |-> "idle"]}
    BY <1>3 DEF StateChanged
  <2>4. /\ worker' \in [task : Tasks, value : States \cup {"none"}]
        /\ worker'.task = "fetching" => worker'.value = "idle"
    BY <1>0, <2>3 DEF Typed
  <2>5. ui' \in Shows
    <3>1. Head(signals.state) \in Shown /\ ui \in Shows
      BY <2>1 DEF Shown, Typed, Shows
    <3> QED BY <2>3, <3>1, ShowTyped
  <2> QED BY <2>1, <2>2, <2>4, <2>5 DEF Typed, Shows, Streams
<1>4. CASE Fetches
  <2>1. worker' = Quick
        /\ UNCHANGED <<up, status, changed, missed, previous, publishing, notices, enabled, setter,
                       control, signals, commands, connected>>
    BY <1>4 DEF Fetches, Published, Interface
  <2>2. ui' \in Shows
    BY <1>4, Fetching
  <2> QED BY <1>0, <2>1, <2>2 DEF Typed, Shows
<1>5. CASE PropsChanged
  <2>1. signals' \in Streams
    BY <1>5, TakenTyped DEF PropsChanged
  <2>2. UNCHANGED <<up, status, changed, missed, previous, publishing, notices, enabled, setter,
                    control, commands, connected, worker>>
    BY <1>5 DEF PropsChanged, Published, Interface
  <2>3. ui' \in Shows
    BY <1>5, Changing
  <2> QED BY <2>1, <2>2, <2>3 DEF Typed, Shows, Streams
<1>6. CASE Confirm
  <2>1. signals' \in Streams /\ Head(signals.confirm) \in Questions
    <3>1. signals.confirm # <<>> /\ signals.confirm \in Seq(Questions) /\ signals' = Taken("confirm")
      BY <1>6 DEF Confirm, Typed
    <3> QED BY <3>1, TakenTyped, Taking
  <2>2. UNCHANGED <<up, status, changed, missed, previous, publishing, notices, enabled, setter,
                    control, commands, connected, worker>>
    BY <1>6 DEF Confirm, Published, Interface
  <2>3. ui' \in Shows
    <3>1. Head(signals.confirm) \in Asked /\ ui \in Shows
      BY <2>1 DEF Asked, Typed, Shows
    <3>2. ui' = [ui EXCEPT !.question = Head(signals.confirm)]
      BY <1>6 DEF Confirm
    <3> QED BY <3>1, <3>2, ShowTyped
  <2> QED BY <2>1, <2>2, <2>3 DEF Typed, Shows, Streams
<1> QED BY <1>1, <1>2, <1>3, <1>4, <1>5, <1>6

\* What the user asks for, and what the worker does about it.
LEMMA CommandTyped ==
  ASSUME Typed, Toggles \/ Asks \/ CommandRefused \/ CallFails \/ SetsEnabled \/ Calls
  PROVE  Typed'
<1>0. /\ \A t \in Tasks : [task |-> t, value |-> "none"] \in [task : Tasks, value : States \cup {"none"}]
      /\ \A t : [task |-> t, value |-> "none"].task = t
      /\ "setting" \in Tasks /\ "calling" \in Tasks /\ "setting" # "fetching" /\ "calling" # "fetching"
      /\ commands \in Seq(Commands) /\ ui \in Shows /\ ui.enabled \in BOOLEAN
  BY DEF Tasks, Typed, Commands, Shows
<1>1. CASE Toggles
  <2>1. UNCHANGED <<up, status, changed, missed, previous, publishing, notices, enabled, setter,
                    control, signals, connected, worker>>
    BY <1>1 DEF Toggles, Published, Interface
  <2>2. commands' \in Seq(Commands)
    <3>1. [kind |-> "enabled", on |-> ~ui.enabled] \in Commands
      BY DEF Commands
    <3>2. commands' = Append(commands, [kind |-> "enabled", on |-> ~ui.enabled])
      BY <1>1 DEF Toggles
    <3> QED BY <1>0, <3>1, <3>2, Sending
  <2>3. ui' \in Shows
    <3>1. ui' = [ui EXCEPT !.enabled = ~ui.enabled]
      BY <1>1, Zenon DEF Toggles
    <3>2. (~ui.enabled) \in BOOLEAN
      OBVIOUS
    <3> QED BY <1>0, <3>1, <3>2, ShowTyped
  <2> QED BY <2>1, <2>2, <2>3 DEF Typed, Shows, Commands
<1>2. CASE Asks
  <2>1. UNCHANGED <<up, status, changed, missed, previous, publishing, notices, enabled, setter,
                    control, signals, connected, worker, ui>>
    BY <1>2 DEF Asks, Published, Interface
  <2>2. commands' \in Seq(Commands)
    <3>1. [kind |-> "call", on |-> FALSE] \in Commands
      BY DEF Commands
    <3>2. commands' = Append(commands, [kind |-> "call", on |-> FALSE])
      BY <1>2 DEF Asks
    <3> QED BY <1>0, <3>1, <3>2, Sending
  <2> QED BY <2>1, <2>2 DEF Typed, Commands
<1>3. CASE CommandRefused \/ CallFails
  <2>1. UNCHANGED <<up, status, changed, missed, previous, publishing, notices, enabled, setter,
                    control, signals, connected, worker, ui>>
    BY <1>3 DEF CommandRefused, CallFails, Published, Interface
  <2>2. commands' \in Seq(Commands)
    <3>1. commands # <<>> /\ commands' = Tail(commands)
      BY <1>3 DEF CommandRefused, CallFails
    <3> QED BY <1>0, <3>1, Taking
  <2> QED BY <2>1, <2>2 DEF Typed, Commands
<1>4. CASE SetsEnabled
  <2>1. UNCHANGED <<up, status, changed, missed, previous, publishing, notices,
                    control, signals, connected, ui>>
    BY <1>4 DEF SetsEnabled, Sets, Published
  <2>2. commands' \in Seq(Commands) /\ Head(commands) \in Commands
    <3>1. commands # <<>> /\ commands' = Tail(commands)
      BY <1>4 DEF SetsEnabled
    <3> QED BY <1>0, <3>1, Taking
  <2>3. setter' = "ui" /\ enabled' = Head(commands).on /\ worker' = [task |-> "setting", value |-> "none"]
    BY <1>4 DEF SetsEnabled, Sets
  <2>4. enabled' \in BOOLEAN
    BY <2>2, <2>3 DEF Commands
  <2> QED BY <1>0, <2>1, <2>2, <2>3, <2>4 DEF Typed, Commands
<1>5. CASE Calls
  <2>1. UNCHANGED <<up, status, changed, missed, previous, publishing, notices, enabled, setter,
                    signals, connected, ui>>
    BY <1>5 DEF Calls, Published
  <2>2. commands' \in Seq(Commands)
    <3>1. commands # <<>> /\ commands' = Tail(commands)
      BY <1>5 DEF Calls
    <3> QED BY <1>0, <3>1, Taking
  <2>3. worker' = [task |-> "calling", value |-> "none"]
    BY <1>5 DEF Calls
  <2>4. control' \in Seq({"ui", "enabled"}) /\ Len(control') <= ControlQueue
    <3>1. control' = Append(control, "ui") /\ Len(control) < ControlQueue
      BY <1>5 DEF Calls
    <3> QED BY <3>1, ControlHolds DEF Typed
  <2> QED BY <1>0, <2>1, <2>2, <2>3, <2>4 DEF Typed, Commands
<1> QED BY <1>1, <1>2, <1>3, <1>4, <1>5
-----------------------------------------------------------------------------
(* Who waits for whom, and who owns the name. *)

\* Reading leaves the worker at work on nothing but reading.
LEMMA Reads ==
  ASSUME Typed, WorkerBegins \/ Naps \/ OwnerChanged \/ StateChanged \/ Fetches \/ PropsChanged \/ Confirm
  PROVE  /\ worker.task \in {"starting", "select", "napping", "fetching"}
         /\ worker'.task \in {"select", "napping", "fetching"}
         /\ UNCHANGED <<up, status, changed, missed, previous, publishing, notices,
                        enabled, setter, control, commands>>
<1>1. CASE WorkerBegins \/ Naps \/ Fetches
  BY <1>1 DEF WorkerBegins, Naps, Fetches, Quick, Published, Interface
<1>2. CASE OwnerChanged
  <2>1. worker' = worker \/ worker' = [task |-> "napping", value |-> "none"]
    BY <1>2, Owning
  <2> QED BY <1>2, <2>1 DEF OwnerChanged, Selects, Published, Interface
<1>3. CASE StateChanged
  BY <1>3 DEF StateChanged, Selects, Published, Interface
<1>4. CASE PropsChanged \/ Confirm
  BY <1>4 DEF PropsChanged, Confirm, Selects, Published, Interface
<1> QED BY <1>1, <1>2, <1>3, <1>4

\* The worker and what waits for it stay together.
LEMMA KeepsLinked ==
  ASSUME Typed, Linked, [Next]_vars
  PROVE  Linked'
<1>1. CASE UNCHANGED <<setter, control, worker>>
  BY <1>1 DEF Linked
<1>2. CASE WorkerBegins \/ Naps \/ OwnerChanged \/ StateChanged \/ Fetches \/ PropsChanged \/ Confirm
  BY <1>2, Reads DEF Linked
<1>3. CASE SetterDone
  <2>1. /\ control' = Append(control, "enabled") /\ setter' = "nobody" /\ setter # "nobody"
        /\ worker' = IF setter = "ui" THEN Quick ELSE worker
    BY <1>3 DEF SetterDone
  <2>2. /\ control' \in Seq({"ui", "enabled"}) /\ Len(control') = Len(control) + 1
        /\ Len(control) \in Nat /\ control'[Len(control) + 1] = "enabled"
        /\ \A i \in 1..Len(control) : control'[i] = control[i]
    BY <2>1 DEF Typed
  <2>3. \A i \in 1..Len(control') : control'[i] = "ui" => i \in 1..Len(control) /\ control[i] = "ui"
    BY <2>2
  <2>4. setter = "ui" => worker.task = "setting" /\ worker'.task = "select"
    BY <2>1 DEF Linked, Quick
  <2>5. setter # "ui" => worker.task # "setting" /\ worker' = worker
    BY <2>1 DEF Linked
  <2> QED BY <2>1, <2>3, <2>4, <2>5 DEF Linked
<1>4. CASE OtherSets
  <2>1. setter' = "other" /\ setter = "nobody" /\ UNCHANGED <<control, worker>>
    BY <1>4 DEF OtherSets, Sets, Client
  <2> QED BY <2>1 DEF Linked
<1>5. CASE LoopActs
  <2>1. /\ control # <<>> /\ control' = Tail(control) /\ UNCHANGED setter
        /\ worker' = IF Head(control) = "ui" THEN Quick ELSE worker
    BY <1>5 DEF LoopActs
  <2>2. /\ Head(control) = control[1] /\ 1 \in 1..Len(control)
        /\ \A i \in 1..Len(control') : i + 1 \in 1..Len(control) /\ control'[i] = control[i + 1]
    BY <2>1 DEF Typed
  <2>3. Head(control) = "ui" => worker.task = "calling" /\ worker'.task = "select"
    BY <2>1, <2>2 DEF Linked, Quick
  <2>4. Head(control) = "ui" => \A i \in 1..Len(control') : control'[i] # "ui"
    <3> SUFFICES ASSUME Head(control) = "ui", NEW i \in 1..Len(control'), control'[i] = "ui" PROVE FALSE
      OBVIOUS
    <3>1. i + 1 = 1
      BY <2>2 DEF Linked
    <3> QED BY <3>1
  <2>5. \A i, j \in 1..Len(control') : control'[i] = "ui" /\ control'[j] = "ui" => i = j
    <3> SUFFICES ASSUME NEW i \in 1..Len(control'), NEW j \in 1..Len(control'),
                        control'[i] = "ui", control'[j] = "ui"
                 PROVE  i = j
      OBVIOUS
    <3>1. i + 1 = j + 1
      BY <2>2 DEF Linked
    <3> QED BY <3>1
  <2>6. \A i \in 1..Len(control') : control'[i] = "ui" => worker.task = "calling"
    BY <2>2 DEF Linked
  <2> QED BY <2>1, <2>3, <2>4, <2>5, <2>6 DEF Linked
<1>6. CASE Dies
  <2>1. /\ setter' = "nobody" /\ control' = <<>>
        /\ worker' = IF worker.task \in {"calling", "setting"} THEN Quick ELSE worker
    BY <1>6 DEF Dies
  <2>2. worker'.task # "setting"
    BY <2>1 DEF Quick
  <2>3. Len(control') = 0
    BY <2>1
  <2> QED BY <2>1, <2>2, <2>3 DEF Linked
<1>7. CASE SetsEnabled
  <2>1. /\ setter' = "ui" /\ control' = control /\ worker.task = "select"
        /\ worker' = [task |-> "setting", value |-> "none"]
    BY <1>7 DEF SetsEnabled, Sets, Selects
  <2> QED BY <2>1 DEF Linked
<1>8. CASE Calls
  <2>1. /\ control' = Append(control, "ui") /\ UNCHANGED setter /\ worker.task = "select"
        /\ worker' = [task |-> "calling", value |-> "none"]
    BY <1>8 DEF Calls, Selects
  <2>2. /\ Len(control') = Len(control) + 1 /\ Len(control) \in Nat
        /\ \A i \in 1..Len(control) : control'[i] = control[i]
    BY <2>1 DEF Typed
  <2>3. \A i \in 1..Len(control') : control'[i] = "ui" => i = Len(control) + 1
    BY <2>1, <2>2 DEF Linked
  <2> QED BY <2>1, <2>3 DEF Linked
<1>9. CASE StatusChanges \/ Publisher \/ Starts \/ Toggles \/ Asks \/ CommandRefused \/ CallFails
  BY <1>1, <1>9 DEF StatusChanges, Publisher, PublisherWakes, PublisherGets, PublisherEmits,
     PublisherNotes, Starts, Toggles, Asks, CommandRefused, CallFails, Interface, Client
<1>10. CASE UNCHANGED vars
  BY <1>1, <1>10 DEF vars, Interface, Client
<1> QED BY <1>2, <1>3, <1>4, <1>5, <1>6, <1>7, <1>8, <1>9, <1>10 DEF Next, Server, Handles, Environment

\* Only a daemon that is there changes anything of its own.
LEMMA KeepsReset ==
  ASSUME Typed, Reset, [Next]_vars
  PROVE  Reset'
<1>1. CASE UNCHANGED <<up, status, changed, missed, publishing, setter>>
  BY <1>1 DEF Reset
<1>2. CASE up'
  BY <1>2 DEF Reset
<1>3. CASE Dies
  BY <1>3 DEF Dies, Reset
<1>4. CASE StatusChanges \/ Publisher \/ SetterDone \/ OtherSets \/ LoopActs \/ Starts \/ SetsEnabled \/ Calls
  <2>1. up'
    BY <1>4 DEF StatusChanges, Publisher, PublisherWakes, PublisherGets, PublisherEmits, Reading,
       PublisherNotes, SetterDone, OtherSets, Sets, LoopActs, Starts, SetsEnabled, Calls
  <2> QED BY <1>2, <2>1
<1>5. CASE WorkerBegins \/ Naps \/ OwnerChanged \/ StateChanged \/ Fetches \/ PropsChanged \/ Confirm
  BY <1>1, <1>5, Reads
<1>6. CASE Toggles \/ Asks \/ CommandRefused \/ CallFails
  BY <1>1, <1>6 DEF Toggles, Asks, CommandRefused, CallFails, Published, Interface
<1>7. CASE UNCHANGED vars
  BY <1>1, <1>7 DEF vars, Published, Interface
<1> QED BY <1>3, <1>4, <1>5, <1>6, <1>7 DEF Next, Server, Handles, Environment

\* The publisher is woken by whatever changes the status.
LEMMA KeepsSeen ==
  ASSUME Typed, Seen, [Next]_vars
  PROVE  Seen'
<1>1. CASE UNCHANGED <<changed, previous, status>>
  BY <1>1 DEF Seen
<1>2. CASE StatusChanges
  BY <1>2 DEF StatusChanges, StatusSent, Seen
<1>3. CASE PublisherWakes
  BY <1>3 DEF PublisherWakes, Seen
<1>4. CASE Dies
  BY <1>4 DEF Dies, Seen
<1>5. CASE PublisherGets \/ PublisherEmits \/ PublisherNotes \/ SetterDone \/ OtherSets \/ LoopActs
            \/ Starts \/ Toggles \/ Asks \/ CommandRefused \/ CallFails \/ SetsEnabled \/ Calls
  BY <1>1, <1>5 DEF PublisherGets, PublisherEmits, PublisherNotes, SetterDone, OtherSets,
     LoopActs, Starts, Toggles, Asks, CommandRefused, CallFails, SetsEnabled, Calls, Published
<1>6. CASE WorkerBegins \/ Naps \/ OwnerChanged \/ StateChanged \/ Fetches \/ PropsChanged \/ Confirm
  BY <1>1, <1>6, Reads
<1>7. CASE UNCHANGED vars
  BY <1>1, <1>7 DEF vars, Published
<1> QED BY <1>2, <1>3, <1>4, <1>5, <1>6, <1>7 DEF Next, Publisher, Server, Handles, Environment

\* A worker that is done with one task had begun before.
Begun == worker.task \notin {"starting", "napping"}

\* What the worker believes of the daemon is the last it was told.
LEMMA KeepsOwner ==
  ASSUME Typed, Linked, OwnerTrue, [Next]_vars
  PROVE  OwnerTrue'
<1>0. /\ signals.owner \in Seq({"here", "gone"}) /\ signals.state \in Seq(States)
      /\ signals.props \in Seq(Props) /\ up \in BOOLEAN
      /\ previous.state \in States
  BY DEF Typed, Facts
<1>1. CASE /\ UNCHANGED up /\ signals'.owner = signals.owner /\ connected' = connected
           /\ Begun' => Begun
  BY <1>1 DEF OwnerTrue, Begun
<1>2. CASE WorkerBegins \/ Naps
  <2>1. connected' = up /\ UNCHANGED <<up, signals>>
    BY <1>2, Refreshing DEF WorkerBegins, Naps
  <2> QED BY <2>1 DEF OwnerTrue
<1>3. CASE OwnerChanged
  <2>1. signals.owner # <<>> /\ signals'.owner = Tail(signals.owner) /\ UNCHANGED up
    BY <1>3, TakenTyped DEF OwnerChanged
  <2>2. signals'.owner # <<>> => signals'.owner[Len(signals'.owner)] = signals.owner[Len(signals.owner)]
    BY <1>0, <2>1, Taking
  <2>3. signals'.owner = <<>> => Head(signals.owner) = signals.owner[Len(signals.owner)]
    BY <1>0, <2>1, Taking
  <2>4. signals.owner[Len(signals.owner)] = "here" <=> up
    BY <2>1 DEF OwnerTrue
  <2>5. worker'.task = "napping" \/ connected' = (Head(signals.owner) = "here")
    BY <1>3, Owning
  <2> QED BY <1>0, <2>1, <2>2, <2>3, <2>4, <2>5 DEF OwnerTrue
<1>4. CASE Dies \/ Starts
  <2>1. \/ signals' = Sent("owner", "gone") /\ up' = FALSE
        \/ signals' = Sent("owner", "here") /\ up' = TRUE
    BY <1>4 DEF Dies, Starts
  <2>2. \/ signals'.owner = Append(signals.owner, "gone") /\ up' = FALSE
        \/ signals'.owner = Append(signals.owner, "here") /\ up' = TRUE
    BY <2>1, SentTyped
  <2>3. /\ signals'.owner # <<>>
        /\ \/ signals'.owner[Len(signals'.owner)] = "gone" /\ up' = FALSE
           \/ signals'.owner[Len(signals'.owner)] = "here" /\ up' = TRUE
    BY <1>0, <2>2
  <2> QED BY <2>3 DEF OwnerTrue
<1>5. CASE StateChanged \/ PropsChanged \/ Confirm
  <2>1. UNCHANGED <<up, connected>> /\ Begun
    BY <1>5 DEF StateChanged, PropsChanged, Confirm, Selects, Begun
  <2>2. signals'.owner = signals.owner
    <3>1. CASE StateChanged
      BY <3>1, TakenTyped DEF StateChanged
    <3>2. CASE PropsChanged
      BY <3>2, TakenTyped DEF PropsChanged
    <3>3. CASE Confirm
      BY <3>3, TakenTyped DEF Confirm
    <3> QED BY <1>5, <3>1, <3>2, <3>3
  <2> QED BY <1>1, <2>1, <2>2
<1>6. CASE PublisherGets \/ PublisherEmits \/ PublisherNotes
  <2>1. UNCHANGED <<up, connected, worker>>
    BY <1>6 DEF PublisherGets, PublisherEmits, PublisherNotes, Client
  <2>2. signals'.owner = signals.owner
    <3>1. CASE PublisherGets
      BY <1>0, <3>1, SentTyped DEF PublisherGets
    <3>2. CASE PublisherEmits
      <4>1. Head(publishing) \in {"get", "state", "result"}
        BY <3>2, Taking DEF PublisherEmits, Reading, Typed
      <4>2. Head(publishing) \in {"state", "result"}
        BY <3>2, <4>1 DEF PublisherEmits, Reading
      <4>3. Prop(Head(publishing), status[Head(publishing)]) \in Props
        BY <4>2 DEF Prop, Props, Typed, Facts
      <4> QED BY <3>2, <4>3, SentTyped DEF PublisherEmits
    <3>3. CASE PublisherNotes
      <4>1. Head(notices) \in Questions
        BY <3>3, Taking DEF PublisherNotes, Typed
      <4> QED BY <3>3, <4>1, SentTyped DEF PublisherNotes
    <3> QED BY <1>6, <3>1, <3>2, <3>3
  <2> QED BY <1>1, <2>1, <2>2 DEF Begun
<1>7. CASE SetterDone
  <2>1. /\ UNCHANGED <<up, connected>> /\ worker' = IF setter = "ui" THEN Quick ELSE worker
        /\ signals' = Sent("props", Prop("enabled", enabled))
    BY <1>7 DEF SetterDone
  <2>2. Prop("enabled", enabled) \in Props
    BY DEF Prop, Props, Typed
  <2>3. signals'.owner = signals.owner
    BY <2>1, <2>2, SentTyped
  <2>4. Begun' => Begun
    BY <2>1 DEF Begun, Linked
  <2> QED BY <1>1, <2>1, <2>3, <2>4
<1>8. CASE LoopActs
  <2>1. /\ UNCHANGED <<up, connected, signals>> /\ control # <<>>
        /\ worker' = IF Head(control) = "ui" THEN Quick ELSE worker
    BY <1>8 DEF LoopActs
  <2>2. 1 \in 1..Len(control) /\ Head(control) = control[1]
    BY <2>1 DEF Typed
  <2>3. Begun' => Begun
    BY <2>1, <2>2 DEF Begun, Linked
  <2> QED BY <1>1, <2>1, <2>3
<1>9. CASE StatusChanges \/ PublisherWakes \/ OtherSets \/ Toggles \/ Asks \/ CommandRefused \/ CallFails
  <2>1. UNCHANGED <<up, connected, signals, worker>>
    BY <1>9 DEF StatusChanges, PublisherWakes, OtherSets, Toggles, Asks, CommandRefused, CallFails, Client
  <2> QED BY <1>1, <2>1 DEF Begun
<1>10. CASE SetsEnabled \/ Calls \/ Fetches
  <2>1. UNCHANGED <<up, connected, signals>> /\ Begun
    BY <1>10 DEF SetsEnabled, Calls, Fetches, Selects, Begun
  <2> QED BY <1>1, <2>1
<1>11. CASE UNCHANGED vars
  BY <1>1, <1>11 DEF vars, Client, Begun
<1> QED BY <1>2, <1>3, <1>4, <1>5, <1>6, <1>7, <1>8, <1>9, <1>10, <1>11 DEF Next, Publisher, Server, Handles, Environment
-----------------------------------------------------------------------------
(* What was sent is so. *)

\* What the publisher and the setter send of a property.
LEMMA Emits ==
  ASSUME Typed, PublisherEmits
  PROVE  LET name == Head(publishing)
             p == Prop(name, status[name])
         IN /\ name \in {"state", "result"} /\ p \in Props /\ p.name = name /\ p.value = status[name]
            /\ signals'.props = Append(signals.props, p) /\ signals'.state = signals.state
            /\ signals'.owner = signals.owner
            /\ \A x : Contains(publishing, x) <=> Contains(publishing', x) \/ x = name
<1>1. publishing # <<>> /\ publishing' = Tail(publishing) /\ Head(publishing) # "get"
  BY DEF PublisherEmits, Reading
<1>2. Head(publishing) \in {"get", "state", "result"}
      /\ \A x : Contains(publishing, x) <=> Contains(publishing', x) \/ x = Head(publishing)
  BY <1>1, Taking DEF Typed
<1>3. Head(publishing) \in {"state", "result"}
  BY <1>1, <1>2
<1>4. Prop(Head(publishing), status[Head(publishing)]) \in Props
  BY <1>3 DEF Prop, Props, Typed, Facts
<1>5. signals' = Sent("props", Prop(Head(publishing), status[Head(publishing)]))
  BY DEF PublisherEmits
<1>6. /\ signals'.props = Append(signals.props, Prop(Head(publishing), status[Head(publishing)]))
      /\ signals'.state = signals.state /\ signals'.owner = signals.owner
  BY <1>4, <1>5, SentTyped
<1> QED BY <1>2, <1>3, <1>4, <1>6 DEF Prop

\* What is told of a write of Enabled.
LEMMA Tells ==
  ASSUME Typed, SetterDone
  PROVE  LET p == Prop("enabled", enabled)
         IN /\ p \in Props /\ p.name = "enabled" /\ p.value = enabled
            /\ signals'.props = Append(signals.props, p) /\ signals'.state = signals.state
            /\ signals'.owner = signals.owner
<1>1. Prop("enabled", enabled) \in Props
  BY DEF Prop, Props, Typed
<1>2. signals' = Sent("props", Prop("enabled", enabled))
  BY DEF SetterDone
<1>3. /\ signals'.props = Append(signals.props, Prop("enabled", enabled))
      /\ signals'.state = signals.state /\ signals'.owner = signals.owner
  BY <1>1, <1>2, SentTyped
<1> QED BY <1>1, <1>3 DEF Prop

\* What the publisher sends once it has the interface, and what else goes nowhere near
\* the properties.
LEMMA Gets ==
  ASSUME Typed, PublisherGets
  PROVE  /\ signals'.props = signals.props /\ signals'.owner = signals.owner
         /\ IF Contains(publishing, "state") THEN signals'.state = Append(signals.state, previous.state)
            ELSE signals'.state = signals.state
         /\ \A name \in {"state", "result"} : Contains(publishing, name) <=> Contains(publishing', name)
<1>1. previous.state \in States
  BY DEF Typed, Facts
<1>2. publishing # <<>> /\ publishing' = Tail(publishing) /\ Head(publishing) = "get"
      /\ signals' = IF Contains(publishing, "state") THEN Sent("state", previous.state) ELSE signals
  BY DEF PublisherGets
<1>3. \A x : Contains(publishing, x) <=> Contains(publishing', x) \/ x = "get"
  BY <1>2, Taking DEF Typed
<1>4. CASE Contains(publishing, "state")
  <2>1. signals' = Sent("state", previous.state)
    BY <1>2, <1>4
  <2> QED BY <1>1, <1>3, <1>4, <2>1, SentTyped
<1>5. CASE ~Contains(publishing, "state")
  <2>1. signals' = signals
    BY <1>2, <1>5
  <2> QED BY <1>3, <1>5, <2>1
<1> QED BY <1>4, <1>5

\* Notices and the owner have streams of their own.
LEMMA Beside ==
  ASSUME Typed, PublisherNotes \/ Dies \/ Starts \/ Confirm \/ OwnerChanged
  PROVE  signals'.props = signals.props /\ signals'.state = signals.state
<1>1. CASE PublisherNotes
  <2>1. Head(notices) \in Questions
    BY <1>1, Taking DEF PublisherNotes, Typed
  <2> QED BY <1>1, <2>1, SentTyped DEF PublisherNotes
<1>2. CASE Dies
  BY <1>2, SentTyped DEF Dies
<1>3. CASE Starts
  BY <1>3, SentTyped DEF Starts
<1>4. CASE Confirm
  BY <1>4, TakenTyped DEF Confirm
<1>5. CASE OwnerChanged
  BY <1>5, TakenTyped DEF OwnerChanged
<1> QED BY <1>1, <1>2, <1>3, <1>4, <1>5

\* Every write of Enabled is told before another begins.
LEMMA KeepsSwitchSent ==
  ASSUME Typed, Reset, SwitchSent, [Next]_vars
  PROVE  SwitchSent'
<1>0. signals.props \in Seq(Props)
  BY DEF Typed
<1>1. CASE signals'.props = signals.props /\ UNCHANGED <<up, setter, enabled>>
  BY <1>1 DEF SwitchSent
<1>2. CASE ~up' \/ setter' # "nobody"
  BY <1>2 DEF SwitchSent
<1>3. CASE SetterDone
  <2> DEFINE p == Prop("enabled", enabled)
  <2>1. p \in Props /\ p.name = "enabled" /\ p.value = enabled /\ signals'.props = Append(signals.props, p)
    BY <1>3, Tells
  <2>2. enabled' = enabled
    BY <1>3 DEF SetterDone
  <2> HIDE DEF p
  <2>3. Latest(Append(signals.props, p), "enabled", enabled)
    BY <1>0, <2>1, SentLatest
  <2> QED BY <2>1, <2>2, <2>3 DEF SwitchSent
<1>4. CASE PublisherEmits
  <2> DEFINE p == Prop(Head(publishing), status[Head(publishing)])
  <2>1. p \in Props /\ p.name # "enabled" /\ signals'.props = Append(signals.props, p)
    BY <1>4, Emits
  <2>2. UNCHANGED <<up, setter, enabled>>
    BY <1>4 DEF PublisherEmits, Interface
  <2> HIDE DEF p
  <2>3. Latest(signals.props, "enabled", enabled) => Latest(Append(signals.props, p), "enabled", enabled)
    BY <1>0, <2>1, SentLatest
  <2> QED BY <2>1, <2>2, <2>3 DEF SwitchSent
<1>5. CASE PropsChanged
  <2>1. UNCHANGED <<up, setter, enabled>> /\ signals.props # <<>> /\ signals'.props = Tail(signals.props)
    BY <1>5, TakenTyped DEF PropsChanged, Interface
  <2>2. Latest(signals.props, "enabled", enabled) => Latest(Tail(signals.props), "enabled", enabled)
    BY <1>0, <2>1, TakenLatest
  <2> QED BY <2>1, <2>2 DEF SwitchSent
<1>6. CASE Starts
  <2>1. signals'.props = <<>>
    BY <1>6, Beside DEF Starts
  <2> QED BY <2>1, EmptyStreams DEF SwitchSent
<1>7. CASE Dies \/ OtherSets \/ SetsEnabled
  BY <1>2, <1>7 DEF Dies, OtherSets, SetsEnabled, Sets
<1>8. CASE PublisherGets \/ PublisherNotes \/ Confirm \/ OwnerChanged
  <2>1. signals'.props = signals.props
    BY <1>8, Gets, Beside
  <2>2. UNCHANGED <<up, setter, enabled>>
    BY <1>8 DEF PublisherGets, PublisherNotes, Confirm, OwnerChanged, Interface
  <2> QED BY <1>1, <2>1, <2>2
<1>9. CASE StateChanged
  <2>1. signals'.props = signals.props /\ UNCHANGED <<up, setter, enabled>>
    BY <1>9, TakenTyped DEF StateChanged, Interface
  <2> QED BY <1>1, <2>1
<1>10. CASE StatusChanges \/ PublisherWakes \/ LoopActs \/ WorkerBegins \/ Naps \/ Fetches \/ Toggles \/ Asks
             \/ CommandRefused \/ CallFails \/ Calls
  <2>1. UNCHANGED <<up, setter, enabled, signals>>
    BY <1>10 DEF StatusChanges, PublisherWakes, LoopActs, WorkerBegins, Naps, Fetches, Toggles, Asks,
       CommandRefused, CallFails, Calls, Interface
  <2> QED BY <1>1, <2>1
<1>11. CASE UNCHANGED vars
  BY <1>1, <1>11 DEF vars, Interface
<1> QED BY <1>3, <1>4, <1>5, <1>6, <1>7, <1>8, <1>9, <1>10, <1>11 DEF Next, Publisher, Server, Handles, Environment

\* What a new status leaves of what is still to come.
LEMMA NewStatus ==
  ASSUME Typed, Seen, StatusChanges, ~missed', NEW name \in {"state", "result"}
  PROVE  /\ ~missed /\ ~changed /\ UNCHANGED <<previous, publishing>>
         /\ ~Owed(name)
         /\ Owed(name)' \/ status'[name] = status[name]
<1>1. /\ changed' = TRUE /\ missed' = (missed \/ changed) /\ UNCHANGED <<previous, publishing>>
  BY DEF StatusChanges, StatusSent
<1> QED BY <1>1 DEF Owed, Seen

\* What the publisher finds when it wakes.
LEMMA Waking ==
  ASSUME Typed, PublisherWakes, NEW name \in {"state", "result"}
  PROVE  /\ UNCHANGED <<up, status, missed, setter, enabled, signals, worker, connected, commands, ui>>
         /\ Owed(name) <=> Contains(publishing', name)
         /\ ~Contains(publishing, name) /\ ~Getting
         /\ publishing' # <<>> /\ Head(publishing') = "get"
<1>1. /\ changed /\ publishing = <<>> /\ publishing' = ToEmit(status)
      /\ UNCHANGED <<up, status, missed, setter, enabled, signals, worker, connected, commands, ui>>
  BY DEF PublisherWakes, Interface, Client
<1>2. status \in Facts
  BY DEF Typed
<1>3. /\ publishing' # <<>> /\ Head(publishing') = "get"
      /\ Contains(publishing', "state") <=> status.state # previous.state
      /\ Contains(publishing', "result") <=> status.result # previous.result
  BY <1>1, <1>2, EmitTyped
<1>4. Owed(name) <=> Contains(publishing', name)
  BY <1>1, <1>3 DEF Owed
<1> QED BY <1>1, <1>3, <1>4, EmptyStreams DEF Getting

\* A fact that changed is still to be told, or its last telling is true.
LEMMA KeepsFactsSent ==
  ASSUME Typed, Reset, Seen, FactsSent, [Next]_vars
  PROVE  FactsSent'
<1>0. signals.props \in Seq(Props)
  BY DEF Typed
<1>1. CASE /\ signals'.props = signals.props
           /\ UNCHANGED <<up, missed, changed, status, previous, publishing>>
  BY <1>1 DEF FactsSent, Comes, Owed
<1>2. CASE ~up'
  BY <1>2 DEF FactsSent
<1>3. CASE StatusChanges
  <2>1. UNCHANGED <<up, signals, publishing>>
    BY <1>3 DEF StatusChanges
  <2> SUFFICES ASSUME up', ~missed', NEW name \in {"state", "result"}
               PROVE  Comes(name)' \/ Latest(signals'.props, name, status'[name])
    BY DEF FactsSent
  <2>2. /\ ~missed /\ ~Owed(name)
        /\ Owed(name)' \/ status'[name] = status[name]
    BY <1>3, NewStatus
  <2>3. Comes(name) \/ Latest(signals.props, name, status[name])
    BY <2>1, <2>2 DEF FactsSent
  <2> QED BY <2>1, <2>2, <2>3 DEF Comes
<1>4. CASE PublisherWakes
  <2> SUFFICES ASSUME up', ~missed', NEW name \in {"state", "result"}
               PROVE  Comes(name)' \/ Latest(signals'.props, name, status'[name])
    BY DEF FactsSent
  <2>1. /\ UNCHANGED <<up, status, missed, signals>>
        /\ Owed(name) <=> Contains(publishing', name)
        /\ ~Contains(publishing, name)
    BY <1>4, Waking
  <2>2. Comes(name) \/ Latest(signals.props, name, status[name])
    BY <2>1 DEF FactsSent
  <2> QED BY <2>1, <2>2 DEF Comes
<1>5. CASE PublisherGets
  <2> SUFFICES ASSUME up', ~missed', NEW name \in {"state", "result"}
               PROVE  Comes(name)' \/ Latest(signals'.props, name, status'[name])
    BY DEF FactsSent
  <2>1. UNCHANGED <<up, status, missed, changed, previous>>
    BY <1>5 DEF PublisherGets
  <2>2. signals'.props = signals.props /\ (Contains(publishing, name) <=> Contains(publishing', name))
    BY <1>5, Gets
  <2> QED BY <2>1, <2>2 DEF FactsSent, Comes, Owed
<1>6. CASE PublisherEmits
  <2> SUFFICES ASSUME up', ~missed', NEW name \in {"state", "result"}
               PROVE  Comes(name)' \/ Latest(signals'.props, name, status'[name])
    BY DEF FactsSent
  <2> DEFINE p == Prop(Head(publishing), status[Head(publishing)])
  <2>1. UNCHANGED <<up, status, missed, changed, previous>>
    BY <1>6 DEF PublisherEmits
  <2>2. /\ p \in Props /\ p.name = Head(publishing) /\ p.value = status[Head(publishing)]
        /\ signals'.props = Append(signals.props, p)
        /\ Contains(publishing, name) <=> Contains(publishing', name) \/ name = Head(publishing)
    BY <1>6, Emits
  <2>3. Comes(name) \/ Latest(signals.props, name, status[name])
    BY <2>1 DEF FactsSent
  <2> HIDE DEF p
  <2>4. CASE name = Head(publishing)
    <3>1. Latest(Append(signals.props, p), name, status[name])
      BY <1>0, <2>2, <2>4, SentLatest
    <3> QED BY <2>1, <2>2, <3>1
  <2>5. CASE name # Head(publishing)
    <3>1. Latest(signals.props, name, status[name]) => Latest(Append(signals.props, p), name, status[name])
      BY <1>0, <2>2, <2>5, SentLatest
    <3> QED BY <2>1, <2>2, <2>3, <2>5, <3>1 DEF Comes, Owed
  <2> QED BY <2>4, <2>5
<1>7. CASE SetterDone
  <2> SUFFICES ASSUME up', ~missed', NEW name \in {"state", "result"}
               PROVE  Comes(name)' \/ Latest(signals'.props, name, status'[name])
    BY DEF FactsSent
  <2> DEFINE p == Prop("enabled", enabled)
  <2>1. UNCHANGED <<up, status, missed, changed, previous, publishing>>
    BY <1>7 DEF SetterDone, Published
  <2>2. p \in Props /\ p.name # name /\ signals'.props = Append(signals.props, p)
    BY <1>7, Tells
  <2> HIDE DEF p
  <2>3. Latest(signals.props, name, status[name]) => Latest(Append(signals.props, p), name, status[name])
    BY <1>0, <2>2, SentLatest
  <2> QED BY <2>1, <2>2, <2>3 DEF FactsSent, Comes, Owed
<1>8. CASE PropsChanged
  <2> SUFFICES ASSUME up', ~missed', NEW name \in {"state", "result"}
               PROVE  Comes(name)' \/ Latest(signals'.props, name, status'[name])
    BY DEF FactsSent
  <2>1. /\ UNCHANGED <<up, status, missed, changed, previous, publishing>>
        /\ signals.props # <<>> /\ signals'.props = Tail(signals.props)
    BY <1>8, TakenTyped DEF PropsChanged, Published
  <2>2. Latest(signals.props, name, status[name]) => Latest(Tail(signals.props), name, status[name])
    BY <1>0, <2>1, TakenLatest
  <2> QED BY <2>1, <2>2 DEF FactsSent, Comes, Owed
<1>9. CASE Starts
  <2>1. signals'.props = <<>>
    BY <1>9, Beside DEF Starts
  <2> QED BY <2>1, EmptyStreams DEF FactsSent
<1>10. CASE Dies
  BY <1>2, <1>10 DEF Dies
<1>11. CASE PublisherNotes \/ Confirm \/ OwnerChanged
  <2>1. signals'.props = signals.props
    BY <1>11, Beside
  <2>2. UNCHANGED <<up, missed, changed, status, previous, publishing>>
    BY <1>11 DEF PublisherNotes, Confirm, OwnerChanged, Published
  <2> QED BY <1>1, <2>1, <2>2
<1>12. CASE StateChanged
  <2>1. /\ signals'.props = signals.props
        /\ UNCHANGED <<up, missed, changed, status, previous, publishing>>
    BY <1>12, TakenTyped DEF StateChanged, Published
  <2> QED BY <1>1, <2>1
<1>13. CASE OtherSets \/ LoopActs \/ WorkerBegins \/ Naps \/ Fetches \/ Toggles \/ Asks
             \/ CommandRefused \/ CallFails \/ SetsEnabled \/ Calls
  <2>1. UNCHANGED <<up, missed, changed, status, previous, publishing, signals>>
    BY <1>13 DEF OtherSets, LoopActs, WorkerBegins, Naps, Fetches, Toggles, Asks,
       CommandRefused, CallFails, SetsEnabled, Sets, Calls, Published
  <2> QED BY <1>1, <2>1
<1>14. CASE UNCHANGED vars
  BY <1>1, <1>14 DEF vars, Published
<1> QED BY <1>3, <1>4, <1>5, <1>6, <1>7, <1>8, <1>9, <1>10, <1>11, <1>12, <1>13, <1>14 DEF Next, Publisher, Server, Handles, Environment

\* The same of StateChanged, which the publisher sends with the value it borrowed.
LEMMA KeepsStateSent ==
  ASSUME Typed, Linked, Reset, Seen, StateSent, [Next]_vars
  PROVE  StateSent'
<1> DEFINE Told == IF signals.state # <<>> THEN signals.state[Len(signals.state)] = status.state
                   ELSE worker.task = "fetching" => worker.value = status.state
<1>0. signals.state \in Seq(States) /\ "state" \in {"state", "result"} /\ previous.state \in States
  BY DEF Typed, Facts
<1>1. CASE /\ signals'.state = signals.state
           /\ UNCHANGED <<up, missed, changed, status, previous, publishing>>
           /\ worker' = worker \/ worker'.task # "fetching"
  BY <1>1 DEF StateSent, Owed, Getting
<1>2. CASE ~up'
  BY <1>2 DEF StateSent
<1>3. CASE StatusChanges
  <2> SUFFICES ASSUME up', ~missed' PROVE Owed("state")' \/ Getting' \/ Told'
    BY DEF StateSent
  <2>1. UNCHANGED <<up, signals, publishing, worker>>
    BY <1>3 DEF StatusChanges, Client
  <2>2. /\ ~missed /\ ~Owed("state")
        /\ Owed("state")' \/ status'.state = status.state
    BY <1>3, NewStatus
  <2>3. Getting \/ Told
    BY <2>1, <2>2 DEF StateSent
  <2> QED BY <2>1, <2>2, <2>3 DEF Getting
<1>4. CASE PublisherWakes
  <2> SUFFICES ASSUME up', ~missed' PROVE Owed("state")' \/ Getting' \/ Told'
    BY DEF StateSent
  <2>1. /\ UNCHANGED <<up, status, missed, signals, worker>> /\ ~Getting
        /\ Owed("state") <=> Contains(publishing', "state")
        /\ publishing' # <<>> /\ Head(publishing') = "get"
    BY <1>4, Waking
  <2>2. Owed("state") \/ Told
    BY <2>1 DEF StateSent
  <2>3. CASE Owed("state")
    BY <2>1, <2>3 DEF Getting
  <2>4. CASE Told
    BY <2>1, <2>4
  <2> QED BY <2>2, <2>3, <2>4
<1>5. CASE PublisherGets
  <2> SUFFICES ASSUME up', ~missed' PROVE Owed("state")' \/ Getting' \/ Told'
    BY DEF StateSent
  <2>1. UNCHANGED <<up, status, missed, changed, previous, worker>>
    BY <1>5 DEF PublisherGets, Client
  <2>2. Owed("state")' <=> Owed("state")
    BY <2>1 DEF Owed
  <2>3. CASE Contains(publishing, "state")
    <3>1. signals'.state = Append(signals.state, previous.state)
      BY <1>5, <2>3, Gets
    <3>2. signals'.state # <<>> /\ signals'.state[Len(signals'.state)] = previous.state
      BY <1>0, <3>1
    <3>3. Owed("state") \/ previous.state = status.state
      BY DEF Owed, Seen
    <3> QED BY <2>1, <2>2, <3>2, <3>3
  <2>4. CASE ~Contains(publishing, "state")
    <3>1. signals'.state = signals.state
      BY <1>5, <2>4, Gets
    <3>2. Owed("state") \/ Told
      BY <2>1, <2>4 DEF StateSent, Getting
    <3> QED BY <2>1, <2>2, <3>1, <3>2
  <2> QED BY <2>3, <2>4
<1>6. CASE PublisherEmits
  <2> SUFFICES ASSUME up', ~missed' PROVE Owed("state")' \/ Getting' \/ Told'
    BY DEF StateSent
  <2>1. UNCHANGED <<up, status, missed, changed, previous, worker>> /\ signals'.state = signals.state
    BY <1>6, Emits DEF PublisherEmits, Client
  <2>2. Owed("state")' <=> Owed("state")
    BY <2>1 DEF Owed
  <2>3. Owed("state") \/ Told
    BY <1>6, <2>1 DEF StateSent, Getting, PublisherEmits, Reading
  <2> QED BY <2>1, <2>2, <2>3
<1>7. CASE SetterDone
  <2>1. UNCHANGED <<up, status, missed, changed, previous, publishing>> /\ worker' \in {worker, Quick}
    BY <1>7 DEF SetterDone, Published
  <2>2. signals'.state = signals.state
    BY <1>7, Tells
  <2> QED BY <1>1, <2>1, <2>2 DEF Quick
<1>8. CASE StateChanged
  <2> SUFFICES ASSUME up', ~missed' PROVE Owed("state")' \/ Getting' \/ Told'
    BY DEF StateSent
  <2>1. /\ UNCHANGED <<up, status, missed, changed, previous, publishing>>
        /\ signals.state # <<>> /\ signals'.state = Tail(signals.state)
        /\ worker' = worker \/ worker' = [task |-> "fetching", value |-> Head(signals.state)]
        /\ worker.task = "select"
    BY <1>8, TakenTyped DEF StateChanged, Published, Selects
  <2>2. /\ Owed("state")' <=> Owed("state")
        /\ Getting' <=> Getting
    BY <2>1 DEF Owed, Getting
  <2>3. CASE Told
    <3>1. signals.state[Len(signals.state)] = status.state
      BY <2>1, <2>3
    <3>2. signals'.state # <<>> => signals'.state[Len(signals'.state)] = status.state
      BY <1>0, <2>1, <3>1, Taking
    <3>3. signals'.state = <<>> => Head(signals.state) = status.state
      BY <1>0, <2>1, <3>1, Taking
    <3>4. worker'.task = "fetching" => worker'.value = Head(signals.state)
      <4>1. CASE worker' = worker
        BY <2>1, <4>1
      <4>2. CASE worker' = [task |-> "fetching", value |-> Head(signals.state)]
        BY <4>2
      <4> QED BY <2>1, <4>1, <4>2
    <3> QED BY <2>1, <3>2, <3>3, <3>4
  <2> QED BY <2>1, <2>2, <2>3 DEF StateSent
<1>9. CASE Starts
  <2>1. signals'.state = <<>> /\ status' = status /\ worker' = worker /\ status = Default
    BY <1>9, Beside DEF Starts, Reset, Published, Client
  <2>2. worker.task = "fetching" => worker.value = status.state
    BY <2>1 DEF Typed, Default
  <2> QED BY <2>1, <2>2 DEF StateSent
<1>10. CASE Dies
  BY <1>2, <1>10 DEF Dies
<1>11. CASE PublisherNotes \/ Confirm \/ OwnerChanged
  <2>1. signals'.state = signals.state
    BY <1>11, Beside
  <2>2. UNCHANGED <<up, missed, changed, status, previous, publishing>>
    BY <1>11 DEF PublisherNotes, Confirm, OwnerChanged, Published
  <2>3. worker' = worker \/ worker'.task # "fetching"
    <3>1. CASE OwnerChanged
      BY <3>1, Owning
    <3>2. CASE PublisherNotes \/ Confirm
      BY <3>2 DEF PublisherNotes, Confirm, Client
    <3> QED BY <1>11, <3>1, <3>2
  <2> QED BY <1>1, <2>1, <2>2, <2>3
<1>12. CASE PropsChanged
  <2>1. /\ signals'.state = signals.state
        /\ UNCHANGED <<up, missed, changed, status, previous, publishing, worker>>
    BY <1>12, TakenTyped DEF PropsChanged, Published
  <2> QED BY <1>1, <2>1
<1>13. CASE OtherSets \/ Toggles \/ Asks \/ CommandRefused \/ CallFails
  <2>1. UNCHANGED <<up, missed, changed, status, previous, publishing, signals, worker>>
    BY <1>13 DEF OtherSets, Toggles, Asks, CommandRefused, CallFails, Sets, Published, Client
  <2> QED BY <1>1, <2>1
<1>14. CASE LoopActs \/ WorkerBegins \/ Naps \/ Fetches \/ SetsEnabled \/ Calls
  <2>1. UNCHANGED <<up, missed, changed, status, previous, publishing, signals>>
    BY <1>14 DEF LoopActs, WorkerBegins, Naps, Fetches, SetsEnabled, Sets, Calls, Published
  <2>2. worker' = worker \/ worker'.task # "fetching"
    BY <1>14 DEF LoopActs, WorkerBegins, Naps, Fetches, SetsEnabled, Calls, Quick
  <2> QED BY <1>1, <2>1, <2>2
<1>15. CASE UNCHANGED vars
  BY <1>1, <1>15 DEF vars, Published, Client
<1> QED BY <1>3, <1>4, <1>5, <1>6, <1>7, <1>8, <1>9, <1>10, <1>11, <1>12, <1>13, <1>14, <1>15 DEF Next, Publisher, Server, Handles, Environment
-----------------------------------------------------------------------------
(* What is shown is so. *)

\* A worker that has settled after a step of the daemon's, or of the user's, had settled
\* before it.
LEMMA Settles ==
  ASSUME Typed, Linked, OwnerTrue, up', Settled',
         StatusChanges \/ Publisher \/ Server \/ OtherSets \/ Dies \/ Starts \/ Toggles \/ Asks
  PROVE  /\ up /\ Settled /\ UNCHANGED connected
         /\ worker'.task = "fetching" <=> worker.task = "fetching"
<1>1. CASE StatusChanges \/ PublisherWakes \/ OtherSets \/ Toggles \/ Asks
  BY <1>1 DEF StatusChanges, PublisherWakes, OtherSets, Sets, Toggles, Asks, Client, Settled
<1>2. CASE PublisherGets \/ PublisherEmits
  <2>1. signals'.owner = signals.owner
    BY <1>2, Gets, Emits
  <2> QED BY <1>2, <2>1 DEF PublisherGets, PublisherEmits, Client, Settled
<1>3. CASE PublisherNotes
  <2>1. Head(notices) \in Questions
    BY <1>3, Taking DEF PublisherNotes, Typed
  <2>2. signals'.owner = signals.owner
    BY <1>3, <2>1, SentTyped DEF PublisherNotes
  <2> QED BY <1>3, <2>2 DEF PublisherNotes, Client, Settled
<1>4. CASE SetterDone
  <2>1. signals'.owner = signals.owner
    BY <1>4, Tells
  <2>2. /\ UNCHANGED <<up, connected>> /\ setter # "nobody"
        /\ worker' = IF setter = "ui" THEN Quick ELSE worker
    BY <1>4 DEF SetterDone
  <2>3. setter = "ui" => worker.task = "setting" /\ worker'.task = "select"
    BY <2>2 DEF Linked, Quick
  <2> QED BY <2>1, <2>2, <2>3 DEF Settled
<1>5. CASE LoopActs
  <2>1. /\ UNCHANGED <<up, connected, signals>> /\ control # <<>>
        /\ worker' = IF Head(control) = "ui" THEN Quick ELSE worker
    BY <1>5 DEF LoopActs
  <2>2. 1 \in 1..Len(control) /\ Head(control) = control[1]
    BY <2>1 DEF Typed
  <2>3. Head(control) = "ui" => worker.task = "calling" /\ worker'.task = "select"
    BY <2>1, <2>2 DEF Linked, Quick
  <2> QED BY <2>1, <2>3 DEF Settled
<1>6. CASE Dies
  BY <1>6 DEF Dies
<1>7. CASE Starts
  <2>1. UNCHANGED <<worker, connected>> /\ ~up /\ signals' = Sent("owner", "here")
    BY <1>7 DEF Starts, Client
  <2>2. signals.owner \in Seq({"here", "gone"}) /\ signals'.owner = Append(signals.owner, "here")
    BY <2>1, SentTyped DEF Typed
  <2>3. ~Contains(signals.owner, "gone")
    BY <2>2, Sending DEF Settled
  <2>4. signals.owner = <<>>
    <3> SUFFICES ASSUME signals.owner # <<>> PROVE FALSE
      OBVIOUS
    <3>1. signals.owner[Len(signals.owner)] # "here" /\ Len(signals.owner) \in 1..Len(signals.owner)
      BY <2>1, <2>2 DEF OwnerTrue
    <3>2. signals.owner[Len(signals.owner)] \in {"here", "gone"}
      BY <2>2, <3>1
    <3> QED BY <2>3, <3>1, <3>2 DEF Contains
  <2> QED BY <2>1, <2>4 DEF Settled, OwnerTrue
<1> QED BY <1>1, <1>2, <1>3, <1>4, <1>5, <1>6, <1>7 DEF Publisher, Server

\* The same of a step of the worker's that is not the reading of everything.
LEMMA Stays ==
  ASSUME Typed, up', Settled',
         OwnerChanged \/ StateChanged \/ Fetches \/ PropsChanged \/ Confirm \/ SetsEnabled \/ Calls
  PROVE  up /\ Settled /\ UNCHANGED connected
<1>1. CASE StateChanged \/ PropsChanged \/ Confirm
  <2>1. UNCHANGED <<up, connected>> /\ worker.task = "select"
    BY <1>1 DEF StateChanged, PropsChanged, Confirm, Selects
  <2>2. signals'.owner = signals.owner
    <3>1. CASE StateChanged
      BY <3>1, TakenTyped DEF StateChanged
    <3>2. CASE PropsChanged
      BY <3>2, TakenTyped DEF PropsChanged
    <3>3. CASE Confirm
      BY <3>3, TakenTyped DEF Confirm
    <3> QED BY <1>1, <3>1, <3>2, <3>3
  <2> QED BY <2>1, <2>2 DEF Settled
<1>2. CASE Fetches \/ SetsEnabled \/ Calls
  BY <1>2 DEF Fetches, SetsEnabled, Calls, Selects, Settled
<1>3. CASE OwnerChanged
  <2>1. /\ signals.owner # <<>> /\ signals'.owner = Tail(signals.owner) /\ UNCHANGED up
        /\ worker.task = "select"
    BY <1>3, TakenTyped DEF OwnerChanged, Selects
  <2>2. Head(signals.owner) = "here" /\ connected /\ connected' = TRUE
    BY <1>3, Owning DEF Settled
  <2>3. \A x : Contains(signals.owner, x) <=> Contains(signals'.owner, x) \/ x = Head(signals.owner)
    BY <2>1, Taking DEF Typed
  <2>4. "gone" # "here"
    OBVIOUS
  <2>5. ~Contains(signals.owner, "gone")
    BY <2>2, <2>3, <2>4 DEF Settled
  <2> QED BY <2>1, <2>2, <2>5 DEF Settled, Typed
<1> QED BY <1>1, <1>2, <1>3

\* The switch shown is the daemon's, or something about it is under way.
LEMMA KeepsSwitchShown ==
  ASSUME Typed, Linked, OwnerTrue, SwitchSent, SwitchShown, [Next]_vars
  PROVE  SwitchShown'
<1> DEFINE Wanted == \E i \in 1..Len(commands) : commands[i].kind = "enabled"
           Right == \/ ui.enabled = enabled \/ setter # "nobody" \/ About(signals.props, "enabled")
                     \/ Wanted
<1> SUFFICES ASSUME up', Settled' PROVE Right'
  BY DEF SwitchShown
<1>0. signals.props \in Seq(Props) /\ commands \in Seq(Commands) /\ ui \in Shows
  BY DEF Typed, Commands, Shows
<1>1. CASE /\ up /\ Settled /\ ui'.enabled = ui.enabled /\ UNCHANGED <<setter, enabled, commands>>
           /\ signals'.props = signals.props
  BY <1>1 DEF SwitchShown
<1>2. CASE WorkerBegins \/ Naps
  <2>1. Refreshed /\ UNCHANGED <<up, enabled>>
    BY <1>2 DEF WorkerBegins, Naps, Interface
  <2> QED BY <2>1, Refreshing
<1>3. CASE SetterDone
  <2> DEFINE p == Prop("enabled", enabled)
  <2>1. p \in Props /\ p.name = "enabled" /\ signals'.props = Append(signals.props, p)
    BY <1>3, Tells
  <2> HIDE DEF p
  <2> QED BY <1>0, <2>1, SentLatest
<1>4. CASE OtherSets \/ SetsEnabled
  BY <1>4 DEF OtherSets, SetsEnabled, Sets
<1>5. CASE PublisherEmits
  <2> DEFINE p == Prop(Head(publishing), status[Head(publishing)])
  <2>1. p \in Props /\ signals'.props = Append(signals.props, p)
    BY <1>5, Emits
  <2>2. UNCHANGED <<setter, enabled, commands, ui>>
    BY <1>5 DEF PublisherEmits, Interface, Client
  <2>3. up /\ Settled
    BY <1>5, Settles DEF Publisher
  <2> HIDE DEF p
  <2>4. About(signals.props, "enabled") => About(Append(signals.props, p), "enabled")
    BY <1>0, <2>1, SentLatest
  <2> QED BY <2>1, <2>2, <2>3, <2>4 DEF SwitchShown
<1>6. CASE PropsChanged
  <2> DEFINE p == Head(signals.props)
  <2>1. /\ UNCHANGED <<setter, enabled, commands>>
        /\ signals.props # <<>> /\ signals'.props = Tail(signals.props)
    BY <1>6, TakenTyped DEF PropsChanged, Interface
  <2>2. up /\ Settled
    BY <1>6, Stays
  <2>3. p \in Props /\ (IF p.name = "enabled" THEN ui'.enabled = p.value ELSE ui'.enabled = ui.enabled)
    BY <1>6, Changing DEF Props
  <2> HIDE DEF p
  <2>4. CASE p.name = "enabled"
    <3>1. setter # "nobody" \/ Latest(signals.props, "enabled", enabled)
      BY <2>2 DEF SwitchSent
    <3>2. /\ Latest(signals.props, "enabled", enabled) /\ Head(signals.props).name = "enabled"
             /\ ~About(Tail(signals.props), "enabled") => Head(signals.props).value = enabled
      BY <1>0, <2>1, TakenLatest
    <3> QED BY <2>1, <2>3, <2>4, <3>1, <3>2 DEF p
  <2>5. CASE p.name # "enabled"
    <3>1. About(signals.props, "enabled") /\ Head(signals.props).name # "enabled"
            => About(Tail(signals.props), "enabled")
      BY <1>0, <2>1, TakenLatest
    <3> QED BY <2>1, <2>2, <2>3, <2>5, <3>1 DEF SwitchShown, p
  <2> QED BY <2>4, <2>5
<1>7. CASE Toggles \/ Asks
  <2>1. PICK c \in Commands : commands' = Append(commands, c) /\ (Toggles => c.kind = "enabled")
    <3>1. CASE Toggles
      <4>1. (~ui.enabled) \in BOOLEAN
        OBVIOUS
      <4>2. [kind |-> "enabled", on |-> ~ui.enabled] \in Commands
        BY <4>1 DEF Commands
      <4> QED BY <3>1, <4>2 DEF Toggles
    <3>2. CASE Asks /\ ~Toggles
      <4>1. [kind |-> "call", on |-> FALSE] \in Commands
        BY DEF Commands
      <4> QED BY <3>2, <4>1 DEF Asks
    <3> QED BY <1>7, <3>1, <3>2
  <2>2. /\ Len(commands') = Len(commands) + 1 /\ Len(commands) \in Nat
        /\ commands'[Len(commands) + 1] = c
        /\ \A i \in 1..Len(commands) : i \in 1..Len(commands') /\ commands'[i] = commands[i]
    BY <1>0, <2>1
  <2>3. Wanted => Wanted'
    BY <2>2
  <2>4. CASE Toggles
    <3>1. Len(commands) + 1 \in 1..Len(commands')
      BY <2>2
    <3> QED BY <2>1, <2>2, <2>4, <3>1
  <2>5. CASE Asks
    <3>1. UNCHANGED <<setter, enabled, ui, signals>>
      BY <2>5 DEF Asks, Interface
    <3>2. up /\ Settled
      BY <2>5, Settles
    <3> QED BY <2>3, <3>1, <3>2 DEF SwitchShown
  <2> QED BY <1>7, <2>4, <2>5
<1>8. CASE Calls
  <2>1. /\ UNCHANGED <<setter, enabled, signals, ui>> /\ commands # <<>>
        /\ Head(commands).kind = "call" /\ commands' = Tail(commands)
    BY <1>8 DEF Calls
  <2>2. up /\ Settled
    BY <1>8, Stays
  <2>3. /\ Head(commands) = commands[1]
        /\ \A i \in 1..Len(commands) : i = 1 \/ (i - 1 \in 1..Len(commands') /\ commands'[i - 1] = commands[i])
    BY <1>0, <2>1
  <2>4. Wanted => Wanted'
    BY <2>1, <2>3
  <2> QED BY <2>1, <2>2, <2>4 DEF SwitchShown
<1>9. CASE CommandRefused \/ CallFails
  BY <1>9 DEF CommandRefused, CallFails, Settled
<1>10. CASE OwnerChanged \/ StateChanged \/ Fetches \/ Confirm
  <2>1. up /\ Settled
    BY <1>10, Stays
  <2>2. UNCHANGED <<setter, enabled, commands>>
    BY <1>10, Reads
  <2>3. signals'.props = signals.props
    <3>1. CASE StateChanged
      BY <3>1, TakenTyped DEF StateChanged
    <3>2. CASE Fetches
      BY <3>2 DEF Fetches
    <3> QED BY <1>10, <3>1, <3>2, Beside
  <2>4. ui'.enabled = ui.enabled
    <3>1. CASE OwnerChanged
      BY <3>1, Owning
    <3>2. CASE StateChanged
      <4>1. signals.state # <<>> /\ signals.state \in Seq(States)
        BY <3>2 DEF StateChanged, Typed
      <4>2. Head(signals.state) \in Shown
        BY <4>1, Taking DEF Shown
      <4>3. ui' \in {ui, WithState(ui, Head(signals.state))}
        BY <3>2 DEF StateChanged
      <4> QED BY <1>0, <4>2, <4>3, ShowTyped
    <3>3. CASE Fetches
      BY <3>3, Fetching
    <3>4. CASE Confirm
      <4>1. signals.confirm # <<>> /\ signals.confirm \in Seq(Questions)
        BY <3>4 DEF Confirm, Typed
      <4>2. Head(signals.confirm) \in Asked
        BY <4>1, Taking DEF Asked
      <4>3. ui' = [ui EXCEPT !.question = Head(signals.confirm)]
        BY <3>4 DEF Confirm
      <4> QED BY <1>0, <4>2, <4>3, ShowTyped
    <3> QED BY <1>10, <3>1, <3>2, <3>3, <3>4
  <2> QED BY <1>1, <2>1, <2>2, <2>3, <2>4
<1>11. CASE StatusChanges \/ PublisherWakes \/ PublisherGets \/ PublisherNotes \/ LoopActs \/ Dies \/ Starts
  <2>1. up /\ Settled
    BY <1>11, Settles DEF Publisher, Server
  <2>2. ~Dies
    BY DEF Dies
  <2>3. UNCHANGED <<setter, enabled, commands, ui>>
    BY <1>11, <2>2 DEF StatusChanges, PublisherWakes, PublisherGets, PublisherNotes, LoopActs, Starts,
       Interface, Client
  <2>4. signals'.props = signals.props
    <3>1. CASE StatusChanges \/ PublisherWakes \/ LoopActs
      BY <3>1 DEF StatusChanges, PublisherWakes, LoopActs
    <3> QED BY <1>11, <3>1, Gets, Beside
  <2> QED BY <1>1, <2>1, <2>3, <2>4
<1>12. CASE UNCHANGED vars
  BY <1>1, <1>12 DEF vars, Interface, Client, Settled
<1> QED BY <1>2, <1>3, <1>4, <1>5, <1>6, <1>7, <1>8, <1>9, <1>10, <1>11, <1>12 DEF Next, Publisher, Server, Handles, Environment

\* Whatever is on its way stays so until the worker takes it, and a new status comes too.
LEMMA StillComes ==
  ASSUME Typed, Seen, [Next]_vars, ~PropsChanged, up, up', ~missed', NEW name \in {"state", "result"}
  PROVE  /\ ~missed
         /\ Comes(name) => Comes(name)' \/ About(signals'.props, name)
         /\ About(signals.props, name) => About(signals'.props, name)
         /\ status'[name] = status[name] \/ Comes(name)'
<1>0. signals.props \in Seq(Props)
  BY DEF Typed
<1>1. CASE /\ signals'.props = signals.props
           /\ UNCHANGED <<missed, changed, status, previous, publishing>>
  BY <1>1 DEF Comes, Owed
<1>2. CASE StatusChanges
  <2>1. UNCHANGED <<signals, publishing>>
    BY <1>2 DEF StatusChanges
  <2>2. ~missed /\ ~Owed(name) /\ (Owed(name)' \/ status'[name] = status[name])
    BY <1>2, NewStatus
  <2> QED BY <2>1, <2>2 DEF Comes
<1>3. CASE PublisherWakes
  <2>1. /\ UNCHANGED <<status, missed, signals>>
        /\ Owed(name) <=> Contains(publishing', name)
        /\ ~Contains(publishing, name)
    BY <1>3, Waking
  <2> QED BY <2>1 DEF Comes
<1>4. CASE PublisherGets
  <2>1. UNCHANGED <<status, missed, changed, previous>>
    BY <1>4 DEF PublisherGets
  <2>2. signals'.props = signals.props /\ (Contains(publishing, name) <=> Contains(publishing', name))
    BY <1>4, Gets
  <2> QED BY <2>1, <2>2 DEF Comes, Owed
<1>5. CASE PublisherEmits
  <2> DEFINE p == Prop(Head(publishing), status[Head(publishing)])
  <2>1. UNCHANGED <<status, missed, changed, previous>>
    BY <1>5 DEF PublisherEmits
  <2>2. /\ p \in Props /\ p.name = Head(publishing) /\ signals'.props = Append(signals.props, p)
        /\ Contains(publishing, name) <=> Contains(publishing', name) \/ name = Head(publishing)
    BY <1>5, Emits
  <2> HIDE DEF p
  <2>3. About(signals.props, name) \/ p.name = name => About(Append(signals.props, p), name)
    BY <1>0, <2>2, SentLatest
  <2> QED BY <2>1, <2>2, <2>3 DEF Comes, Owed
<1>6. CASE SetterDone
  <2> DEFINE p == Prop("enabled", enabled)
  <2>1. UNCHANGED <<status, missed, changed, previous, publishing>>
    BY <1>6 DEF SetterDone, Published
  <2>2. p \in Props /\ signals'.props = Append(signals.props, p)
    BY <1>6, Tells
  <2> HIDE DEF p
  <2>3. About(signals.props, name) => About(Append(signals.props, p), name)
    BY <1>0, <2>2, SentLatest
  <2> QED BY <2>1, <2>2, <2>3 DEF Comes, Owed
<1>7. CASE Dies \/ Starts
  BY <1>7 DEF Dies, Starts
<1>8. CASE PublisherNotes \/ Confirm \/ OwnerChanged
  <2>1. signals'.props = signals.props
    BY <1>8, Beside
  <2>2. UNCHANGED <<missed, changed, status, previous, publishing>>
    BY <1>8 DEF PublisherNotes, Confirm, OwnerChanged, Published
  <2> QED BY <1>1, <2>1, <2>2
<1>9. CASE StateChanged
  <2>1. signals'.props = signals.props /\ UNCHANGED <<missed, changed, status, previous, publishing>>
    BY <1>9, TakenTyped DEF StateChanged, Published
  <2> QED BY <1>1, <2>1
<1>10. CASE OtherSets \/ LoopActs \/ WorkerBegins \/ Naps \/ Fetches \/ Toggles \/ Asks
             \/ CommandRefused \/ CallFails \/ SetsEnabled \/ Calls
  <2>1. UNCHANGED <<missed, changed, status, previous, publishing, signals>>
    BY <1>10 DEF OtherSets, LoopActs, WorkerBegins, Naps, Fetches, Toggles, Asks,
       CommandRefused, CallFails, SetsEnabled, Sets, Calls, Published
  <2> QED BY <1>1, <2>1
<1>11. CASE UNCHANGED vars
  BY <1>1, <1>11 DEF vars, Published
<1> QED BY <1>2, <1>3, <1>4, <1>5, <1>6, <1>7, <1>8, <1>9, <1>10, <1>11 DEF Next, Publisher, Server, Handles, Environment

\* The facts shown are those the worker has just read, or stay as they were.
LEMMA Showing ==
  ASSUME Typed, Linked, OwnerTrue, [Next]_vars, up', Settled', ~PropsChanged,
         ~WorkerBegins, ~Naps
  PROVE  /\ up /\ Settled
         /\ ~Fetches => ui'.result = ui.result
         /\ ~Fetches /\ ~StateChanged =>
              /\ ui'.state = ui.state /\ (worker'.task = "fetching" <=> worker.task = "fetching")
<1>0. ui \in Shows
  BY DEF Typed, Shows
<1>1. CASE StatusChanges \/ Publisher \/ Server \/ OtherSets \/ Dies \/ Starts \/ Toggles \/ Asks
  <2>1. /\ up /\ Settled /\ (worker'.task = "fetching" <=> worker.task = "fetching")
    BY <1>1, Settles
  <2>2. CASE Toggles
    <3>1. ui' = [ui EXCEPT !.enabled = ~ui.enabled]
      BY <2>2, Zenon DEF Toggles
    <3>2. (~ui.enabled) \in BOOLEAN
      OBVIOUS
    <3> QED BY <1>0, <2>1, <3>1, <3>2, ShowTyped
  <2>3. CASE ~Toggles
    <3>1. ui' = ui
      BY <1>1, <2>3 DEF StatusChanges, Publisher, PublisherWakes, PublisherGets, PublisherEmits, PublisherNotes,
         Server, SetterDone, LoopActs, OtherSets, Dies, Starts, Asks, Client
    <3> QED BY <2>1, <3>1
  <2> QED BY <2>2, <2>3
<1>2. CASE OwnerChanged
  <2>1. up /\ Settled /\ connected'
    BY <1>2, Stays DEF Settled
  <2>2. worker' = worker /\ ui' = ui
    BY <1>2, <2>1, Owning DEF Settled
  <2> QED BY <2>1, <2>2
<1>3. CASE StateChanged
  <2>1. up /\ Settled
    BY <1>3, Stays
  <2>2. Head(signals.state) \in Shown
    <3>1. signals.state # <<>> /\ signals.state \in Seq(States)
      BY <1>3 DEF StateChanged, Typed
    <3> QED BY <3>1, Taking DEF Shown
  <2>3. ui' \in {ui, WithState(ui, Head(signals.state))}
    BY <1>3 DEF StateChanged
  <2> QED BY <1>0, <1>3, <2>1, <2>2, <2>3, ShowTyped
<1>4. CASE Fetches
  BY <1>4, Stays
<1>5. CASE Confirm
  <2>1. up /\ Settled /\ worker' = worker
    BY <1>5, Stays DEF Confirm
  <2>2. signals.confirm # <<>> /\ signals.confirm \in Seq(Questions)
    BY <1>5 DEF Confirm, Typed
  <2>3. Head(signals.confirm) \in Asked
    BY <2>2, Taking DEF Asked
  <2>4. ui' = [ui EXCEPT !.question = Head(signals.confirm)]
    BY <1>5 DEF Confirm
  <2> QED BY <1>0, <2>1, <2>3, <2>4, ShowTyped
<1>6. CASE SetsEnabled \/ Calls
  <2>1. up /\ Settled
    BY <1>6, Stays
  <2>2. /\ ui' = ui /\ worker.task = "select"
        /\ \/ worker' = [task |-> "setting", value |-> "none"]
           \/ worker' = [task |-> "calling", value |-> "none"]
    BY <1>6, Zenon DEF SetsEnabled, Calls, Selects
  <2> QED BY <2>1, <2>2
<1>7. CASE CommandRefused \/ CallFails
  BY <1>7 DEF CommandRefused, CallFails, Settled
<1>8. CASE UNCHANGED vars
  BY <1>8 DEF vars, Client, Settled
<1> QED BY <1>1, <1>2, <1>3, <1>4, <1>5, <1>6, <1>7, <1>8 DEF Next, Handles, Environment

\* The result shown is the daemon's, or another is on its way.
LEMMA KeepsResultShown ==
  ASSUME Typed, Linked, Seen, OwnerTrue, FactsSent, ResultShown, [Next]_vars
  PROVE  ResultShown'
<1> SUFFICES ASSUME up', Settled', ~missed'
             PROVE  \/ ui'.result = status'.result \/ Comes("result")'
                    \/ About(signals'.props, "result")
  BY DEF ResultShown
<1>0. "result" \in {"state", "result"} /\ signals.props \in Seq(Props)
  BY DEF Typed
<1>1. CASE WorkerBegins \/ Naps
  <2>1. Refreshed /\ UNCHANGED <<up, status>>
    BY <1>1 DEF WorkerBegins, Naps, Published
  <2> QED BY <2>1, Refreshing
<1>2. CASE Fetches
  <2>1. UNCHANGED <<up, status>>
    BY <1>2 DEF Fetches, Published
  <2> QED BY <1>2, <2>1, Fetching
<1>3. CASE PropsChanged
  <2> DEFINE p == Head(signals.props)
  <2>1. /\ UNCHANGED <<status, missed, changed, previous, publishing>>
        /\ signals.props # <<>> /\ signals'.props = Tail(signals.props)
    BY <1>3, TakenTyped DEF PropsChanged, Published
  <2>2. up /\ Settled
    BY <1>3, Stays
  <2>3. p \in Props /\ (IF p.name = "result" THEN ui'.result = p.value ELSE ui'.result = ui.result)
    BY <1>3, Changing DEF Props
  <2>4. Comes("result")' <=> Comes("result")
    BY <2>1 DEF Comes, Owed
  <2> HIDE DEF p
  <2>5. CASE p.name = "result"
    <3>1. Comes("result") \/ Latest(signals.props, "result", status.result)
      BY <1>0, <2>1, <2>2 DEF FactsSent
    <3>2. /\ Latest(signals.props, "result", status.result) /\ Head(signals.props).name = "result"
             /\ ~About(Tail(signals.props), "result") => Head(signals.props).value = status.result
      BY <1>0, <2>1, TakenLatest
    <3> QED BY <2>1, <2>3, <2>4, <2>5, <3>1, <3>2 DEF p
  <2>6. CASE p.name # "result"
    <3>1. About(signals.props, "result") /\ Head(signals.props).name # "result"
            => About(Tail(signals.props), "result")
      BY <1>0, <2>1, TakenLatest
    <3> QED BY <2>1, <2>2, <2>3, <2>4, <2>6, <3>1 DEF ResultShown, p
  <2> QED BY <2>5, <2>6
<1>4. CASE ~(WorkerBegins \/ Naps \/ Fetches \/ PropsChanged)
  <2>1. up /\ Settled /\ ui'.result = ui.result
    BY <1>4, Showing
  <2>2. /\ ~missed
        /\ Comes("result") => Comes("result")' \/ About(signals'.props, "result")
        /\ About(signals.props, "result") => About(signals'.props, "result")
        /\ status'.result = status.result \/ Comes("result")'
    BY <1>0, <1>4, <2>1, StillComes
  <2> QED BY <2>1, <2>2 DEF ResultShown
<1> QED BY <1>1, <1>2, <1>3, <1>4

\* The state shown is the daemon's, or another is on its way.
LEMMA KeepsStateShown ==
  ASSUME Typed, Linked, Seen, OwnerTrue, FactsSent, StateSent, StateShown, [Next]_vars
  PROVE  StateShown'
<1> SUFFICES ASSUME up', Settled', ~missed'
             PROVE  \/ ui'.state = status'.state \/ Comes("state")' \/ About(signals'.props, "state")
                    \/ signals'.state # <<>> \/ worker'.task = "fetching"
  BY DEF StateShown
<1>0. "state" \in {"state", "result"} /\ signals.props \in Seq(Props) /\ signals.state \in Seq(States)
      /\ ui \in Shows
  BY DEF Typed, Shows
\* When no signal of the state is left and none is fetching, the last one was true.
<1> DEFINE Told == IF signals.state # <<>> THEN signals.state[Len(signals.state)] = status.state
                   ELSE worker.task = "fetching" => worker.value = status.state
<1>1. up /\ ~missed => Comes("state") \/ Told
  BY DEF StateSent, Comes, Getting
<1>2. CASE WorkerBegins \/ Naps
  <2>1. Refreshed /\ UNCHANGED <<up, status>>
    BY <1>2 DEF WorkerBegins, Naps, Published
  <2> QED BY <2>1, Refreshing
<1>3. CASE Fetches \/ StateChanged
  <2>1. up /\ Settled
    BY <1>3, Stays
  <2>2. UNCHANGED <<status, missed, changed, previous, publishing>>
    BY <1>3, Reads
  <2>3. Comes("state")' <=> Comes("state")
    BY <2>2 DEF Comes, Owed
  <2>4. Comes("state") \/ Told
    BY <1>1, <2>1, <2>2
  <2>5. CASE Fetches
    <3>1. ui'.state = "idle" /\ signals' = signals /\ worker.task = "fetching" /\ worker.value = "idle"
      BY <2>5, Fetching DEF Fetches, Typed
    <3> QED BY <2>2, <2>3, <2>4, <3>1
  <2>6. CASE StateChanged
    <3>1. /\ signals.state # <<>> /\ signals'.state = Tail(signals.state)
      BY <2>6, TakenTyped DEF StateChanged
    <3>2. Head(signals.state) \in Shown
      BY <1>0, <3>1, Taking DEF Shown
    <3>3. worker'.task = "fetching" \/ ui' = WithState(ui, Head(signals.state))
      BY <2>6 DEF StateChanged
    <3>4. worker'.task = "fetching" \/ ui'.state = Head(signals.state)
      BY <1>0, <3>2, <3>3, ShowTyped
    <3>5. signals'.state = <<>> => Head(signals.state) = signals.state[Len(signals.state)]
      BY <1>0, <3>1, Taking
    <3> QED BY <2>2, <2>3, <2>4, <3>1, <3>4, <3>5
  <2> QED BY <1>3, <2>5, <2>6
<1>4. CASE PropsChanged
  <2> DEFINE p == Head(signals.props)
  <2>1. /\ UNCHANGED <<status, missed, changed, previous, publishing, worker>>
        /\ signals.props # <<>> /\ signals'.props = Tail(signals.props)
        /\ signals'.state = signals.state
    BY <1>4, TakenTyped DEF PropsChanged, Published
  <2>2. up /\ Settled
    BY <1>4, Stays
  <2>3. p \in Props /\ (IF p.name = "state" THEN ui'.state = p.value ELSE ui'.state = ui.state)
    BY <1>4, Changing DEF Props
  <2>4. Comes("state")' <=> Comes("state")
    BY <2>1 DEF Comes, Owed
  <2> HIDE DEF p
  <2>5. CASE p.name = "state"
    <3>1. Comes("state") \/ Latest(signals.props, "state", status.state)
      BY <1>0, <2>1, <2>2 DEF FactsSent
    <3>2. /\ Latest(signals.props, "state", status.state) /\ Head(signals.props).name = "state"
             /\ ~About(Tail(signals.props), "state") => Head(signals.props).value = status.state
      BY <1>0, <2>1, TakenLatest
    <3> QED BY <2>1, <2>3, <2>4, <2>5, <3>1, <3>2 DEF p
  <2>6. CASE p.name # "state"
    <3>1. About(signals.props, "state") /\ Head(signals.props).name # "state"
            => About(Tail(signals.props), "state")
      BY <1>0, <2>1, TakenLatest
    <3> QED BY <2>1, <2>2, <2>3, <2>4, <2>6, <3>1 DEF StateShown, p
  <2> QED BY <2>5, <2>6
<1>5. CASE ~(WorkerBegins \/ Naps \/ Fetches \/ StateChanged \/ PropsChanged)
  <2>1. /\ up /\ Settled /\ ui'.state = ui.state
        /\ worker'.task = "fetching" <=> worker.task = "fetching"
    BY <1>5, Showing
  <2>2. /\ ~missed
        /\ Comes("state") => Comes("state")' \/ About(signals'.props, "state")
        /\ About(signals.props, "state") => About(signals'.props, "state")
        /\ status'.state = status.state \/ Comes("state")'
    BY <1>0, <1>5, <2>1, StillComes
  <2>3. signals.state # <<>> => signals'.state # <<>>
    <3>1. CASE PublisherGets
      BY <1>0, <3>1, Gets DEF Typed, Facts
    <3>2. CASE PublisherEmits \/ SetterDone
      BY <3>2, Emits, Tells
    <3>3. CASE PublisherNotes \/ Dies \/ Starts \/ Confirm \/ OwnerChanged
      BY <3>3, Beside
    <3>4. CASE StatusChanges \/ PublisherWakes \/ OtherSets \/ LoopActs \/ Toggles \/ Asks
                 \/ CommandRefused \/ CallFails \/ SetsEnabled \/ Calls
      BY <3>4 DEF StatusChanges, PublisherWakes, OtherSets, LoopActs, Toggles, Asks,
         CommandRefused, CallFails, SetsEnabled, Calls
    <3>5. CASE UNCHANGED vars
      BY <3>5 DEF vars
    <3> QED BY <1>5, <3>1, <3>2, <3>3, <3>4, <3>5 DEF Next, Publisher, Server, Handles, Environment
  <2> QED BY <2>1, <2>2, <2>3 DEF StateShown
<1> QED BY <1>2, <1>3, <1>4, <1>5
-----------------------------------------------------------------------------
(* The theorems. *)

\* Streams make a set of streams.
LEMMA Assembled ==
  ASSUME NEW A, NEW B, NEW C, NEW D, NEW a \in A, NEW b \in B, NEW c \in C, NEW d \in D
  PROVE  [state |-> a, props |-> b, confirm |-> c, owner |-> d]
           \in [state : A, props : B, confirm : C, owner : D]
OBVIOUS

\* The invariant holds before anything was sent.
LEMMA Initially == Init => Inv
<1> SUFFICES ASSUME Init PROVE Inv
  OBVIOUS
<1>1. /\ <<>> \in Seq({"get", "state", "result"}) /\ <<>> \in Seq(Questions)
      /\ <<>> \in Seq({"ui", "enabled"}) /\ Len(<<>>) = 0 /\ <<>> \in Seq(States)
      /\ <<>> \in Seq(Props) /\ <<>> \in Seq({"here", "gone"}) /\ 0 <= ControlQueue
      /\ <<>> \in Seq(Commands)
  BY ControlHolds
<1>2. /\ Default \in Facts /\ NoSignals.state = <<>> /\ NoSignals.props = <<>>
      /\ NoSignals.owner = <<>> /\ NoSignals \in Streams
  BY <1>1, Assembled DEF Default, Facts, States, Texts, NoSignals, Streams
<1>3. worker.task = "starting" /\ worker \in [task : Tasks, value : States \cup {"none"}]
  BY DEF Init, Tasks, States
<1>4. ui \in Shows
  BY DEF Init, Shows, Shown, Texts, Asked
<1>5. Typed
  BY <1>1, <1>2, <1>3, <1>4 DEF Init, Typed, Shows, Streams, Commands
<1>6. Linked
  BY <1>1, <1>3 DEF Init, Linked
<1>7. Reset /\ Seen
  BY DEF Init, Reset, Seen
<1>8. OwnerTrue
  BY <1>2, <1>3 DEF Init, OwnerTrue
<1>9. SwitchSent /\ FactsSent
  BY <1>2, EmptyStreams DEF Init, SwitchSent, FactsSent
<1>10. StateSent
  BY <1>2, <1>3 DEF Init, StateSent
<1>11. SwitchShown /\ ResultShown /\ StateShown
  BY <1>3 DEF SwitchShown, ResultShown, StateShown, Settled
<1> QED BY <1>5, <1>6, <1>7, <1>8, <1>9, <1>10, <1>11 DEF Inv

\* Every step keeps it.
LEMMA Stepwise == Inv /\ [Next]_vars => Inv'
<1> SUFFICES ASSUME Inv, [Next]_vars PROVE Inv'
  OBVIOUS
<1> USE DEF Inv
<1>1. Typed'
  <2>1. CASE UNCHANGED vars
    BY <2>1 DEF vars, Published, Interface, Client, Typed
  <2>2. CASE Next
    BY <2>2, DaemonTyped, ServerTyped, ReadTyped, CommandTyped
       DEF Next, Publisher, Server, Handles, Environment
  <2> QED BY <2>1, <2>2
<1>2. Linked' /\ Reset' /\ Seen' /\ OwnerTrue'
  BY KeepsLinked, KeepsReset, KeepsSeen, KeepsOwner
<1>3. SwitchSent' /\ FactsSent' /\ StateSent'
  BY KeepsSwitchSent, KeepsFactsSent, KeepsStateSent
<1>4. SwitchShown' /\ ResultShown' /\ StateShown'
  BY KeepsSwitchShown, KeepsResultShown, KeepsStateShown
<1> QED BY <1>1, <1>2, <1>3, <1>4

\* Whatever the daemon and the UI do, and however often the daemon is started, every
\* variable is of its type.
THEOREM MirrorTyped == Spec => []TypeOK
<1>1. Inv => TypeOK
  BY DEF Inv, Typed, TypeOK, Facts, Texts, Asked, Tasks
<1> QED BY <1>1, Initially, Stepwise, PTL DEF Spec

\* Whatever order the streams were read in, and however often the daemon died, a UI to
\* which nothing is on its way knows whether there is a daemon and shows its state, its
\* result and its switch, unless the publisher never saw one of the states.
THEOREM MirrorsTrue == Spec => []Mirrors
<1>1. ASSUME Inv PROVE Mirrors
  <2> SUFFICES ASSUME Quiet
               PROVE  /\ connected = up
                      /\ up /\ ~missed => /\ ui.state = status.state /\ ui.result = status.result
                                          /\ ui.enabled = enabled
    BY DEF Mirrors
  <2>1. /\ ~changed /\ publishing = <<>> /\ setter = "nobody" /\ commands = <<>>
        /\ signals.state = <<>> /\ signals.props = <<>> /\ signals.owner = <<>>
        /\ worker.task = "select"
    BY DEF Quiet, NoSignals, Quick
  <2>2. connected = up
    BY <1>1, <2>1 DEF Inv, OwnerTrue
  <2> SUFFICES ASSUME up, ~missed
               PROVE  ui.state = status.state /\ ui.result = status.result /\ ui.enabled = enabled
    BY <2>2
  <2>3. Settled
    BY <2>1, <2>2, EmptyStreams DEF Settled
  <2>4. ~Comes("state") /\ ~Comes("result")
    BY <2>1, EmptyStreams DEF Comes, Owed
  <2>5. ui.enabled = enabled
    <3>1. Len(commands) = 0
      BY <2>1
    <3> QED BY <1>1, <2>1, <2>3, <3>1, EmptyStreams DEF Inv, SwitchShown
  <2>6. ui.result = status.result
    BY <1>1, <2>1, <2>3, <2>4, EmptyStreams DEF Inv, ResultShown
  <2>7. ui.state = status.state
    BY <1>1, <2>1, <2>3, <2>4, EmptyStreams DEF Inv, StateShown
  <2> QED BY <2>5, <2>6, <2>7
<1> QED BY <1>1, Initially, Stepwise, PTL DEF Spec
=============================================================================
