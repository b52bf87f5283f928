-------------------------- MODULE ProvisioningProofs --------------------------
(* Theorems about Provisioning: however many editors write the config file at   *)
(* once, and wherever they die, the file is never half written; and a client    *)
(* that asks for a tunnel has every channel it dials accepted, and announces a  *)
(* URL that leads to its tunnel.                                                *)
(*                                                                              *)
(* For the file, what an editor is about to write is fit for it from the moment *)
(* it read it, and its temporary file, which nobody else writes (DraftOf),      *)
(* holds just that when it is renamed.                                          *)
(*                                                                              *)
(* For the tunnel, Timely compares clocks of three machines that never meet:    *)
(* while the client has `left` until it gives up, the token and the alarm have  *)
(* at least that much left, and the room they need for what is still to come.   *)
(* That holds of the current attempt only, so OnTheWay says which messages may  *)
(* still be about for it, and of which tunnel they speak.                       *)
EXTENDS Provisioning, TLAPS

Phase == {"idle", "reading", "writing", "renaming", "over"}
Values == Stored \cup Edits \cup {Unset, Torn}

\* What may be in the file.
Fit(value) == value \in Stored \cup (Edits \ {Keep}) /\ (value \notin Stored => Sane(value))

EditorInv ==
    \A e \in Editors :
        /\ editor[e].phase \in {"reading", "writing", "renaming"} => Fit(editor[e].value)
        /\ editor[e].phase = "renaming" => draft[e] = editor[e].value

ConfigInv == /\ editor \in [Editors -> [phase : Phase, value : Values]]
             /\ draft \in [Editors -> Values]
             /\ Fit(file)
             /\ EditorInv

\* Nothing but an editor touches the config.
LEMMA OnlyEditors == Next => Edit \/ UNCHANGED config
<1> SUFFICES ASSUME Next, ~Edit PROVE UNCHANGED config
  OBVIOUS
<1>1. ASSUME NEW server, NEW flag, Resolves(server, flag) PROVE UNCHANGED config
  BY <1>1 DEF Resolves
<1>2. ASSUME NEW seen, Posts(seen) PROVE UNCHANGED config
  BY <1>2 DEF Posts
<1>3. ASSUME NEW m, CreateAnswered(m) PROVE UNCHANGED config
  BY <1>3 DEF CreateAnswered
<1>4. ASSUME NEW r, ConnectAnswered(r) PROVE UNCHANGED config
  BY <1>4 DEF ConnectAnswered
<1>5. CASE TimesOut \/ Breaks \/ Stops
  BY <1>5 DEF TimesOut, Breaks, Stops
<1>6. ASSUME NEW m, NEW version, WorkerCreates(m, version) PROVE UNCHANGED config
  BY <1>6 DEF WorkerCreates
<1>7. CASE Connects
  BY <1>7 DEF Connects, WorkerConnects
<1>8. ASSUME NEW i, ObjectFails(i) \/ AlarmRings(i) PROVE UNCHANGED config
  BY <1>8 DEF ObjectFails, AlarmRings, Dropped
<1>9. CASE Tick
  BY <1>9 DEF Tick
<1> QED
  BY <1>1, <1>2, <1>3, <1>4, <1>5, <1>6, <1>7, <1>8, <1>9 DEF Next

\* A step of one editor that leaves the file as it is.
LEMMA EditorSteps ==
    ASSUME ConfigInv, NEW e \in Editors, UNCHANGED file,
           NEW phase \in Phase, NEW value \in Values, NEW text \in Values,
           editor' = [editor EXCEPT ![e] = [phase |-> phase, value |-> value]],
           draft' = [draft EXCEPT ![e] = text],
           phase \in {"reading", "writing", "renaming"} => Fit(value),
           phase = "renaming" => text = value
    PROVE  ConfigInv'
<1>1. /\ editor' \in [Editors -> [phase : Phase, value : Values]]
      /\ draft' \in [Editors -> Values]
  BY DEF ConfigInv
<1>2. Fit(file)'
  BY DEF ConfigInv, Fit, Sane
<1>3. ASSUME NEW f \in Editors
      PROVE  /\ editor'[f].phase \in {"reading", "writing", "renaming"} => Fit(editor'[f].value)
             /\ editor'[f].phase = "renaming" => draft'[f] = editor'[f].value
  <2>1. CASE f = e
    <3>1. /\ editor'[f].phase = phase /\ editor'[f].value = value /\ draft'[f] = text
      BY <2>1 DEF ConfigInv
    <3> QED
      BY <3>1
  <2>2. CASE f # e
    <3>1. editor'[f] = editor[f] /\ draft'[f] = draft[f]
      BY <2>2 DEF ConfigInv
    <3> QED
      BY <3>1 DEF ConfigInv, EditorInv
  <2> QED
    BY <2>1, <2>2
<1>4. EditorInv'
  BY <1>3 DEF EditorInv, Fit, Sane
<1> QED
  BY <1>1, <1>2, <1>4 DEF ConfigInv

\* An editor's step keeps the file whole.
LEMMA EditStep == ConfigInv /\ Edit => ConfigInv'
<1> SUFFICES ASSUME ConfigInv, NEW e \in Editors,
                    \/ \E edit \in Edits : EditorReads(e, edit)
                    \/ EditorOpens(e) \/ EditorWrites(e) \/ EditorRenames(e) \/ EditorDies(e)
             PROVE  ConfigInv'
  BY DEF Edit
<1>0. /\ editor \in [Editors -> [phase : Phase, value : Values]]
      /\ draft \in [Editors -> Values] /\ draft[e] \in Values /\ editor[e].value \in Values
      /\ Fit(file) /\ Unset \in Values /\ Torn \in Values
      /\ draft = [draft EXCEPT ![e] = draft[e]]
  BY DEF ConfigInv, Values
<1>1. ASSUME NEW edit \in Edits, EditorReads(e, edit) PROVE ConfigInv'
  <2> DEFINE value == IF edit = Keep THEN file ELSE edit
  <2>1. UNCHANGED <<file, draft>>
    BY <1>1 DEF EditorReads
  <2>2. CASE Sane(file) /\ Sane(value)
    <3>1. editor' = [editor EXCEPT ![e] = [phase |-> "reading", value |-> value]]
      BY <1>1, <2>2 DEF EditorReads
    <3>2. Fit(value) /\ value \in Values
      BY <1>0, <2>2 DEF Fit, Values
    <3>3. "reading" \in Phase /\ "reading" # "renaming"
      BY DEF Phase
    <3> HIDE DEF value
    <3> QED
      BY <1>0, <2>1, <3>1, <3>2, <3>3, EditorSteps
  <2>3. CASE ~(Sane(file) /\ Sane(value))
    <3>1. editor' = [editor EXCEPT ![e] = [phase |-> "over", value |-> Unset]]
      BY <1>1, <2>3 DEF EditorReads
    <3>2. "over" \in Phase /\ "over" \notin {"reading", "writing", "renaming"}
      BY DEF Phase
    <3> QED
      BY <1>0, <2>1, <3>1, <3>2, EditorSteps
  <2> QED
    BY <2>2, <2>3
<1>2. ASSUME NEW from, NEW to, Editing(e, from, to)
      PROVE  editor' = [editor EXCEPT ![e] = [phase |-> to, value |-> editor[e].value]]
  <2>1. editor' = [editor EXCEPT ![e].phase = to]
    BY <1>2 DEF Editing
  <2>2. [editor[e] EXCEPT !.phase = to] = [phase |-> to, value |-> editor[e].value]
    BY <1>0
  <2> QED
    BY <2>1, <2>2
<1>3. "writing" \in Phase /\ "renaming" \in Phase /\ "over" \in Phase
  BY DEF Phase
<1>4. CASE EditorOpens(e)
  <2>1. Editing(e, "reading", "writing") /\ UNCHANGED file
        /\ draft' = [draft EXCEPT ![e] = Torn]
    BY <1>4 DEF EditorOpens, DraftOf
  <2>2. Fit(editor[e].value)
    BY <2>1 DEF Editing, ConfigInv, EditorInv
  <2>3. editor' = [editor EXCEPT ![e] = [phase |-> "writing", value |-> editor[e].value]]
    BY <1>2, <2>1
  <2>4. "writing" # "renaming"
    OBVIOUS
  <2> QED
    BY <1>0, <1>3, <2>1, <2>2, <2>3, <2>4, EditorSteps
<1>5. CASE EditorWrites(e)
  <2>1. Editing(e, "writing", "renaming") /\ UNCHANGED file
        /\ draft' = [draft EXCEPT ![e] = editor[e].value]
    BY <1>5 DEF EditorWrites, DraftOf
  <2>2. Fit(editor[e].value)
    BY <2>1 DEF Editing, ConfigInv, EditorInv
  <2> QED
    BY <1>0, <1>2, <1>3, <2>1, <2>2, EditorSteps
<1>6. CASE EditorDies(e)
  <2>1. PICK phase \in {"reading", "writing", "renaming"} : Editing(e, phase, "over")
    BY <1>6 DEF EditorDies
  <2>2. UNCHANGED file /\ draft' = [draft EXCEPT ![e] = draft[e]]
    BY <1>0, <1>6 DEF EditorDies
  <2>3. editor' = [editor EXCEPT ![e] = [phase |-> "over", value |-> editor[e].value]]
    BY <1>2, <2>1
  <2>4. "over" \notin {"reading", "writing", "renaming"}
    OBVIOUS
  <2> QED
    BY <1>0, <1>3, <2>2, <2>3, <2>4, EditorSteps
<1>7. CASE EditorRenames(e)
  <2>1. /\ Editing(e, "renaming", "over") /\ file' = draft[e]
        /\ draft' = [draft EXCEPT ![e] = Unset]
    BY <1>7 DEF EditorRenames, DraftOf
  <2>2. Fit(file')
    BY <2>1 DEF Editing, ConfigInv, EditorInv
  <2>3. editor' = [editor EXCEPT ![e] = [phase |-> "over", value |-> editor[e].value]]
    BY <1>2, <2>1
  <2>4. /\ editor' \in [Editors -> [phase : Phase, value : Values]]
        /\ draft' \in [Editors -> Values]
    BY <1>0, <1>3, <2>1, <2>3
  <2>5. EditorInv'
    <3>1. editor'[e].phase = "over"
      BY <1>0, <2>3
    <3>2. \A f \in Editors : f # e => editor'[f] = editor[f] /\ draft'[f] = draft[f]
      BY <1>0, <2>1, <2>3
    <3> QED
      BY <3>1, <3>2 DEF ConfigInv, EditorInv, Fit, Sane
  <2> QED
    BY <2>2, <2>4, <2>5 DEF ConfigInv, Fit, Sane
<1> QED
  BY <1>1, <1>4, <1>5, <1>6, <1>7

\* The file is whole initially.
LEMMA Initially == Init => ConfigInv
  BY DEF Init, ConfigInv, EditorInv, Fit, Phase, Values

\* The file is whole in every behaviour of the specification.
LEMMA Always == Spec => []ConfigInv
<1>1. ConfigInv /\ [Next]_vars => ConfigInv'
  <2>1. ASSUME ConfigInv, UNCHANGED config PROVE ConfigInv'
    BY <2>1 DEF config, ConfigInv, EditorInv, Fit, Sane
  <2> QED
    BY <2>1, EditStep, OnlyEditors DEF vars
<1> QED
  BY <1>1, Initially, PTL DEF Spec

\* Whatever the editors write and wherever they die, the config file holds what it held
\* or what one of them meant to write (writeConfig renames a file of its own).
THEOREM FileIsWhole == Spec => []ConfigWhole
<1>1. ConfigInv => ConfigWhole
  BY DEF ConfigInv, Fit, ConfigWhole
<1> QED
  BY <1>1, Always, PTL

\* So a reader never finds half a file.
THEOREM NeverTorn == Spec => [](file # Torn)
<1>1. ConfigInv => file # Torn
  BY ConfigAssumption DEF ConfigInv, Fit
<1> QED
  BY <1>1, Always, PTL

-----------------------------------------------------------------------------
(* The tunnel.                                                               *)

Phases == {"idle", "waiting", "creating", "connecting", "ready", "over"}
IsClient(c) ==
    /\ c = [phase |-> c.phase, server |-> c.server, asked |-> c.asked, attempt |-> c.attempt,
            tunnel |-> c.tunnel, left |-> c.left, again |-> c.again, stopped |-> c.stopped]
    /\ c.phase \in Phases /\ c.attempt \in 0 .. Len(Pool) /\ c.left \in 0 .. 1
IsObject(o) ==
    /\ o = [conn |-> o.conn, expected |-> o.expected, up |-> o.up, lost |-> o.lost]
    /\ o.up \subseteq All(o.expected) /\ (o.lost => o.conn = NoConn)
Typed ==
    /\ IsClient(client)
    /\ DOMAIN object = Attempts /\ object = [i \in Attempts |-> object[i]]
    /\ \A i \in Attempts : IsObject(object[i])
    /\ alarm \in [Attempts -> -1 .. AlarmTime] /\ ttl \in [Attempts -> -1 .. TokenTtl]

\* What the client asked for, of whom.
Choice == /\ At("idle") => client.attempt = 0
          /\ (~At("idle") /\ ~At("over")) \/ client.attempt # 0 =>
                 client.server \in DOMAIN SeenAs /\ IsChannelCount(client.asked)
          /\ At("creating") \/ At("connecting") \/ At("ready") => client.attempt \in Attempts

\* What a message on its way says of its tunnel.
IsAnswer(i, response) ==
    \E seen \in SeenAs[client.server], version \in Versions :
        response = CreateResponse(seen, Pool[i], Conn(i), AskedChannels(client.asked), version)
IsDial(i, channel, url) ==
    /\ channel \in All(AskedChannels(client.asked))
    /\ \E seen \in SeenAs[client.server] :
           url = ChannelUrl(Dialled(DataUrl(seen, Pool[i])), channel)
Begun(i) == i \in 1 .. client.attempt
Waits(i) == At("creating") /\ i = client.attempt
Pending(i) == \E m \in posted : m.attempt = i
OnTheWay ==
    /\ \A m \in posted : Begun(m.attempt) /\ m.asked = client.asked
                          /\ m.seen \in SeenAs[client.server]
    /\ \A m, n \in posted : m.attempt = n.attempt => m = n
    /\ \A m \in answered : Begun(m.attempt) /\ ~Pending(m.attempt)
                            /\ IsAnswer(m.attempt, m.response)
    /\ \A d \in dialled : Begun(d.attempt) /\ ~Waits(d.attempt)
                           /\ IsDial(d.attempt, d.channel, d.url)
    /\ \A r \in replies : Begun(r.attempt) /\ ~Waits(r.attempt)
                           /\ r.channel \in All(AskedChannels(client.asked))

\* The object of the current attempt, until it loses a channel.
Standing(i) == /\ object[i].conn = Conn(i) /\ object[i].expected = client.asked
               /\ ~object[i].lost
Complete(i) == object[i].up = All(client.asked)
Timely ==
    LET i == client.attempt IN
    /\ At("creating") /\ ~Pending(i) =>
           /\ Standing(i) /\ object[i].up = {}
           /\ alarm[i] >= 7 + client.left /\ ttl[i] >= 3 + client.left
    /\ At("connecting") =>
           /\ ttl[i] >= 2 + client.left
           /\ object[i].lost \/ (Standing(i) /\ (alarm[i] >= 6 + client.left \/ Complete(i)))
    /\ At("ready") => object[i].lost \/ (Standing(i) /\ Complete(i))

\* What the client was told, and what it knows to be open.
Told ==
    LET i == client.attempt IN
    /\ At("connecting") \/ At("ready") =>
           /\ ~Pending(i) /\ IsAnswer(i, client.tunnel)
           /\ open \subseteq All(client.asked)
           /\ object[i].lost \/ open \subseteq object[i].up
    /\ ~At("connecting") /\ ~At("ready") => open = {}
    /\ At("connecting") => \A r \in replies : r.attempt = i =>
           object[i].lost \/ (r.ok /\ r.channel \in object[i].up)

IInv == Typed /\ Choice /\ OnTheWay /\ Timely /\ Told

\* Numbers of channels are what AskedChannels answers.
LEMMA AskedTypes == \A asked : /\ IsChannelCount(AskedChannels(asked))
                               /\ IsChannelCount(asked) => AskedChannels(asked) = asked
<1>1. \A n : IsChannelCount(n) => n \in Int
  BY SafeAssumption DEF IsChannelCount
<1> QED
  BY <1>1, ChannelsAssumption DEF AskedChannels

\* A server serves the API under every host it takes for its own.
LEMMA ServesApi ==
    ASSUME NEW server \in DOMAIN SeenAs, NEW seen \in SeenAs[server]
    PROVE  EffectiveRoute(seen, NoHost).kind = "app"
<1>1. EffectiveRoute(seen, NoHost) = ClassifyHost(seen)
  BY DEF EffectiveRoute
<1> QED
  BY <1>1, ServersAssumption

\* What a sequence ends in, label by label.
LEMMA EndsAlike ==
    ASSUME NEW S, NEW s \in Seq(S), NEW t \in Seq(S), Len(t) = Len(s) + 1,
           \A i \in 1 .. Len(s) : t[i + 1] = s[i]
    PROVE  IsSuffix(s, t)
<1>1. PICK n : n = Len(s) /\ n \in Nat /\ Len(t) = n + 1
  OBVIOUS
<1>2. /\ Reverse(s) = [i \in 1 .. n |-> s[(n - i) + 1]]
      /\ Reverse(t) = [i \in 1 .. n + 1 |-> t[((n + 1) - i) + 1]]
  BY <1>1 DEF Reverse
<1>3. /\ Reverse(s) \in Seq(S) /\ Len(Reverse(s)) = n
      /\ Reverse(t) \in Seq(S) /\ Len(Reverse(t)) = n + 1
  BY <1>1, <1>2
<1>4. \A i \in 1 .. n : Reverse(t)[i] = Reverse(s)[i]
  <2> TAKE i \in 1 .. n
  <2>1. (n - i) + 1 \in 1 .. n /\ ((n + 1) - i) + 1 = ((n - i) + 1) + 1
    BY <1>1
  <2>2. t[((n - i) + 1) + 1] = s[(n - i) + 1]
    BY <1>1, <2>1
  <2>3. i \in 1 .. n + 1
    BY <1>1
  <2> QED
    BY <1>2, <2>1, <2>2, <2>3
<1>5. SubSeq(Reverse(s), 1, n) = SubSeq(Reverse(t), 1, n)
  BY <1>1, <1>3, <1>4
<1> QED
  BY <1>1, <1>3, <1>5 DEF IsSuffix, IsPrefix

\* The public URL of a tunnel leads to the tunnel (buildPublicUrl, classifyHost).
THEOREM PublicHostIsTunnel ==
    ASSUME NEW tunnel \in STRING \ {"api", "www"}
    PROVE  EffectiveRoute(PublicHost(tunnel), NoHost) = [kind |-> "tunnel", tunnel |-> tunnel]
<1>1. PICK host, n : host = PublicHost(tunnel) /\ n = Len(Base)
  OBVIOUS
<1>2. n \in Nat /\ n >= 1 /\ Base \in Seq(STRING) /\ Base[n] # "localhost"
  BY <1>1, BaseAssumption DEF Last
<1>3. /\ Len(host) = n + 1 /\ host[1] = Label(tunnel) /\ host # <<>>
      /\ \A i \in 1 .. n : host[i + 1] = Label(Base[i])
      /\ DOMAIN host = 1 .. n + 1
  <2>1. PICK tail : tail = [i \in DOMAIN Base |-> Label(Base[i])]
    OBVIOUS
  <2>2. PICK T : \A i \in 1 .. n : Label(Base[i]) \in T
    <3>1. \A i \in 1 .. n : Label(Base[i]) \in {Label(Base[j]) : j \in 1 .. n}
      OBVIOUS
    <3> QED
      BY <3>1
  <2>3. tail \in Seq(T \cup {Label(tunnel)}) /\ Len(tail) = n
        /\ \A i \in 1 .. n : tail[i] = Label(Base[i])
    BY <1>1, <1>2, <2>1, <2>2
  <2>4. host = <<Label(tunnel)>> \o tail
    BY <1>1, <2>1 DEF PublicHost
  <2> QED
    BY <1>2, <2>3, <2>4
<1>4. \A word : Label(word).word = word /\ Label(word).looks = {"id"}
  BY DEF Label, Text
<1>5. PICK words : words = Words(host)
  OBVIOUS
<1>6. /\ words = [i \in 1 .. n + 1 |-> host[i].word]
      /\ words[1] = tunnel /\ \A i \in 1 .. n : words[i + 1] = Base[i]
  BY <1>2, <1>3, <1>4, <1>5 DEF Words
<1>7. words \in Seq(STRING) /\ Len(words) = n + 1
  <2>1. \A i \in 1 .. n + 1 : words[i] \in STRING
    <3> TAKE i \in 1 .. n + 1
    <3>1. CASE i = 1
      BY <1>6, <3>1
    <3>2. CASE i # 1
      <4>1. i - 1 \in 1 .. n /\ (i - 1) + 1 = i
        BY <1>2, <3>2
      <4>2. words[i] = Base[i - 1] /\ Base[i - 1] \in STRING
        BY <1>1, <1>2, <1>6, <4>1
      <4> QED
        BY <4>2
    <3> QED
      BY <3>1, <3>2
  <2> QED
    BY <1>2, <1>6, <2>1
<1>8. ~IsLocalApp(host)
  <2>1. Last(host).word = Base[n]
    BY <1>2, <1>3, <1>4 DEF Last
  <2>2. words # <<"127.0.0.1">> /\ words # <<"::1">>
    <3>1. Len(words) # 1
      BY <1>2, <1>7
    <3>2. \A word : Len(<<word>>) = 1
      OBVIOUS
    <3> QED
      BY <3>1, <3>2, Zenon
  <2> QED
    BY <1>2, <1>5, <2>1, <2>2 DEF IsLocalApp
<1>9. words # Base
  BY <1>1, <1>2, <1>7
<1>10. Under(host, Base) /\ Len(host) = Len(Base) + 1
  <2>1. /\ Base \in Seq(STRING) /\ words \in Seq(STRING) /\ Len(words) = Len(Base) + 1
        /\ \A i \in 1 .. Len(Base) : words[i + 1] = Base[i]
    BY <1>1, <1>2, <1>6, <1>7
  <2>2. IsSuffix(Base, words)
    BY <2>1, EndsAlike
  <2>3. Len(host) > Len(Base) /\ Len(host) = Len(Base) + 1
    BY <1>1, <1>2, <1>3
  <2> QED
    BY <1>5, <2>2, <2>3 DEF Under
<1>11. "capitals" \notin host[1].looks /\ host[1].word \notin {"api", "www"} /\ IsTunnelId(host[1])
  BY <1>3, <1>4 DEF IsTunnelId
<1>12. ClassifyHost(host) = ToTunnel(host[1])
  BY <1>5, <1>8, <1>9, <1>10, <1>11 DEF ClassifyHost
<1> QED
  BY <1>1, <1>3, <1>4, <1>12 DEF EffectiveRoute, ToTunnel

\* The URL of a channel is a path to it, and the token is for it (buildDataChannelUrl,
\* parseApiRoute, verifyToken).
THEOREM ChannelsAreRouted ==
    ASSUME NEW url, NEW tunnel, NEW conn, NEW host, NEW channel \in 0 .. MaxChannels - 1,
           NEW server, NEW seen, NEW left \in Nat,
           url = ChannelUrl([DataUrl(seen, tunnel) EXCEPT !.host = server], channel),
           EffectiveRoute(host, NoHost).kind = "app"
    PROVE  ConnectRoute([url EXCEPT !.host = host], Label(conn), Token(tunnel, conn), left)
               = [kind |-> "channel", tunnel |-> tunnel, channel |-> channel, conn |-> Label(conn)]
<1>1. PICK a, b, c, d, e, start, path, to :
          /\ a = Part("api") /\ b = Part("tunnels") /\ c = Label(tunnel)
          /\ d = Part("channels") /\ e = Number(channel)
          /\ start = <<a, b, c, d>> /\ path = Append(start, e) /\ to = [url EXCEPT !.host = host]
  OBVIOUS
<1>2. url = [scheme |-> "wss", host |-> server, path |-> path]
  <2>1. [DataUrl(seen, tunnel) EXCEPT !.host = server]
            = [scheme |-> "wss", host |-> server, path |-> start]
    BY <1>1 DEF DataUrl
  <2> QED
    BY <1>1, <2>1 DEF ChannelUrl
<1>3. to.host = host /\ to.path = path
  BY <1>1, <1>2
<1>4. /\ a.is = "text" /\ a.word = "api" /\ b.is = "text" /\ b.word = "tunnels"
      /\ c.is = "text" /\ c.word = tunnel /\ c.looks = {"id"}
      /\ d.is = "text" /\ d.word = "channels" /\ e.is = "number" /\ e.n = channel
  BY <1>1 DEF Part, Label, Text, Number
<1>5. /\ Len(path) = 5 /\ path[1] = a /\ path[2] = b /\ path[3] = c /\ path[4] = d /\ path[5] = e
  <2>1. \E S : a \in S /\ b \in S /\ c \in S /\ d \in S /\ e \in S
    <3> WITNESS {a, b, c, d, e}
    <3> QED
      OBVIOUS
  <2>2. PICK S : a \in S /\ b \in S /\ c \in S /\ d \in S /\ e \in S
    BY <2>1
  <2>3. /\ start \in Seq(S) /\ Len(start) = 4
        /\ start[1] = a /\ start[2] = b /\ start[3] = c /\ start[4] = d
    BY <1>1, <2>2
  <2>4. Len(path) = Len(start) + 1 /\ path[Len(start) + 1] = e
    BY <1>1, <2>2, <2>3
  <2>5. \A j \in 1 .. Len(start) : path[j] = start[j]
    BY <1>1, <2>2, <2>3
  <2>6. path[1] = start[1] /\ path[2] = start[2] /\ path[3] = start[3] /\ path[4] = start[4]
    BY <2>3, <2>5
  <2> QED
    BY <2>3, <2>4, <2>6
<1>6. IsChannelPath(path)
  BY <1>4, <1>5 DEF IsChannelPath, OneOf
<1>7. Label(conn).looks = {"id"} /\ Label(conn).word = conn /\ Label(conn) # Undefined
  <2>1. Label(conn).is = "text" /\ Undefined.is = "undefined"
    BY DEF Label, Text, Undefined
  <2> QED
    BY <2>1 DEF Label, Text
<1>8. IsChannelId(channel, MaxChannels)
  BY SafeAssumption DEF IsChannelId, IsChannelCount
<1>9. ParseChannel("GET", path, Label(conn))
          = [kind |-> "channel", tunnel |-> tunnel, channel |-> channel, conn |-> Label(conn)]
  BY <1>4, <1>5, <1>7, <1>8 DEF ParseChannel, IsTunnelId
<1>10. ParseApiRoute("GET", path, Label(conn)) = ParseChannel("GET", path, Label(conn))
  BY <1>5, <1>6 DEF ParseApiRoute
<1>11. Verified(Token(tunnel, conn), left, tunnel, conn)
  BY DEF Verified, Token
<1> QED
  <2>1. PICK l, t, r :
            /\ l = Label(conn) /\ t = Token(tunnel, conn)
            /\ r = [kind |-> "channel", tunnel |-> tunnel, channel |-> channel, conn |-> Label(conn)]
    OBVIOUS
  <2>2. ParseApiRoute("GET", to.path, l) = r
    BY <1>3, <1>9, <1>10, <2>1
  <2>3. r.kind = "channel" /\ r.tunnel = tunnel /\ l.word = conn
    BY <1>7, <2>1
  <2>4. Verified(t, left, r.tunnel, l.word)
    BY <1>11, <2>1, <2>3
  <2>5. EffectiveRoute(to.host, NoHost).kind = "app"
    BY <1>3
  <2>6. ConnectRoute(to, l, t, left) = r
    BY <2>2, <2>3, <2>4, <2>5 DEF ConnectRoute
  <2> QED
    BY <1>1, <2>1, <2>6

\* What the client dials, as one of those URLs: under the host of the server, wherever
\* the Worker says it is (rewriteLocalDataUrl).
LEMMA DialsItsServer ==
    ASSUME NEW i, NEW channel, NEW url, IsDial(i, channel, url), client.server \in DOMAIN SeenAs
    PROVE  /\ url.host = client.server
           /\ \E seen : url = ChannelUrl([DataUrl(seen, Pool[i]) EXCEPT !.host = client.server],
                                         channel)
<1>1. PICK seen \in SeenAs[client.server] :
          url = ChannelUrl(Dialled(DataUrl(seen, Pool[i])), channel)
  BY DEF IsDial
<1>2. PICK u, v : u = DataUrl(seen, Pool[i]) /\ v = [u EXCEPT !.host = client.server]
  OBVIOUS
<1>3. Dialled(u) = v
  <2>1. CASE IsLocalServer(client.server)
    BY <1>2, <2>1 DEF Dialled
  <2>2. CASE ~IsLocalServer(client.server)
    <3>1. seen = client.server
      BY <1>1, <2>2, ServersAssumption DEF IsLocalServer
    <3>2. u = [scheme |-> "wss", host |-> client.server, path |-> u.path]
      BY <1>2, <3>1 DEF DataUrl
    <3>3. v = u
      BY <1>2, <3>2
    <3> QED
      BY <2>2, <3>3 DEF Dialled
  <2> QED
    BY <2>1, <2>2
<1>4. url = ChannelUrl(v, channel)
  BY <1>1, <1>2, <1>3
<1>5. v.host = client.server /\ url = [v EXCEPT !.path = Append(@, Number(channel))]
  <2>1. v = [scheme |-> "wss", host |-> client.server, path |-> u.path]
    BY <1>2 DEF DataUrl
  <2> QED
    BY <1>4, <2>1 DEF ChannelUrl
<1>6. url.host = client.server
  BY <1>5
<1> QED
  BY <1>2, <1>4, <1>6

\* So the Worker knows where what the client dials leads, as long as the token lasts.
LEMMA DialsAreRouted ==
    ASSUME NEW i, NEW channel, NEW url, IsDial(i, channel, url), client.server \in DOMAIN SeenAs,
           NEW seen \in SeenAs[client.server], NEW left \in Nat
    PROVE  ConnectRoute([url EXCEPT !.host = seen], Label(Conn(i)), Token(Pool[i], Conn(i)), left)
               = [kind |-> "channel", tunnel |-> Pool[i], channel |-> channel,
                  conn |-> Label(Conn(i))]
<1>1. PICK asked : asked = AskedChannels(client.asked)
  OBVIOUS
<1>2. channel \in All(asked) /\ IsChannelCount(asked)
  BY <1>1, AskedTypes DEF IsDial
<1>3. channel \in 0 .. MaxChannels - 1
  <2>1. asked \in 1 .. MaxChannels /\ channel \in 0 .. asked - 1
    BY <1>2 DEF IsChannelCount, All
  <2> QED
    BY <2>1, SafeAssumption
<1>4. EffectiveRoute(seen, NoHost).kind = "app"
  BY ServesApi
<1>5. PICK at : url = ChannelUrl([DataUrl(at, Pool[i]) EXCEPT !.host = client.server], channel)
  BY DialsItsServer
<1>6. PICK tunnel, conn, server :
          tunnel = Pool[i] /\ conn = Conn(i) /\ server = client.server
  OBVIOUS
<1>7. url = ChannelUrl([DataUrl(at, tunnel) EXCEPT !.host = server], channel)
  BY <1>5, <1>6
<1>8. ConnectRoute([url EXCEPT !.host = seen], Label(conn), Token(tunnel, conn), left)
          = [kind |-> "channel", tunnel |-> tunnel, channel |-> channel, conn |-> Label(conn)]
  BY <1>3, <1>4, <1>7, ChannelsAreRouted
<1> QED
  BY <1>6, <1>8

\* An object that stands takes every channel that is dialled for it in time.
LEMMA ConnectIsTaken ==
    ASSUME NEW m, NEW seen \in SeenAs[client.server], NEW lag \in {0, 1},
           NEW i \in Attempts, m.attempt = i, IsDial(i, m.channel, m.url), Standing(i),
           ttl[i] \in Int, ttl[i] >= 2,
           client.server \in DOMAIN SeenAs, IsChannelCount(client.asked),
           WorkerConnects(m, seen, lag)
    PROVE  /\ replies' = replies \cup {[attempt |-> i, channel |-> m.channel, ok |-> TRUE]}
           /\ object' = [object EXCEPT ![i].up = @ \cup {m.channel}]
           /\ m.channel \in All(client.asked)
<1>1. PICK route, left : /\ left = ttl[i] - lag
                   /\ route = ConnectRoute([m.url EXCEPT !.host = seen], Label(Conn(i)),
                                           Token(Pool[i], Conn(i)), left)
  OBVIOUS
<1>2. left \in Nat
  BY <1>1
<1>3. m.channel \in All(client.asked)
  BY AskedTypes DEF IsDial
<1>4. PICK channel, url : channel = m.channel /\ url = m.url
  OBVIOUS
<1>5. IsDial(i, channel, url)
  BY <1>4
<1>6. ConnectRoute([url EXCEPT !.host = seen], Label(Conn(i)), Token(Pool[i], Conn(i)), left)
          = [kind |-> "channel", tunnel |-> Pool[i], channel |-> channel, conn |-> Label(Conn(i))]
  BY <1>2, <1>5, DialsAreRouted
<1>7. route = [kind |-> "channel", tunnel |-> Pool[i], channel |-> m.channel, conn |-> Label(Conn(i))]
  BY <1>1, <1>4, <1>6
<1>8. Label(Conn(i)).word = Conn(i) /\ Conn(i) # NoConn
  BY DEF Label, Text, Conn, NoConn
<1>9. Takes(i, route)
  BY <1>3, <1>7, <1>8 DEF Takes, Alive, Standing
<1>10. m.url.host = client.server
  BY DialsItsServer
<1> QED
  BY <1>1, <1>3, <1>9, <1>10 DEF WorkerConnects

\* And whatever state an object is in, it takes only a channel it expects.
LEMMA TakesExpected ==
    ASSUME NEW m, NEW seen \in SeenAs[client.server], NEW lag \in {0, 1},
           NEW i \in Attempts, m.attempt = i, IsDial(i, m.channel, m.url), ttl[i] \in Int,
           client.server \in DOMAIN SeenAs, WorkerConnects(m, seen, lag), object' # object
    PROVE  /\ m.channel \in All(object[i].expected) /\ Alive(i)
           /\ object' = [object EXCEPT ![i].up = @ \cup {m.channel}]
<1>1. PICK channel, url, left, route :
          /\ channel = m.channel /\ url = m.url /\ left = ttl[i] - lag
          /\ route = ConnectRoute([url EXCEPT !.host = seen], Label(Conn(i)),
                                  Token(Pool[i], Conn(i)), left)
  OBVIOUS
<1>2. /\ Takes(i, route) /\ object' = [object EXCEPT ![i].up = @ \cup {m.channel}]
  BY <1>1 DEF WorkerConnects
<1>3. route.kind = "channel" /\ Alive(i) /\ route.channel \in All(object[i].expected)
  BY <1>2 DEF Takes
<1>4. left \in Nat
  <2>1. left >= 0
    BY <1>1, <1>3 DEF ConnectRoute, Route, Verified
  <2> QED
    BY <1>1, <2>1
<1>5. IsDial(i, channel, url)
  BY <1>1
<1>6. ConnectRoute([url EXCEPT !.host = seen], Label(Conn(i)), Token(Pool[i], Conn(i)), left)
          = [kind |-> "channel", tunnel |-> Pool[i], channel |-> channel, conn |-> Label(Conn(i))]
  BY <1>4, <1>5, DialsAreRouted
<1>7. route.channel = channel
  BY <1>1, <1>6
<1> QED
  BY <1>1, <1>2, <1>3, <1>7

\* Messages speak of the same tunnels as long as the client asks the same of the same server.
LEMMA SameSays ==
    ASSUME client'.server = client.server, client'.asked = client.asked
    PROVE  /\ \A i, response : IsAnswer(i, response)' <=> IsAnswer(i, response)
           /\ \A i, channel, url : IsDial(i, channel, url)' <=> IsDial(i, channel, url)
  BY DEF IsAnswer, IsDial, Dialled

\* Messages that only get fewer.
LEMMA MessagesStay ==
    ASSUME OnTheWay, client'.server = client.server, client'.asked = client.asked,
           client'.attempt = client.attempt, At("creating")' => At("creating"),
           posted' = posted, answered' \subseteq answered, dialled' \subseteq dialled,
           replies' \subseteq replies
    PROVE  OnTheWay'
<1>1. \A i : (Begun(i)' <=> Begun(i)) /\ (Waits(i)' => Waits(i)) /\ (Pending(i)' <=> Pending(i))
  BY DEF Begun, Waits, Pending, At
<1>2. \A m \in posted' : Begun(m.attempt)' /\ m.asked = client'.asked
                         /\ m.seen \in SeenAs[client'.server]
  BY <1>1 DEF OnTheWay
<1>3. \A m, n \in posted' : m.attempt = n.attempt => m = n
  BY DEF OnTheWay
<1>4. \A m \in answered' : Begun(m.attempt)' /\ ~Pending(m.attempt)'
                           /\ IsAnswer(m.attempt, m.response)'
  BY <1>1, SameSays DEF OnTheWay
<1>5. \A d \in dialled' : Begun(d.attempt)' /\ ~Waits(d.attempt)'
                          /\ IsDial(d.attempt, d.channel, d.url)'
  BY <1>1, SameSays DEF OnTheWay
<1>6. \A r \in replies' : Begun(r.attempt)' /\ ~Waits(r.attempt)'
                          /\ r.channel \in All(AskedChannels(client'.asked))
  BY <1>1 DEF OnTheWay
<1> QED
  BY <1>2, <1>3, <1>4, <1>5, <1>6 DEF OnTheWay

\* The editors of the config file are no concern of the tunnel.
LEMMA ElsewhereKeeps == IInv /\ UNCHANGED <<client, open, wire, tunnels>> => IInv'
<1> SUFFICES ASSUME IInv, UNCHANGED <<client, open, wire, tunnels>> PROVE IInv'
  OBVIOUS
<1>0. /\ UNCHANGED <<client, open, posted, answered, dialled, replies, object, alarm, ttl>>
      /\ Typed /\ Choice /\ OnTheWay /\ Timely /\ Told
  BY DEF IInv, wire, tunnels
<1>1. Typed' /\ Choice'
  BY <1>0 DEF Typed, Choice, IsClient, IsObject, Attempts, At
<1>2. OnTheWay'
  <2>1. /\ client'.server = client.server /\ client'.asked = client.asked
        /\ client'.attempt = client.attempt /\ (At("creating")' => At("creating"))
    BY <1>0 DEF At
  <2>2. /\ posted' = posted /\ answered' \subseteq answered /\ dialled' \subseteq dialled
        /\ replies' \subseteq replies
    BY <1>0
  <2> QED
    BY <1>0, <2>1, <2>2, MessagesStay
<1>3. \A i : Pending(i)' <=> Pending(i)
  BY <1>0 DEF Pending
<1>4. Timely'
  BY <1>0, <1>3 DEF Timely, Standing, Complete, At
<1>5. Told'
  <2>1. IsAnswer(client.attempt, client.tunnel)' <=> IsAnswer(client.attempt, client.tunnel)
    BY <1>0 DEF IsAnswer
  <2> QED
    BY <1>0, <1>3, <2>1 DEF Told, At
<1> QED
  BY <1>1, <1>2, <1>4, <1>5 DEF IInv

\* The client gives an attempt up, or ends.
LEMMA LeavingKeeps ==
    ASSUME IInv, IsClient(client'), client'.phase \in {"waiting", "over"},
           client'.phase = "waiting" => ~At("idle") /\ ~At("over"),
           client'.server = client.server, client'.asked = client.asked,
           client'.attempt = client.attempt, open' = {}, UNCHANGED tunnels,
           posted' = posted, answered' \subseteq answered, dialled' \subseteq dialled,
           replies' \subseteq replies
    PROVE  IInv'
<1>1. ~At("creating")' /\ ~At("connecting")' /\ ~At("ready")' /\ ~At("idle")'
  BY DEF At
<1>2. Typed'
  BY DEF IInv, Typed, tunnels, IsClient, IsObject, Attempts
<1>3. Choice'
  BY <1>1 DEF IInv, Choice, At
<1>4. OnTheWay'
  BY <1>1, MessagesStay DEF IInv
<1>5. Timely' /\ Told'
  BY <1>1 DEF Timely, Told
<1> QED
  BY <1>2, <1>3, <1>4, <1>5 DEF IInv

\* What EXCEPT does to the client.
LEMMA ClientGoes ==
    ASSUME IsClient(client), NEW phase \in Phases, client' = [client EXCEPT !.phase = phase]
    PROVE  /\ IsClient(client') /\ client'.phase = phase /\ client'.server = client.server
           /\ client'.asked = client.asked /\ client'.attempt = client.attempt
           /\ client'.tunnel = client.tunnel /\ client'.left = client.left
<1>1. PICK c : c = client
  OBVIOUS
<1>2. client' = [phase |-> phase, server |-> c.server, asked |-> c.asked, attempt |-> c.attempt,
                 tunnel |-> c.tunnel, left |-> c.left, again |-> c.again, stopped |-> c.stopped]
  BY <1>1 DEF IsClient
<1>3. c.attempt \in 0 .. Len(Pool) /\ c.left \in 0 .. 1
  BY <1>1 DEF IsClient
<1>4. /\ client'.phase = phase /\ client'.server = c.server /\ client'.asked = c.asked
      /\ client'.attempt = c.attempt /\ client'.tunnel = c.tunnel /\ client'.left = c.left
      /\ client'.again = c.again /\ client'.stopped = c.stopped
  BY <1>2
<1>5. IsClient(client')
  BY <1>2, <1>3, <1>4 DEF IsClient
<1> QED
  BY <1>1, <1>4, <1>5

\* A client that gives up an attempt leaves the invariant as it was.
LEMMA FailsKeeps ==
    ASSUME IInv, Fails, ~At("idle"), ~At("over"), UNCHANGED tunnels,
           posted' = posted, answered' \subseteq answered, dialled' \subseteq dialled,
           replies' \subseteq replies
    PROVE  IInv'
<1>1. PICK phase \in {"waiting", "over"} : client' = [client EXCEPT !.phase = phase] /\ open' = {}
  <2>1. CASE client.again /\ ~client.stopped
    BY <2>1 DEF Fails
  <2>2. CASE ~(client.again /\ ~client.stopped)
    BY <2>2 DEF Fails
  <2> QED
    BY <2>1, <2>2
<1>2. phase \in Phases /\ IsClient(client)
  BY DEF Phases, IInv, Typed
<1>3. /\ IsClient(client') /\ client'.phase = phase /\ client'.server = client.server
      /\ client'.asked = client.asked /\ client'.attempt = client.attempt
  BY <1>1, <1>2, ClientGoes
<1> QED
  BY <1>1, <1>3, LeavingKeeps

\* resolveConfig: before it nothing was asked of anybody.
LEMMA ResolvesKeeps ==
    ASSUME IInv, NEW server \in DOMAIN SeenAs, NEW flag \in Flags, Resolves(server, flag)
    PROVE  IInv'
<1>0. /\ At("idle") /\ IsClient(client) /\ client.attempt = 0
      /\ UNCHANGED <<open, posted, answered, dialled, replies, object, alarm, ttl>>
  BY DEF Resolves, IInv, Typed, Choice, wire, tunnels
<1>1. /\ \A i : ~Begun(i)
      /\ posted = {} /\ answered = {} /\ dialled = {} /\ replies = {}
  BY <1>0 DEF IInv, OnTheWay, Begun
<1> DEFINE Chose(phase, at, asked) ==
        /\ client' = [phase |-> phase, server |-> at, asked |-> asked, attempt |-> 0,
                      tunnel |-> client.tunnel, left |-> client.left, again |-> client.again,
                      stopped |-> client.stopped]
        /\ phase = "waiting" => at \in DOMAIN SeenAs /\ IsChannelCount(asked)
<1>2. \E phase \in {"waiting", "over"} : \E at, asked : Chose(phase, at, asked)
  <2>1. CASE Sane(file) /\ IsChannelCount(Asked(flag))
    <3>1. client' = [phase |-> "waiting", server |-> server, asked |-> Asked(flag), attempt |-> 0,
                     tunnel |-> client.tunnel, left |-> client.left, again |-> client.again,
                     stopped |-> client.stopped]
      BY <1>0, <2>1 DEF Resolves, IsClient
    <3> QED
      BY <2>1, <3>1
  <2>2. CASE ~(Sane(file) /\ IsChannelCount(Asked(flag)))
    <3>1. client' = [phase |-> "over", server |-> client.server, asked |-> client.asked,
                     attempt |-> 0, tunnel |-> client.tunnel, left |-> client.left,
                     again |-> client.again, stopped |-> client.stopped]
      BY <1>0, <2>2 DEF Resolves, IsClient
    <3> QED
      BY <3>1
  <2> QED
    BY <2>1, <2>2
<1>a. PICK phase \in {"waiting", "over"} : \E at, asked : Chose(phase, at, asked)
  BY <1>2
<1>b. PICK at, asked : Chose(phase, at, asked)
  BY <1>a
<1>3. /\ client'.phase = phase /\ client'.server = at /\ client'.asked = asked
      /\ client'.attempt = 0 /\ client'.left \in 0 .. 1
  BY <1>0, <1>b DEF IsClient
<1>4. /\ ~At("creating")' /\ ~At("connecting")' /\ ~At("ready")' /\ ~At("idle")'
      /\ (~At("over")' => at \in DOMAIN SeenAs /\ IsChannelCount(asked))
  BY <1>b, <1>3 DEF At
<1>5. Typed'
  <2>1. IsClient(client')
    BY <1>0, <1>b, <1>3 DEF IsClient, Phases
  <2> QED
    BY <1>0, <2>1 DEF IInv, Typed, IsClient, IsObject, Attempts
<1>6. Choice'
  BY <1>3, <1>4 DEF Choice
<1>7. OnTheWay'
  BY <1>0, <1>1 DEF OnTheWay
<1>8. Timely' /\ Told'
  <2>1. open = {}
    BY <1>0 DEF IInv, Told, At
  <2> QED
    BY <1>0, <1>4, <2>1 DEF Timely, Told
<1> QED
  BY <1>5, <1>6, <1>7, <1>8 DEF IInv

\* createEphemeralTunnel asks for a tunnel nobody has asked for before.
LEMMA PostsKeeps ==
    ASSUME IInv, NEW seen, Posts(seen)
    PROVE  IInv'
<1>0. /\ At("waiting") /\ IsClient(client) /\ client.attempt < Len(Pool)
      /\ seen \in SeenAs[client.server]
      /\ UNCHANGED <<open, answered, dialled, replies, object, alarm, ttl>>
  BY DEF Posts, IInv, Typed, tunnels
<1>1. PICK i : i = client.attempt + 1
  OBVIOUS
<1>2. Len(Pool) \in Nat /\ client.attempt \in Nat /\ i \in 0 .. Len(Pool) /\ i \in 1 .. i
  BY <1>0, <1>1, PoolAssumption DEF IsClient
<1>3. client' = [phase |-> "creating", server |-> client.server, asked |-> client.asked,
                 attempt |-> i, tunnel |-> client.tunnel, left |-> CreateTimeout,
                 again |-> client.again, stopped |-> client.stopped]
  BY <1>0, <1>1 DEF Posts, IsClient
<1>4. /\ client'.phase = "creating" /\ client'.server = client.server
      /\ client'.asked = client.asked /\ client'.attempt = i /\ client'.left = 1
  BY <1>3 DEF CreateTimeout
<1>5. PICK p : p = [attempt |-> i, asked |-> client.asked, seen |-> seen]
  OBVIOUS
<1>6. posted' = posted \cup {p} /\ p.attempt = i /\ p.asked = client.asked /\ p.seen = seen
  BY <1>4, <1>5 DEF Posts
<1>7. Typed'
  <2>1. IsClient(client')
    BY <1>2, <1>3, <1>4 DEF IsClient, Phases
  <2> QED
    BY <1>0, <2>1 DEF IInv, Typed, IsClient, IsObject, Attempts
<1>8. Choice'
  <2>1. i \in Attempts
    BY <1>1, <1>2, PoolAssumption DEF Attempts
  <2> QED
    BY <1>0, <1>4, <2>1 DEF IInv, Choice, At, Attempts
<1>9. Pending(i)'
  BY <1>6 DEF Pending
<1>10. \A j : Begun(j) => Begun(j)' /\ j # i /\ ~Waits(j)'
  BY <1>1, <1>2, <1>4 DEF Begun, Waits
<1>11. \A m \in posted : m.attempt # i
  BY <1>10 DEF IInv, OnTheWay
<1>12. OnTheWay'
  <2>1. \A j : j # i => (Pending(j)' <=> Pending(j))
    BY <1>6 DEF Pending
  <2>2. Begun(i)'
    BY <1>2, <1>4 DEF Begun
  <2>3. \A m \in posted' : Begun(m.attempt)' /\ m.asked = client'.asked
                           /\ m.seen \in SeenAs[client'.server]
    BY <1>0, <1>4, <1>6, <1>10, <2>2 DEF IInv, OnTheWay
  <2>4. \A m, n \in posted' : m.attempt = n.attempt => m = n
    BY <1>6, <1>11 DEF IInv, OnTheWay
  <2>5. \A m \in answered' : Begun(m.attempt)' /\ ~Pending(m.attempt)'
                             /\ IsAnswer(m.attempt, m.response)'
    BY <1>0, <1>4, <1>10, <2>1, SameSays DEF IInv, OnTheWay
  <2>6. \A d \in dialled' : Begun(d.attempt)' /\ ~Waits(d.attempt)'
                            /\ IsDial(d.attempt, d.channel, d.url)'
    BY <1>0, <1>4, <1>10, SameSays DEF IInv, OnTheWay
  <2>7. \A r \in replies' : Begun(r.attempt)' /\ ~Waits(r.attempt)'
                            /\ r.channel \in All(AskedChannels(client'.asked))
    BY <1>0, <1>4, <1>10 DEF IInv, OnTheWay
  <2> QED
    BY <2>3, <2>4, <2>5, <2>6, <2>7 DEF OnTheWay
<1>13. Timely' /\ Told'
  <2>1. ~At("connecting")' /\ ~At("ready")'
    BY <1>4 DEF At
  <2>2. open' = {}
    BY <1>0 DEF IInv, Told, At
  <2> QED
    BY <1>4, <1>9, <2>1, <2>2 DEF Timely, Told
<1> QED
  BY <1>7, <1>8, <1>12, <1>13 DEF IInv

\* What an answer says of the tunnel (CreateResponse), when the client asked a number
\* of channels.
LEMMA AnswersSay ==
    ASSUME NEW i, NEW response, IsAnswer(i, response), IsChannelCount(client.asked)
    PROVE  /\ response.channels = client.asked
           /\ response.publicUrl.host = PublicHost(Pool[i])
           /\ \E seen \in SeenAs[client.server] : response.dataUrl = DataUrl(seen, Pool[i])
<1>1. PICK seen \in SeenAs[client.server], version \in Versions :
          response = CreateResponse(seen, Pool[i], Conn(i), AskedChannels(client.asked), version)
  BY DEF IsAnswer
<1>2. AskedChannels(client.asked) = client.asked
  BY AskedTypes
<1>3. response.channels = client.asked /\ response.publicUrl.host = PublicHost(Pool[i])
  BY <1>1, <1>2 DEF CreateResponse
<1>4. response.dataUrl = DataUrl(seen, Pool[i])
  BY <1>1 DEF CreateResponse
<1> QED
  BY <1>3, <1>4

\* The answer of a create request, in time: the client dials every channel.
LEMMA CreateAnsweredKeeps ==
    ASSUME IInv, NEW m, CreateAnswered(m)
    PROVE  IInv'
<1>0. /\ At("creating") /\ IsClient(client) /\ m \in answered /\ m.attempt = client.attempt
      /\ answered' = answered \ {m}
      /\ UNCHANGED <<posted, replies, object, alarm, ttl>>
  BY DEF CreateAnswered, IInv, Typed, tunnels
<1>1. /\ client.server \in DOMAIN SeenAs /\ IsChannelCount(client.asked)
      /\ ~At("idle") /\ ~At("over")
  BY <1>0 DEF IInv, Choice, At
<1>2. CASE ~IsCreateResponse(m.response)
  <2>1. Fails /\ UNCHANGED dialled
    BY <1>2 DEF CreateAnswered
  <2>2. UNCHANGED tunnels /\ answered' \subseteq answered
    BY <1>0 DEF tunnels
  <2>3. posted' = posted /\ dialled' \subseteq dialled /\ replies' \subseteq replies
    BY <1>0, <2>1
  <2> QED
    BY <1>1, <2>1, <2>2, <2>3, FailsKeeps
<1>3. CASE IsCreateResponse(m.response)
  <2>1. PICK i, tunnel, a : i = client.attempt /\ tunnel = m.response /\ a = client.asked
    OBVIOUS
  <2>2. Begun(i) /\ ~Pending(i) /\ IsAnswer(i, tunnel)
    BY <1>0, <2>1 DEF IInv, OnTheWay
  <2>3. tunnel.channels = a
    BY <1>1, <2>1, <2>2, AnswersSay
  <2>4. client' = [phase |-> "connecting", server |-> client.server, asked |-> a, attempt |-> i,
                   tunnel |-> tunnel, left |-> 1, again |-> client.again,
                   stopped |-> client.stopped]
    BY <1>0, <1>3, <2>1 DEF CreateAnswered, IsClient, ConnectTimeout
  <2>5. /\ client'.phase = "connecting" /\ client'.server = client.server /\ client'.asked = a
        /\ client'.attempt = i /\ client'.left = 1 /\ client'.tunnel = tunnel
    BY <2>4
  <2>6. /\ dialled' = dialled \cup {[attempt |-> i, channel |-> c,
                                     url |-> ChannelUrl(Dialled(tunnel.dataUrl), c)] : c \in All(a)}
        /\ open' = open
    BY <1>0, <1>3, <2>1, <2>3 DEF CreateAnswered
  <2>7. open = {}
    BY <1>0 DEF IInv, Told, At
  <2>8. Typed'
    <3>1. IsClient(client')
      BY <1>0, <2>1, <2>4, <2>5 DEF IsClient, Phases
    <3> QED
      BY <1>0, <3>1 DEF IInv, Typed, IsClient, IsObject, Attempts
  <2>9. Choice'
    <3>1. i \in Attempts
      BY <1>0, <2>1 DEF IInv, Choice
    <3> QED
      BY <1>1, <2>1, <2>5, <3>1 DEF Choice, At, Attempts
  <2>10. /\ \A j : (Begun(j)' <=> Begun(j)) /\ ~Waits(j)' /\ (Pending(j)' <=> Pending(j))
    BY <1>0, <2>1, <2>5 DEF Begun, Waits, Pending, At
  <2>11. OnTheWay'
    <3>1. client'.server = client.server /\ client'.asked = client.asked
      BY <2>1, <2>5
    <3>2. \A n \in posted' : Begun(n.attempt)' /\ n.asked = client'.asked
                             /\ n.seen \in SeenAs[client'.server]
      BY <1>0, <2>10, <3>1 DEF IInv, OnTheWay
    <3>3. \A n, o \in posted' : n.attempt = o.attempt => n = o
      BY <1>0 DEF IInv, OnTheWay
    <3>4. \A n \in answered' : Begun(n.attempt)' /\ ~Pending(n.attempt)'
                               /\ IsAnswer(n.attempt, n.response)'
      BY <1>0, <2>10, <3>1, SameSays DEF IInv, OnTheWay
    <3>5. ASSUME NEW d \in dialled'
          PROVE  Begun(d.attempt)' /\ ~Waits(d.attempt)' /\ IsDial(d.attempt, d.channel, d.url)'
      <4>1. CASE d \in dialled
        BY <2>10, <3>1, <4>1, SameSays DEF IInv, OnTheWay
      <4>2. CASE d \notin dialled
        <5>1. PICK c \in All(a) : d = [attempt |-> i, channel |-> c,
                                       url |-> ChannelUrl(Dialled(tunnel.dataUrl), c)]
          BY <2>6, <4>2
        <5>2. PICK seen \in SeenAs[client.server] : tunnel.dataUrl = DataUrl(seen, Pool[i])
          BY <1>1, <2>2, AnswersSay
        <5>3. /\ d.attempt = i /\ d.channel = c
              /\ d.url = ChannelUrl(Dialled(DataUrl(seen, Pool[i])), c)
          BY <5>1, <5>2
        <5>4. AskedChannels(client.asked) = a
          BY <1>1, <2>1, AskedTypes
        <5>5. IsDial(i, d.channel, d.url)
          BY <5>3, <5>4 DEF IsDial
        <5> QED
          BY <2>2, <2>10, <3>1, <5>3, <5>5, SameSays
      <4> QED
        BY <4>1, <4>2
    <3>6. \A r \in replies' : Begun(r.attempt)' /\ ~Waits(r.attempt)'
                              /\ r.channel \in All(AskedChannels(client'.asked))
      BY <1>0, <2>10, <3>1 DEF IInv, OnTheWay
    <3> QED
      BY <3>2, <3>3, <3>4, <3>5, <3>6 DEF OnTheWay
  <2>12. /\ Standing(i) /\ object[i].up = {}
         /\ alarm[i] >= 7 + client.left /\ ttl[i] >= 3 + client.left /\ client.left \in 0 .. 1
    BY <1>0, <2>1, <2>2 DEF IInv, Timely, IsClient
  <2>13. Timely'
    <3>1. i \in Attempts /\ alarm[i] \in Int /\ ttl[i] \in Int
      <4>1. i \in 1 .. Len(Pool)
        BY <1>0, <2>1, <2>2, PoolAssumption DEF Begun, IsClient
      <4>2. i \in Attempts
        BY <4>1, PoolAssumption DEF Attempts
      <4> QED
        BY <4>2 DEF IInv, Typed
    <3>2. alarm[i] >= 6 + 1 /\ ttl[i] >= 2 + 1
      BY <2>12, <3>1
    <3>3. Standing(i)'
      BY <1>0, <2>1, <2>5, <2>12 DEF Standing
    <3> QED
      BY <1>0, <2>5, <3>2, <3>3 DEF Timely, At
  <2>14. Told'
    <3>1. ~Pending(i)' /\ IsAnswer(i, tunnel)'
      <4>1. client'.server = client.server /\ client'.asked = client.asked
        BY <2>1, <2>5
      <4> QED
        BY <2>2, <2>10, <4>1, SameSays
    <3>2. \A r \in replies' : r.attempt # i
      BY <1>0, <2>1 DEF IInv, OnTheWay, Waits
    <3>3. IsAnswer(client.attempt, client.tunnel)'
      BY <2>5, <3>1
    <3> QED
      BY <2>5, <2>6, <2>7, <3>1, <3>2, <3>3 DEF Told, At
  <2> QED
    BY <2>8, <2>9, <2>11, <2>13, <2>14 DEF IInv
<1> QED
  BY <1>2, <1>3

\* A channel was answered: it is open, and with the last one the client is ready.
LEMMA ChannelOpensKeeps ==
    ASSUME IInv, At("connecting"), NEW r \in replies, r.attempt = client.attempt, r.ok,
           ChannelOpens(r.channel), replies' = replies \ {r},
           UNCHANGED <<posted, answered, dialled, object, alarm, ttl>>
    PROVE  IInv'
<1>0. /\ IsClient(client) /\ client.server \in DOMAIN SeenAs /\ IsChannelCount(client.asked)
      /\ Typed /\ Choice /\ OnTheWay /\ Timely /\ Told
  BY DEF IInv, Typed, Choice, At
<1>1. PICK i, a : i = client.attempt /\ a = client.asked
  OBVIOUS
<1>2. /\ ~Pending(i) /\ IsAnswer(i, client.tunnel) /\ open \subseteq All(a)
      /\ object[i].lost \/ open \subseteq object[i].up
      /\ object[i].lost \/ r.channel \in object[i].up
  BY <1>0, <1>1 DEF Told
<1>3. client.tunnel.channels = a
  BY <1>0, <1>1, <1>2, AnswersSay
<1>4. open' = open \cup {r.channel}
  BY DEF ChannelOpens
<1>5. Begun(i) /\ i \in Attempts
  <2>1. Begun(i)
    BY <1>0, <1>1 DEF OnTheWay
  <2>2. i \in 1 .. Len(Pool)
    BY <1>0, <1>1, <2>1, PoolAssumption DEF Begun, IsClient
  <2> QED
    BY <2>1, <2>2, PoolAssumption DEF Attempts
<1>6. object[i].lost \/ (Standing(i) /\ open' \subseteq object[i].up /\ object[i].up \subseteq All(a))
  <2>1. object[i].lost \/ Standing(i)
    BY <1>0, <1>1 DEF Timely
  <2>2. object[i].up \subseteq All(object[i].expected)
    BY <1>0, <1>5 DEF Typed, IsObject
  <2> QED
    BY <1>1, <1>2, <1>4, <2>1, <2>2 DEF Standing
<1>7. PICK phase \in {"connecting", "ready"} :
          /\ client'.phase = phase /\ client'.server = client.server
          /\ client'.asked = client.asked /\ client'.attempt = client.attempt
          /\ client'.tunnel = client.tunnel /\ client'.left = client.left
          /\ IsClient(client') /\ (phase = "ready" => open' = All(a))
          /\ (phase = "connecting" => client' = client)
  <2>1. CASE open' = All(client.tunnel.channels)
    <3>1. client' = [phase |-> "ready", server |-> client.server, asked |-> client.asked,
                     attempt |-> client.attempt, tunnel |-> client.tunnel, left |-> client.left,
                     again |-> TRUE, stopped |-> client.stopped]
      BY <1>0, <2>1 DEF ChannelOpens, IsClient
    <3>2. /\ client'.phase = "ready" /\ client'.server = client.server
          /\ client'.asked = client.asked /\ client'.attempt = client.attempt
          /\ client'.tunnel = client.tunnel /\ client'.left = client.left
      BY <3>1
    <3>3. IsClient(client')
      BY <1>0, <3>1, <3>2 DEF IsClient, Phases
    <3> QED
      BY <1>3, <2>1, <3>2, <3>3
  <2>2. CASE open' # All(client.tunnel.channels)
    <3>1. client' = client
      BY <2>2 DEF ChannelOpens
    <3> QED
      BY <1>0, <3>1 DEF At
  <2> QED
    BY <2>1, <2>2
<1>8. Typed'
  BY <1>0, <1>7 DEF Typed, IsClient, IsObject, Attempts
<1>9. Choice'
  <2>1. client.attempt \in Attempts
    BY <1>0 DEF Choice
  <2> QED
    BY <1>0, <1>7, <2>1 DEF Choice, At, Attempts
<1>10. OnTheWay'
  <2>1. At("creating")' => At("creating")
    BY <1>7 DEF At
  <2>2. replies' \subseteq replies
    OBVIOUS
  <2> QED
    BY <1>0, <1>7, <2>1, <2>2, MessagesStay
<1>11. (Standing(i)' <=> Standing(i)) /\ (Complete(i)' <=> Complete(i)) /\ (Pending(i)' <=> Pending(i))
  BY <1>7 DEF Standing, Complete, Pending
<1>12. Timely'
  <2>1. CASE phase = "connecting"
    BY <1>0, <1>1, <1>7, <1>11, <2>1 DEF Timely, At
  <2>2. CASE phase = "ready"
    <3>1. open' = All(a)
      BY <1>7, <2>2
    <3>2. object[i].lost \/ (Standing(i) /\ Complete(i))
      BY <1>1, <1>6, <3>1 DEF Complete
    <3> QED
      BY <1>1, <1>7, <1>11, <2>2, <3>2 DEF Timely, At
  <2> QED
    BY <2>1, <2>2
<1>13. Told'
  <2>1. IsAnswer(i, client.tunnel)'
    <3>1. client'.tunnel = client.tunnel
      BY <1>7
    <3>2. PICK t : t = client.tunnel
      OBVIOUS
    <3>3. IsAnswer(i, t)'
      BY <1>2, <1>7, <3>2, SameSays
    <3> QED
      BY <3>1, <3>2, <3>3
  <2>2. open' \subseteq All(a)
    <3>1. CASE phase = "ready"
      BY <1>7, <3>1
    <3>2. CASE phase = "connecting"
      <4>1. r.channel \in All(a)
        BY <1>0, <1>1, AskedTypes DEF OnTheWay
      <4> QED
        BY <1>2, <1>4, <4>1
    <3> QED
      BY <3>1, <3>2
  <2> QED
    BY <1>0, <1>1, <1>6, <1>7, <1>11, <2>1, <2>2 DEF Told, At
<1> QED
  BY <1>8, <1>9, <1>10, <1>12, <1>13 DEF IInv

\* The answer to the connect call keeps the invariant, in time or late.
LEMMA ConnectAnsweredKeeps ==
    ASSUME IInv, NEW r, ConnectAnswered(r)
    PROVE  IInv'
<1>0. /\ At("connecting") /\ r \in replies /\ r.attempt = client.attempt
      /\ replies' = replies \ {r}
      /\ UNCHANGED <<posted, answered, dialled, object, alarm, ttl>>
      /\ ~At("idle") /\ ~At("over")
  BY DEF ConnectAnswered, tunnels, At
<1>1. CASE r.ok /\ ~(client.stopped /\ open \cup {r.channel} = All(client.tunnel.channels))
  <2>1. ChannelOpens(r.channel)
    BY <1>1 DEF ConnectAnswered
  <2> QED
    BY <1>0, <1>1, <2>1, ChannelOpensKeeps
<1>2. CASE ~(r.ok /\ ~(client.stopped /\ open \cup {r.channel} = All(client.tunnel.channels)))
  <2>1. Fails
    BY <1>2 DEF ConnectAnswered
  <2>2. /\ UNCHANGED tunnels /\ posted' = posted /\ answered' \subseteq answered
        /\ dialled' \subseteq dialled /\ replies' \subseteq replies
    BY <1>0 DEF tunnels
  <2> QED
    BY <1>0, <2>1, <2>2, FailsKeeps
<1> QED
  BY <1>1, <1>2

\* A timeout, an error of the network, a stop.
LEMMA GivingUpKeeps == IInv /\ (TimesOut \/ Breaks \/ Stops) => IInv'
<1> SUFFICES ASSUME IInv, TimesOut \/ Breaks \/ Stops PROVE IInv'
  OBVIOUS
<1>0. /\ UNCHANGED tunnels /\ posted' = posted /\ answered' \subseteq answered
      /\ dialled' \subseteq dialled /\ replies' \subseteq replies
      /\ UNCHANGED <<posted, answered, dialled, replies, object, alarm, ttl>>
  BY DEF TimesOut, Breaks, Stops, wire, tunnels
<1>1. CASE TimesOut \/ Breaks
  <2>1. Fails /\ ~At("idle") /\ ~At("over")
    BY <1>1 DEF TimesOut, Breaks, At
  <2> QED
    BY <1>0, <2>1, FailsKeeps
<1>2. CASE Stops /\ ~(At("creating") \/ BacksOff)
  <2>1. client' = [client EXCEPT !.phase = "over"] /\ open' = {}
    BY <1>2 DEF Stops, Goes
  <2>2. IsClient(client) /\ "over" \in Phases
    BY DEF IInv, Typed, Phases
  <2>3. /\ IsClient(client') /\ client'.phase = "over" /\ client'.server = client.server
        /\ client'.asked = client.asked /\ client'.attempt = client.attempt
    BY <2>1, <2>2, ClientGoes
  <2> QED
    BY <1>0, <2>1, <2>3, LeavingKeeps
<1>3. CASE Stops /\ (At("creating") \/ BacksOff)
  <2>1. /\ client' = [client EXCEPT !.stopped = TRUE] /\ open' = open
        /\ IsClient(client) /\ Typed /\ Choice /\ OnTheWay /\ Timely /\ Told
    BY <1>3 DEF Stops, IInv, Typed
  <2>2. client' = [phase |-> client.phase, server |-> client.server, asked |-> client.asked,
                   attempt |-> client.attempt, tunnel |-> client.tunnel, left |-> client.left,
                   again |-> client.again, stopped |-> TRUE]
    BY <2>1 DEF IsClient
  <2>3. /\ client'.phase = client.phase /\ client'.server = client.server
        /\ client'.asked = client.asked /\ client'.attempt = client.attempt
        /\ client'.tunnel = client.tunnel /\ client'.left = client.left
    BY <2>2
  <2>4. IsClient(client')
    BY <2>1, <2>2, <2>3 DEF IsClient
  <2>5. Typed'
    BY <1>0, <2>1, <2>4 DEF Typed, IsClient, IsObject, Attempts
  <2>6. Choice'
    BY <2>1, <2>3 DEF Choice, At, Attempts
  <2>7. OnTheWay'
    <3>1. At("creating")' => At("creating")
      BY <2>3 DEF At
    <3> QED
      BY <1>0, <2>1, <2>3, <3>1, MessagesStay
  <2>8. Timely'
    BY <1>0, <2>1, <2>3 DEF Timely, Standing, Complete, Pending, At
  <2>9. Told'
    <3>1. ~At("connecting") /\ ~At("ready")
      BY <1>3 DEF BacksOff, At
    <3>2. ~At("connecting")' /\ ~At("ready")' /\ open' = {}
      BY <2>1, <2>3, <3>1 DEF Told, At
    <3> QED
      BY <3>2 DEF Told
  <2> QED
    BY <2>5, <2>6, <2>7, <2>8, <2>9 DEF IInv
<1> QED
  BY <1>1, <1>2, <1>3

\* What the object of an attempt becomes.
LEMMA ObjectBecomes ==
    ASSUME Typed, NEW i \in Attempts, NEW o, IsObject(o), NEW a \in -1 .. AlarmTime,
           NEW t \in -1 .. TokenTtl, UNCHANGED client,
           object' = [object EXCEPT ![i] = o], alarm' = [alarm EXCEPT ![i] = a],
           ttl' = [ttl EXCEPT ![i] = t]
    PROVE  /\ Typed' /\ object'[i] = o /\ alarm'[i] = a /\ ttl'[i] = t
           /\ \A j \in Attempts : j # i =>
                  object'[j] = object[j] /\ alarm'[j] = alarm[j] /\ ttl'[j] = ttl[j]
<1>1. /\ DOMAIN object = Attempts /\ alarm \in [Attempts -> -1 .. AlarmTime]
      /\ ttl \in [Attempts -> -1 .. TokenTtl]
  BY DEF Typed
<1>2. /\ object'[i] = o /\ DOMAIN object' = Attempts /\ object' = [j \in Attempts |-> object'[j]]
      /\ \A j \in Attempts : j # i => object'[j] = object[j]
  BY <1>1
<1>3. /\ alarm' \in [Attempts -> -1 .. AlarmTime] /\ alarm'[i] = a
      /\ \A j \in Attempts : j # i => alarm'[j] = alarm[j]
  BY <1>1
<1>4. /\ ttl' \in [Attempts -> -1 .. TokenTtl] /\ ttl'[i] = t
      /\ \A j \in Attempts : j # i => ttl'[j] = ttl[j]
  BY <1>1
<1>5. \A j \in Attempts : IsObject(object'[j])
  BY <1>2 DEF Typed
<1>6. IsClient(client')
  BY DEF Typed
<1> QED
  BY <1>2, <1>3, <1>4, <1>5, <1>6 DEF Typed, Attempts, IsObject, IsClient


\* What a step of the Worker or of an object leaves to the client.
LEMMA NewsOfClient ==
    ASSUME UNCHANGED client
    PROVE  /\ \A i : (Begun(i)' <=> Begun(i)) /\ (Waits(i)' <=> Waits(i))
           /\ \A i, response : IsAnswer(i, response)' <=> IsAnswer(i, response)
           /\ \A i, channel, url : IsDial(i, channel, url)' <=> IsDial(i, channel, url)
           /\ \A phase : At(phase)' <=> At(phase)
           /\ client'.attempt = client.attempt /\ client'.asked = client.asked
           /\ client'.server = client.server /\ client'.left = client.left
           /\ client'.tunnel = client.tunnel
  BY SameSays DEF Begun, Waits, At

\* Attempts that began are attempts.
LEMMA BegunAttempts == Typed => \A i : Begun(i) => i \in Attempts
<1> SUFFICES ASSUME Typed, NEW i, Begun(i) PROVE i \in Attempts
  OBVIOUS
<1>1. client.attempt \in 0 .. Len(Pool) /\ Len(Pool) \in Nat /\ DOMAIN Pool = 1 .. Len(Pool)
  BY PoolAssumption DEF Typed, IsClient
<1> QED
  BY <1>1 DEF Begun, Attempts

\* The objects of other attempts are of no concern to the current one.
LEMMA OtherObjects ==
    ASSUME Choice, Timely, Told, UNCHANGED <<client, open>>,
           \A r \in replies' : r.attempt = client.attempt => r \in replies,
           Pending(client.attempt)' <=> Pending(client.attempt),
           client.attempt \in Attempts =>
               /\ object'[client.attempt] = object[client.attempt]
               /\ alarm'[client.attempt] = alarm[client.attempt]
               /\ ttl'[client.attempt] = ttl[client.attempt]
    PROVE  Timely' /\ Told'
<1>1. PICK i : i = client.attempt
  OBVIOUS
<1>2. CASE i \notin Attempts
  <2>1. ~At("creating") /\ ~At("connecting") /\ ~At("ready")
    BY <1>1, <1>2 DEF Choice
  <2> QED
    BY <2>1 DEF Timely, Told, At
<1>3. CASE i \in Attempts
  <2>1. /\ client'.attempt = i /\ (Pending(i)' <=> Pending(i))
        /\ (Standing(i)' <=> Standing(i)) /\ (Complete(i)' <=> Complete(i))
        /\ object'[i] = object[i] /\ alarm'[i] = alarm[i] /\ ttl'[i] = ttl[i]
    BY <1>1, <1>3 DEF Standing, Complete
  <2>2. Timely'
    BY <1>1, <2>1 DEF Timely, At
  <2>3. IsAnswer(i, client.tunnel)' <=> IsAnswer(i, client.tunnel)
    BY DEF IsAnswer
  <2>4. Told'
    BY <1>1, <2>1, <2>3 DEF Told, At
  <2> QED
    BY <2>2, <2>4
<1> QED
  BY <1>2, <1>3

\* createTunnel and handleInit: the object stands, with all its time ahead.
LEMMA WorkerCreatesKeeps ==
    ASSUME IInv, NEW m, NEW version \in Versions, WorkerCreates(m, version)
    PROVE  IInv'
<1>0. /\ Typed /\ Choice /\ OnTheWay /\ Timely /\ Told /\ m \in posted /\ posted' = posted \ {m}
      /\ UNCHANGED client /\ UNCHANGED <<client, open, dialled, replies>>
  BY DEF WorkerCreates, IInv
<1>1. PICK i, a : i = m.attempt /\ a = AskedChannels(client.asked)
  OBVIOUS
<1>2. Begun(i) /\ m.asked = client.asked /\ m.seen \in SeenAs[client.server] /\ Pending(i)
  BY <1>0, <1>1 DEF OnTheWay, Pending
<1>3. i \in Attempts
  BY <1>0, <1>2, BegunAttempts
<1>4. PICK o : o = [conn |-> Conn(i), expected |-> a, up |-> {}, lost |-> FALSE]
  OBVIOUS
<1>5. o.conn = Conn(i) /\ o.expected = a /\ o.up = {} /\ o.lost = FALSE /\ IsObject(o)
  BY <1>4 DEF IsObject
<1>6. /\ object' = [object EXCEPT ![i] = o] /\ alarm' = [alarm EXCEPT ![i] = 8]
      /\ ttl' = [ttl EXCEPT ![i] = 4]
  <2>1. [Nowhere EXCEPT !.conn = Conn(i), !.expected = a] = o
    <3>0. PICK conn, r : conn = Conn(i) /\ r = Nowhere
      OBVIOUS
    <3>1. PICK s : s = [r EXCEPT !.conn = conn, !.expected = a]
      OBVIOUS
    <3>2. r = [conn |-> r.conn, expected |-> r.expected, up |-> r.up, lost |-> r.lost]
      BY <3>0 DEF Nowhere
    <3>4. /\ s = [conn |-> conn, expected |-> a, up |-> s.up, lost |-> s.lost]
          /\ s.up = r.up /\ s.lost = r.lost
      BY <3>1, <3>2
    <3>5. r.up = {} /\ r.lost = FALSE
      BY <3>0 DEF Nowhere
    <3> QED
      BY <1>4, <3>0, <3>1, <3>4, <3>5
  <2>2. object' = [object EXCEPT ![i] = [Nowhere EXCEPT !.conn = Conn(i), !.expected = a]]
    BY <1>1, <1>2 DEF WorkerCreates
  <2> QED
    BY <1>1, <2>1, <2>2 DEF WorkerCreates, AlarmSet, AlarmTime, TokenTtl
<1>7. 8 \in -1 .. AlarmTime /\ 4 \in -1 .. TokenTtl
  BY DEF AlarmTime, TokenTtl
<1>8. /\ Typed' /\ object'[i] = o /\ alarm'[i] = 8 /\ ttl'[i] = 4
      /\ \A j \in Attempts : j # i =>
             object'[j] = object[j] /\ alarm'[j] = alarm[j] /\ ttl'[j] = ttl[j]
  BY <1>0, <1>3, <1>5, <1>6, <1>7, ObjectBecomes
<1>9. /\ \A j : (Begun(j)' <=> Begun(j)) /\ (Waits(j)' <=> Waits(j))
      /\ \A j, response : IsAnswer(j, response)' <=> IsAnswer(j, response)
      /\ \A j, channel, url : IsDial(j, channel, url)' <=> IsDial(j, channel, url)
      /\ \A phase : At(phase)' <=> At(phase)
      /\ client'.attempt = client.attempt /\ client'.asked = client.asked
      /\ client'.server = client.server /\ client'.left = client.left
  BY <1>0, NewsOfClient
<1>10. Choice'
  BY <1>0, <1>9 DEF Choice, Attempts
<1>11. ~Pending(i)' /\ \A j : j # i => (Pending(j)' <=> Pending(j))
  <2>1. \A n \in posted : n.attempt = i => n = m
    BY <1>0, <1>1 DEF OnTheWay
  <2> QED
    BY <1>0, <1>1, <2>1 DEF Pending
<1>12. OnTheWay'
  <2>1. \A n \in posted' : Begun(n.attempt)' /\ n.asked = client'.asked
                           /\ n.seen \in SeenAs[client'.server]
    BY <1>0, <1>9 DEF OnTheWay
  <2>2. \A n, p \in posted' : n.attempt = p.attempt => n = p
    BY <1>0 DEF OnTheWay
  <2>3. ASSUME NEW n \in answered'
        PROVE  Begun(n.attempt)' /\ ~Pending(n.attempt)' /\ IsAnswer(n.attempt, n.response)'
    <3>1. CASE n \in answered
      <4>1. Begun(n.attempt) /\ ~Pending(n.attempt) /\ IsAnswer(n.attempt, n.response)
        BY <1>0, <3>1 DEF OnTheWay
      <4> QED
        BY <1>9, <1>11, <4>1
    <3>2. CASE n \notin answered
      <4>1. PICK t : t = CreateResponse(m.seen, Pool[i], Conn(i), a, version)
        OBVIOUS
      <4>2. n = [attempt |-> i, response |-> t]
        BY <1>1, <1>2, <3>2, <4>1 DEF WorkerCreates
      <4>3. n.attempt = i /\ n.response = t
        BY <4>2
      <4>4. IsAnswer(i, t)
        BY <1>1, <1>2, <4>1 DEF IsAnswer
      <4> QED
        BY <1>2, <1>9, <1>11, <4>3, <4>4
    <3> QED
      BY <3>1, <3>2
  <2>4. \A d \in dialled' : Begun(d.attempt)' /\ ~Waits(d.attempt)'
                            /\ IsDial(d.attempt, d.channel, d.url)'
    BY <1>0, <1>9 DEF OnTheWay
  <2>5. \A r \in replies' : Begun(r.attempt)' /\ ~Waits(r.attempt)'
                            /\ r.channel \in All(AskedChannels(client'.asked))
    BY <1>0, <1>9 DEF OnTheWay
  <2> QED
    BY <2>1, <2>2, <2>3, <2>4, <2>5 DEF OnTheWay
<1>13. CASE i = client.attempt
  <2>1. ~At("connecting") /\ ~At("ready")
    BY <1>0, <1>2, <1>13 DEF Told
  <2>2. At("creating") => Standing(i)' /\ object'[i].up = {}
    <3>1. At("creating") => IsChannelCount(client.asked)
      BY <1>0 DEF Choice, At
    <3>2. At("creating") => a = client.asked
      BY <1>1, <3>1, AskedTypes
    <3> QED
      BY <1>5, <1>8, <1>9, <3>2 DEF Standing, Conn
  <2>3. client.left \in 0 .. 1
    BY <1>0 DEF Typed, IsClient
  <2>4. alarm'[i] >= 7 + client'.left /\ ttl'[i] >= 3 + client'.left
    BY <1>8, <1>9, <2>3
  <2>5. Timely'
    BY <1>9, <1>13, <2>1, <2>2, <2>4 DEF Timely
  <2>6. Told'
    BY <1>0, <1>9, <2>1 DEF Told
  <2> QED
    BY <1>8, <1>10, <1>12, <2>5, <2>6 DEF IInv
<1>14. CASE i # client.attempt
  <2>1. Pending(client.attempt)' <=> Pending(client.attempt)
    <3>1. PICK j : j = client.attempt
      OBVIOUS
    <3>2. Pending(j)' <=> Pending(j)
      BY <1>11, <1>14, <3>1
    <3> QED
      BY <1>9, <3>1, <3>2
  <2>2. client.attempt \in Attempts =>
            /\ object'[client.attempt] = object[client.attempt]
            /\ alarm'[client.attempt] = alarm[client.attempt]
            /\ ttl'[client.attempt] = ttl[client.attempt]
    BY <1>8, <1>14
  <2>3. Timely' /\ Told'
    BY <1>0, <2>1, <2>2, OtherObjects
  <2> QED
    BY <1>8, <1>10, <1>12, <2>3 DEF IInv
<1> QED
  BY <1>13, <1>14


\* What a channel connect does to the object: its channels only get more.
LEMMA ObjectConnects ==
    ASSUME Typed, NEW m, NEW seen \in SeenAs[client.server], NEW lag \in {0, 1},
           NEW i \in Attempts, m.attempt = i, IsDial(i, m.channel, m.url),
           client.server \in DOMAIN SeenAs, WorkerConnects(m, seen, lag)
    PROVE  \E o : /\ IsObject(o) /\ object' = [object EXCEPT ![i] = o]
                  /\ o.conn = object[i].conn /\ o.expected = object[i].expected
                  /\ o.lost = object[i].lost /\ object[i].up \subseteq o.up
<1>1. PICK w, channel, up : w = object[i] /\ channel = m.channel /\ up = w.up \cup {channel}
  OBVIOUS
<1>2. IsObject(w) /\ DOMAIN object = Attempts /\ object = [j \in Attempts |-> object[j]]
  BY <1>1 DEF Typed
<1>3. CASE object' = object
  <2>1. object' = [object EXCEPT ![i] = w]
    BY <1>1, <1>2, <1>3
  <2> QED
    BY <1>1, <1>2, <2>1
<1>4. CASE object' # object
  <2>0. ttl[i] \in Int
    BY DEF Typed
  <2>1. channel \in All(w.expected) /\ object' = [object EXCEPT ![i].up = @ \cup {m.channel}]
    BY <1>1, <1>4, <2>0, TakesExpected
  <2>2. PICK o : o = [w EXCEPT !.up = up]
    OBVIOUS
  <2>3. object' = [object EXCEPT ![i] = o]
    <3>1. object' = [object EXCEPT ![i] = [object[i] EXCEPT !.up = object[i].up \cup {m.channel}]]
      BY <2>1
    <3>2. [object[i] EXCEPT !.up = object[i].up \cup {m.channel}] = o
      BY <1>1, <2>2
    <3> QED
      BY <3>1, <3>2
  <2>4. o = [conn |-> w.conn, expected |-> w.expected, up |-> up, lost |-> w.lost]
    <3>1. w = [conn |-> w.conn, expected |-> w.expected, up |-> w.up, lost |-> w.lost]
      BY <1>2 DEF IsObject
    <3> QED
      BY <2>2, <3>1
  <2>5. /\ o.conn = w.conn /\ o.expected = w.expected /\ o.up = up /\ o.lost = w.lost
    BY <2>4
  <2>6. up \subseteq All(w.expected)
    BY <1>1, <1>2, <2>1 DEF IsObject
  <2>7. IsObject(o)
    <3>1. w.lost => w.conn = NoConn
      BY <1>2 DEF IsObject
    <3> QED
      BY <2>4, <2>5, <2>6, <3>1 DEF IsObject
  <2> QED
    BY <1>1, <2>3, <2>5, <2>7
<1> QED
  BY <1>3, <1>4

\* handleChannelConnect: the object stands as it stood, and what the client hears of it
\* is true.
LEMMA ConnectsKeeps ==
    ASSUME IInv, NEW m \in dialled, NEW seen \in SeenAs[client.server], NEW lag \in {0, 1},
           WorkerConnects(m, seen, lag)
    PROVE  IInv'
<1>0. /\ Typed /\ Choice /\ OnTheWay /\ Timely /\ Told /\ dialled' = dialled \ {m}
      /\ UNCHANGED client /\ UNCHANGED <<client, open>>
      /\ UNCHANGED <<client, open, posted, answered, ttl>>
  BY DEF WorkerConnects, IInv
<1>1. PICK i, channel : i = m.attempt /\ channel = m.channel
  OBVIOUS
<1>2. Begun(i) /\ ~Waits(i) /\ IsDial(i, channel, m.url) /\ IsDial(i, m.channel, m.url)
  BY <1>0, <1>1 DEF OnTheWay
<1>3. i \in Attempts
  BY <1>0, <1>2, BegunAttempts
<1>4. client.server \in DOMAIN SeenAs /\ IsChannelCount(client.asked)
  BY <1>0, <1>2 DEF Begun, Choice
<1>5. PICK o : /\ IsObject(o) /\ object' = [object EXCEPT ![i] = o]
               /\ o.conn = object[i].conn /\ o.expected = object[i].expected
               /\ o.lost = object[i].lost /\ object[i].up \subseteq o.up
  BY <1>0, <1>1, <1>2, <1>3, <1>4, ObjectConnects
<1>6. PICK a \in -1 .. AlarmTime :
          /\ alarm' = [alarm EXCEPT ![i] = a] /\ (a = alarm[i] \/ o.up = All(o.expected))
  <2>1. alarm \in [Attempts -> -1 .. AlarmTime] /\ object'[i] = o /\ -1 \in -1 .. AlarmTime
    BY <1>0, <1>3, <1>5 DEF Typed, AlarmTime
  <2>2. CASE alarm' = alarm
    <3>1. alarm' = [alarm EXCEPT ![i] = alarm[i]] /\ alarm[i] \in -1 .. AlarmTime
      BY <1>3, <2>1, <2>2
    <3> QED
      BY <3>1
  <2>3. CASE alarm' # alarm
    <3>1. alarm' = [alarm EXCEPT ![i] = -1] /\ object'[i].up = All(object[i].expected)
      BY <1>1, <2>3 DEF WorkerConnects
    <3> QED
      BY <1>5, <2>1, <3>1
  <2> QED
    BY <2>2, <2>3
<1>7. PICK t \in -1 .. TokenTtl : t = ttl[i] /\ ttl' = [ttl EXCEPT ![i] = t]
  BY <1>0, <1>3 DEF Typed
<1>8. /\ Typed' /\ object'[i] = o /\ alarm'[i] = a /\ ttl'[i] = t
      /\ \A j \in Attempts : j # i =>
             object'[j] = object[j] /\ alarm'[j] = alarm[j] /\ ttl'[j] = ttl[j]
  <2>1. object' = [object EXCEPT ![i] = o] /\ IsObject(o)
    BY <1>5
  <2>2. alarm' = [alarm EXCEPT ![i] = a] /\ ttl' = [ttl EXCEPT ![i] = t]
    BY <1>6, <1>7
  <2>3. Typed /\ UNCHANGED client
    BY <1>0
  <2> QED
    BY <1>3, <2>1, <2>2, <2>3, ObjectBecomes
<1>9. /\ \A j : (Begun(j)' <=> Begun(j)) /\ (Waits(j)' <=> Waits(j))
      /\ \A j, response : IsAnswer(j, response)' <=> IsAnswer(j, response)
      /\ \A j, c, url : IsDial(j, c, url)' <=> IsDial(j, c, url)
      /\ \A phase : At(phase)' <=> At(phase)
      /\ client'.attempt = client.attempt /\ client'.asked = client.asked
      /\ client'.server = client.server /\ client'.left = client.left
      /\ client'.tunnel = client.tunnel
  BY <1>0, NewsOfClient
<1>10. Choice'
  BY <1>0, <1>9 DEF Choice, Attempts
<1>11. \A j : Pending(j)' <=> Pending(j)
  BY <1>0 DEF Pending
<1>12. PICK ok : replies' = replies \cup {[attempt |-> i, channel |-> channel, ok |-> ok]}
  BY <1>1 DEF WorkerConnects
<1>13. ASSUME NEW r \in replies', r \notin replies
       PROVE  r = [attempt |-> i, channel |-> channel, ok |-> ok]
              /\ r.attempt = i /\ r.channel = channel /\ r.ok = ok
  <2>1. r = [attempt |-> i, channel |-> channel, ok |-> ok]
    BY <1>12, <1>13
  <2> QED
    BY <2>1
<1>14. OnTheWay'
  <2>1. \A n \in posted' : Begun(n.attempt)' /\ n.asked = client'.asked
                           /\ n.seen \in SeenAs[client'.server]
    BY <1>0, <1>9 DEF OnTheWay
  <2>2. \A n, p \in posted' : n.attempt = p.attempt => n = p
    BY <1>0 DEF OnTheWay
  <2>3. \A n \in answered' : Begun(n.attempt)' /\ ~Pending(n.attempt)'
                             /\ IsAnswer(n.attempt, n.response)'
    BY <1>0, <1>9, <1>11 DEF OnTheWay
  <2>4. \A d \in dialled' : Begun(d.attempt)' /\ ~Waits(d.attempt)'
                            /\ IsDial(d.attempt, d.channel, d.url)'
    BY <1>0, <1>9 DEF OnTheWay
  <2>5. ASSUME NEW r \in replies'
        PROVE  Begun(r.attempt)' /\ ~Waits(r.attempt)'
               /\ r.channel \in All(AskedChannels(client'.asked))
    <3>1. CASE r \in replies
      <4>1. Begun(r.attempt) /\ ~Waits(r.attempt) /\ r.channel \in All(AskedChannels(client.asked))
        BY <1>0, <3>1 DEF OnTheWay
      <4> QED
        BY <1>9, <4>1
    <3>2. CASE r \notin replies
      <4>1. r.attempt = i /\ r.channel = channel
        BY <1>13, <3>2
      <4>2. channel \in All(AskedChannels(client.asked))
        BY <1>2 DEF IsDial
      <4> QED
        BY <1>2, <1>9, <4>1, <4>2
    <3> QED
      BY <3>1, <3>2
  <2> QED
    BY <2>1, <2>2, <2>3, <2>4, <2>5 DEF OnTheWay
<1>15. CASE i # client.attempt
  <2>1. \A r \in replies' : r.attempt = client.attempt => r \in replies
    BY <1>13, <1>15
  <2>2. client.attempt \in Attempts =>
            /\ object'[client.attempt] = object[client.attempt]
            /\ alarm'[client.attempt] = alarm[client.attempt]
            /\ ttl'[client.attempt] = ttl[client.attempt]
    BY <1>8, <1>15
  <2>3. Pending(client.attempt)' <=> Pending(client.attempt)
    BY <1>0 DEF Pending
  <2>4. Timely' /\ Told'
    BY <1>0, <2>1, <2>2, <2>3, OtherObjects
  <2> QED
    BY <1>8, <1>10, <1>14, <2>4 DEF IInv
<1>16. CASE i = client.attempt
  <2>1. ~At("creating")
    BY <1>2, <1>16 DEF Waits
  <2>2. object'[i].lost = object[i].lost /\ (Standing(i)' <=> Standing(i))
    BY <1>5, <1>8, <1>9 DEF Standing, Conn
  <2>3. o.up \subseteq All(o.expected)
    BY <1>5 DEF IsObject
  <2>4. Standing(i) => o.expected = client.asked
    BY <1>5 DEF Standing
  <2>5. Standing(i) /\ Complete(i) => Complete(i)'
    <3>1. Standing(i) /\ Complete(i) => o.up = All(client.asked)
      BY <1>5, <2>3, <2>4 DEF Complete
    <3> QED
      BY <1>8, <1>9, <3>1 DEF Complete
  <2>6. Standing(i) /\ alarm'[i] # alarm[i] => Complete(i)'
    BY <1>6, <1>8, <1>9, <2>4 DEF Complete
  <2>7. Timely'
    <3>1. At("connecting") =>
             /\ ttl[i] >= 2 + client.left
             /\ object[i].lost \/ (Standing(i) /\ (alarm[i] >= 6 + client.left \/ Complete(i)))
      BY <1>0, <1>16 DEF Timely
    <3>2. At("connecting") =>
             /\ ttl'[i] >= 2 + client.left
             /\ object'[i].lost \/ (Standing(i)' /\ (alarm'[i] >= 6 + client.left \/ Complete(i)'))
      BY <1>7, <1>8, <2>2, <2>5, <2>6, <3>1
    <3>3. At("ready") => object'[i].lost \/ (Standing(i)' /\ Complete(i)')
      BY <1>0, <1>16, <2>2, <2>5 DEF Timely
    <3> QED
      BY <1>9, <1>16, <2>1, <3>2, <3>3 DEF Timely
  <2>8. ASSUME At("connecting"), NEW r \in replies', r.attempt = i
        PROVE  object'[i].lost \/ (r.ok /\ r.channel \in object'[i].up)
    <3>1. CASE r \in replies
      <4>1. object[i].lost \/ (r.ok /\ r.channel \in object[i].up)
        BY <1>0, <1>16, <2>8, <3>1 DEF Told
      <4> QED
        BY <1>5, <1>8, <2>2, <4>1
    <3>2. CASE r \notin replies /\ ~object[i].lost
      <4>1. Standing(i) /\ ttl[i] >= 2 + client.left /\ client.left \in 0 .. 1 /\ ttl[i] \in Int
        BY <1>0, <1>3, <1>16, <2>8, <3>2 DEF Timely, Typed, IsClient
      <4>2. ttl[i] >= 2
        BY <4>1
      <4>3. /\ replies' = replies \cup {[attempt |-> i, channel |-> m.channel, ok |-> TRUE]}
            /\ object' = [object EXCEPT ![i].up = @ \cup {m.channel}]
        <5>1. m.attempt = i /\ IsDial(i, m.channel, m.url) /\ Standing(i)
          BY <1>1, <1>2, <4>1
        <5>2. ttl[i] \in Int /\ ttl[i] >= 2
          BY <4>1, <4>2
        <5> QED
          BY <1>3, <1>4, <5>1, <5>2, ConnectIsTaken
      <4>4. r = [attempt |-> i, channel |-> channel, ok |-> TRUE]
        BY <1>1, <3>2, <4>3
      <4>5. r.ok /\ r.channel = channel
        BY <4>4
      <4>6. channel \in object'[i].up
        <5>1. DOMAIN object = Attempts /\ IsObject(object[i])
          BY <1>0, <1>3 DEF Typed
        <5>2. object'[i] = [object[i] EXCEPT !.up = object[i].up \cup {channel}]
          BY <1>1, <1>3, <4>3, <5>1
        <5>3. object'[i].up = object[i].up \cup {channel}
          BY <5>1, <5>2 DEF IsObject
        <5> QED
          BY <5>3
      <4> QED
        BY <4>5, <4>6
    <3> QED
      BY <2>2, <3>1, <3>2
  <2>9. Told'
    <3>1. At("connecting") \/ At("ready") =>
             /\ ~Pending(i) /\ IsAnswer(i, client.tunnel)
             /\ open \subseteq All(client.asked)
             /\ object[i].lost \/ open \subseteq object[i].up
      BY <1>0, <1>16 DEF Told
    <3>2. At("connecting") \/ At("ready") => IsAnswer(client.attempt, client.tunnel)'
      <4>1. PICK tunnel : tunnel = client.tunnel
        OBVIOUS
      <4>2. client'.tunnel = tunnel /\ client'.attempt = i
        BY <1>0, <1>16, <4>1
      <4>3. At("connecting") \/ At("ready") => IsAnswer(i, tunnel)'
        BY <1>9, <3>1, <4>1
      <4> QED
        BY <4>2, <4>3
    <3>3. At("connecting") \/ At("ready") =>
             /\ ~Pending(i)' /\ open' \subseteq All(client'.asked)
             /\ object'[i].lost \/ open' \subseteq object'[i].up
      BY <1>0, <1>5, <1>8, <1>9, <1>11, <2>2, <3>1
    <3>4. ~At("connecting") /\ ~At("ready") => open' = {}
      BY <1>0 DEF Told
    <3> QED
      BY <1>9, <1>16, <2>8, <3>2, <3>3, <3>4 DEF Told
  <2> QED
    BY <1>8, <1>10, <1>14, <2>7, <2>9 DEF IInv
<1> QED
  BY <1>15, <1>16


\* failClientConnection: the object loses a channel, or its alarm rings.
LEMMA DropsKeeps ==
    ASSUME IInv, NEW i \in Attempts, ObjectFails(i) \/ AlarmRings(i)
    PROVE  IInv'
<1>0. /\ Typed /\ Choice /\ OnTheWay /\ Timely /\ Told
      /\ UNCHANGED client /\ UNCHANGED <<client, open>>
      /\ UNCHANGED <<client, open, posted, answered, dialled, replies, ttl>>
  BY DEF ObjectFails, AlarmRings, Dropped, wire, IInv
<1>1. PICK lost \in BOOLEAN :
          /\ object' = [object EXCEPT ![i] = [Nowhere EXCEPT !.lost = lost]]
          /\ alarm' = [alarm EXCEPT ![i] = -1]
          /\ lost \/ AlarmRings(i)
  BY DEF ObjectFails, AlarmRings, Dropped
<1>2. PICK w, o : w = Nowhere /\ o = [w EXCEPT !.lost = lost]
  OBVIOUS
<1>3. IsObject(o) /\ o.lost = lost
  <2>1. w = [conn |-> w.conn, expected |-> w.expected, up |-> w.up, lost |-> w.lost]
        /\ w.up = {} /\ w.conn = NoConn
    BY <1>2 DEF Nowhere
  <2>2. o = [conn |-> w.conn, expected |-> w.expected, up |-> w.up, lost |-> lost]
    BY <1>2, <2>1
  <2>3. o.conn = NoConn /\ o.expected = w.expected /\ o.up = {} /\ o.lost = lost
    BY <2>1, <2>2
  <2> QED
    BY <2>1, <2>2, <2>3 DEF IsObject
<1>4. PICK t \in -1 .. TokenTtl : t = ttl[i] /\ ttl' = [ttl EXCEPT ![i] = t]
  BY <1>0 DEF Typed
<1>5. /\ Typed' /\ object'[i] = o /\ alarm'[i] = -1 /\ ttl'[i] = t
      /\ \A j \in Attempts : j # i =>
             object'[j] = object[j] /\ alarm'[j] = alarm[j] /\ ttl'[j] = ttl[j]
  <2>1. object' = [object EXCEPT ![i] = o] /\ IsObject(o)
    BY <1>1, <1>2, <1>3
  <2>2. alarm' = [alarm EXCEPT ![i] = -1] /\ ttl' = [ttl EXCEPT ![i] = t]
        /\ -1 \in -1 .. AlarmTime
    BY <1>1, <1>4 DEF AlarmTime
  <2>3. Typed /\ UNCHANGED client
    BY <1>0
  <2> QED
    BY <2>1, <2>2, <2>3, ObjectBecomes
<1>6. /\ \A phase : At(phase)' <=> At(phase)
      /\ client'.attempt = client.attempt /\ client'.asked = client.asked
      /\ client'.server = client.server /\ client'.left = client.left
  BY <1>0, NewsOfClient
<1>7. Choice'
  BY <1>0, <1>6 DEF Choice, Attempts
<1>8. OnTheWay'
  <2>1. posted' = posted /\ answered' \subseteq answered /\ dialled' \subseteq dialled
        /\ replies' \subseteq replies /\ (At("creating")' => At("creating"))
    BY <1>0, <1>6
  <2> QED
    BY <1>0, <1>6, <2>1, MessagesStay
<1>9. Pending(client.attempt)' <=> Pending(client.attempt)
  BY <1>0 DEF Pending
<1>10. CASE i # client.attempt
  <2>1. \A r \in replies' : r.attempt = client.attempt => r \in replies
    BY <1>0
  <2>2. client.attempt \in Attempts =>
            /\ object'[client.attempt] = object[client.attempt]
            /\ alarm'[client.attempt] = alarm[client.attempt]
            /\ ttl'[client.attempt] = ttl[client.attempt]
    BY <1>5, <1>10
  <2>3. Timely' /\ Told'
    BY <1>0, <1>9, <2>1, <2>2, OtherObjects
  <2> QED
    BY <1>5, <1>7, <1>8, <2>3 DEF IInv
<1>11. CASE i = client.attempt
  <2>0. client.left \in 0 .. 1 /\ IsObject(object[i]) /\ alarm[i] \in -1 .. AlarmTime
    BY <1>0 DEF Typed, IsClient
  <2>1. At("creating") => Pending(i)
    <3>1. At("creating") /\ ~Pending(i) => object[i].up = {} /\ alarm[i] >= 7 + client.left
      BY <1>0, <1>11 DEF Timely
    <3>2. At("creating") /\ ~Pending(i) => object[i].up = {} /\ alarm[i] # 0
      BY <2>0, <3>1 DEF AlarmTime
    <3> QED
      BY <3>2 DEF ObjectFails, AlarmRings
  <2>2. At("connecting") \/ At("ready") => lost
    <3>1. SUFFICES ASSUME At("connecting") \/ At("ready"), AlarmRings(i) PROVE FALSE
      BY <1>1
    <3>2. alarm[i] = 0 /\ object[i].conn # NoConn /\ object[i].up # All(object[i].expected)
      BY <3>1 DEF AlarmRings, Alive, Ready
    <3>3. ~object[i].lost
      BY <2>0, <3>2 DEF IsObject
    <3>4. Standing(i) /\ (alarm[i] >= 6 + client.left \/ Complete(i))
      BY <1>0, <1>11, <3>1, <3>3 DEF Timely
    <3>5. Complete(i)
      BY <2>0, <3>2, <3>4
    <3> QED
      BY <3>2, <3>4, <3>5 DEF Standing, Complete
  <2>3. Timely'
    <3>1. At("connecting") => ttl[i] >= 2 + client.left
      BY <1>0, <1>11 DEF Timely
    <3>2. At("connecting") \/ At("ready") => object'[i].lost
      BY <1>3, <1>5, <2>2
    <3> QED
      BY <1>0, <1>6, <1>9, <1>11, <2>1, <3>1, <3>2 DEF Timely
  <2>4. Told'
    <3>1. At("connecting") \/ At("ready") => object'[i].lost
      BY <1>3, <1>5, <2>2
    <3>2. IsAnswer(client.attempt, client.tunnel)' <=> IsAnswer(client.attempt, client.tunnel)
      BY <1>0 DEF IsAnswer
    <3> QED
      BY <1>0, <1>6, <1>9, <1>11, <3>1, <3>2 DEF Told
  <2> QED
    BY <1>5, <1>7, <1>8, <2>3, <2>4 DEF IInv
<1> QED
  BY <1>10, <1>11

\* Time passes for all alike, and the client gives up in time.
LEMMA TickKeeps == IInv /\ Tick => IInv'
<1> SUFFICES ASSUME IInv, Tick PROVE IInv'
  OBVIOUS
<1>0. /\ Typed /\ Choice /\ OnTheWay /\ Timely /\ Told /\ IsClient(client)
      /\ UNCHANGED <<open, posted, answered, dialled, replies, object>>
      /\ alarm \in [Attempts -> -1 .. AlarmTime] /\ ttl \in [Attempts -> -1 .. TokenTtl]
  BY DEF Tick, wire, IInv, Typed
<1>1. PICK left \in 0 .. 1 :
          /\ client' = [phase |-> client.phase, server |-> client.server, asked |-> client.asked,
                        attempt |-> client.attempt, tunnel |-> client.tunnel, left |-> left,
                        again |-> client.again, stopped |-> client.stopped]
          /\ At("creating") \/ At("connecting") => left = client.left - 1
  <2>1. CASE client.left > 0
    <3>1. PICK left : left = client.left - 1
      OBVIOUS
    <3>2. client' = [client EXCEPT !.left = left]
      BY <2>1, <3>1 DEF Tick
    <3>3. left \in 0 .. 1
      BY <1>0, <2>1, <3>1 DEF IsClient
    <3>4. client' = [phase |-> client.phase, server |-> client.server, asked |-> client.asked,
                     attempt |-> client.attempt, tunnel |-> client.tunnel, left |-> left,
                     again |-> client.again, stopped |-> client.stopped]
      BY <1>0, <3>2 DEF IsClient
    <3> QED
      BY <3>1, <3>3, <3>4
  <2>2. CASE ~(client.left > 0)
    <3>1. client' = client /\ ~At("creating") /\ ~At("connecting")
      BY <2>2 DEF Tick, At
    <3>2. client.left \in 0 .. 1
      BY <1>0 DEF IsClient
    <3> QED
      BY <1>0, <3>1, <3>2 DEF IsClient
  <2> QED
    BY <2>1, <2>2
<1>2. /\ client'.phase = client.phase /\ client'.server = client.server
      /\ client'.asked = client.asked /\ client'.attempt = client.attempt
      /\ client'.tunnel = client.tunnel /\ client'.left = left
      /\ client'.again = client.again /\ client'.stopped = client.stopped
  BY <1>1
<1>3. \A phase : At(phase)' <=> At(phase)
  BY <1>2 DEF At
<1>4. /\ alarm' \in [Attempts -> -1 .. AlarmTime] /\ ttl' \in [Attempts -> -1 .. TokenTtl]
      /\ \A i \in Attempts : /\ alarm'[i] >= alarm[i] - 1
                             /\ ttl[i] >= 0 => ttl'[i] = ttl[i] - 1
  <2>1. /\ alarm' = [i \in Attempts |-> IF alarm[i] > 0 THEN alarm[i] - 1 ELSE alarm[i]]
        /\ ttl' = [i \in Attempts |-> IF ttl[i] < 0 THEN ttl[i] ELSE ttl[i] - 1]
    BY DEF Tick, Less
  <2>2. \A i \in Attempts : alarm[i] \in -1 .. 8 /\ ttl[i] \in -1 .. 4
    BY <1>0 DEF AlarmTime, TokenTtl
  <2>3. \A i \in Attempts : /\ alarm'[i] \in -1 .. 8 /\ alarm'[i] >= alarm[i] - 1
    BY <2>1, <2>2
  <2>4. \A i \in Attempts : /\ ttl'[i] \in -1 .. 4 /\ (ttl[i] >= 0 => ttl'[i] = ttl[i] - 1)
    BY <2>1, <2>2
  <2> QED
    BY <2>1, <2>3, <2>4 DEF AlarmTime, TokenTtl
<1>5. Typed'
  <2>1. IsClient(client')
    BY <1>0, <1>1, <1>2 DEF IsClient
  <2> QED
    BY <1>0, <1>4, <2>1 DEF Typed, Attempts, IsObject, IsClient
<1>6. Choice'
  BY <1>0, <1>2, <1>3 DEF Choice, Attempts
<1>7. OnTheWay'
  <2>1. posted' = posted /\ answered' \subseteq answered /\ dialled' \subseteq dialled
        /\ replies' \subseteq replies /\ (At("creating")' => At("creating"))
    BY <1>0, <1>3
  <2> QED
    BY <1>0, <1>2, <2>1, MessagesStay
<1>8. PICK i : i = client.attempt
  OBVIOUS
<1>9. /\ client'.attempt = i /\ (Pending(i)' <=> Pending(i)) /\ (Standing(i)' <=> Standing(i))
      /\ (Complete(i)' <=> Complete(i)) /\ object'[i] = object[i]
  BY <1>0, <1>2, <1>8 DEF Pending, Standing, Complete
<1>10. Timely'
  <2>1. CASE At("creating") \/ At("connecting")
    <3>1. i \in Attempts /\ left = client.left - 1 /\ client.left \in 0 .. 1
      BY <1>0, <1>1, <1>8, <2>1 DEF Choice, IsClient
    <3>2. /\ alarm[i] \in Int /\ ttl[i] \in Int /\ alarm'[i] \in Int /\ ttl'[i] \in Int
          /\ alarm'[i] >= alarm[i] - 1 /\ (ttl[i] >= 0 => ttl'[i] = ttl[i] - 1)
      BY <1>0, <1>4, <3>1
    <3>3. At("creating") /\ ~Pending(i) =>
             /\ Standing(i) /\ object[i].up = {}
             /\ alarm'[i] >= 7 + left /\ ttl'[i] >= 3 + left
      BY <1>0, <1>8, <3>1, <3>2 DEF Timely
    <3>4. At("connecting") =>
             /\ ttl[i] >= 2 + client.left
             /\ object[i].lost \/ (Standing(i) /\ (alarm[i] >= 6 + client.left \/ Complete(i)))
      BY <1>0, <1>8 DEF Timely
    <3>5. At("connecting") =>
             /\ ttl'[i] >= 2 + left
             /\ object[i].lost \/ (Standing(i) /\ (alarm'[i] >= 6 + left \/ Complete(i)))
      BY <3>1, <3>2, <3>4
    <3>6. ~At("ready")
      BY <2>1 DEF At
    <3> QED
      BY <1>2, <1>3, <1>8, <1>9, <3>3, <3>5, <3>6 DEF Timely
  <2>2. CASE ~At("creating") /\ ~At("connecting")
    <3>1. At("ready") => object[i].lost \/ (Standing(i) /\ Complete(i))
      BY <1>0, <1>8 DEF Timely
    <3> QED
      BY <1>3, <1>9, <2>2, <3>1 DEF Timely
  <2> QED
    BY <2>1, <2>2
<1>11. Told'
  <2>1. IsAnswer(client.attempt, client.tunnel)' <=> IsAnswer(client.attempt, client.tunnel)
    <3>1. \A j, response : IsAnswer(j, response)' <=> IsAnswer(j, response)
      BY <1>2, SameSays
    <3>2. PICK tunnel : tunnel = client.tunnel
      OBVIOUS
    <3>3. IsAnswer(i, tunnel)' <=> IsAnswer(i, tunnel)
      BY <3>1
    <3> QED
      BY <1>2, <1>8, <3>2, <3>3
  <2> QED
    BY <1>0, <1>2, <1>3, <1>8, <1>9, <2>1 DEF Told
<1> QED
  BY <1>5, <1>6, <1>7, <1>10, <1>11 DEF IInv


\* Whatever happens next.
LEMMA NextKeeps == IInv /\ [Next]_vars => IInv'
<1> SUFFICES ASSUME IInv, [Next]_vars PROVE IInv'
  OBVIOUS
<1>1. CASE UNCHANGED vars
  BY <1>1, ElsewhereKeeps DEF vars
<1>2. CASE Edit
  <2>1. UNCHANGED <<client, open, wire, tunnels>>
    BY <1>2 DEF Edit, EditorReads, EditorOpens, EditorWrites, EditorRenames, EditorDies, Editing
  <2> QED
    BY <2>1, ElsewhereKeeps
<1>3. ASSUME NEW server \in DOMAIN SeenAs, NEW flag \in Flags, Resolves(server, flag) PROVE IInv'
  BY <1>3, ResolvesKeeps
<1>4. ASSUME NEW seen, Posts(seen) PROVE IInv'
  BY <1>4, PostsKeeps
<1>5. ASSUME NEW m \in answered, CreateAnswered(m) PROVE IInv'
  BY <1>5, CreateAnsweredKeeps
<1>6. ASSUME NEW r \in replies, ConnectAnswered(r) PROVE IInv'
  BY <1>6, ConnectAnsweredKeeps
<1>7. CASE TimesOut \/ Breaks \/ Stops
  BY <1>7, GivingUpKeeps
<1>8. ASSUME NEW m \in posted, NEW version \in Versions, WorkerCreates(m, version) PROVE IInv'
  BY <1>8, WorkerCreatesKeeps
<1>9. CASE Connects
  <2>1. PICK m \in dialled : \E seen \in SeenAs[client.server], lag \in {0, 1} :
                                 WorkerConnects(m, seen, lag)
    BY <1>9 DEF Connects
  <2>2. PICK seen \in SeenAs[client.server], lag \in {0, 1} : WorkerConnects(m, seen, lag)
    BY <2>1
  <2> QED
    BY <2>2, ConnectsKeeps
<1>10. ASSUME NEW i \in Attempts, ObjectFails(i) \/ AlarmRings(i) PROVE IInv'
  BY <1>10, DropsKeeps
<1>11. CASE Tick
  BY <1>11, TickKeeps
<1> QED
  BY <1>1, <1>2, <1>3, <1>4, <1>5, <1>6, <1>7, <1>8, <1>9, <1>10, <1>11 DEF Next

\* The invariant of client, object and clock holds initially.
LEMMA TunnelInitially == Init => IInv
<1> SUFFICES ASSUME Init PROVE IInv
  OBVIOUS
<1>1. client = [phase |-> "idle", server |-> NoHost, asked |-> 0, attempt |-> 0,
                tunnel |-> NoHost, left |-> 0, again |-> FALSE, stopped |-> FALSE]
  BY DEF Init
<1>2. /\ client.phase = "idle" /\ client.attempt = 0 /\ client.left = 0
      /\ client = [phase |-> client.phase, server |-> client.server, asked |-> client.asked,
                   attempt |-> client.attempt, tunnel |-> client.tunnel, left |-> client.left,
                   again |-> client.again, stopped |-> client.stopped]
  BY <1>1
<1>3. IsClient(client)
  <2>1. Len(Pool) \in Nat
    BY PoolAssumption
  <2> QED
    BY <1>2, <2>1 DEF IsClient, Phases
<1>4. IsObject(Nowhere)
  BY DEF IsObject, Nowhere
<1>5. DOMAIN object = Attempts /\ object = [i \in Attempts |-> object[i]]
      /\ \A i \in Attempts : IsObject(object[i])
  <2>1. PICK w : w = Nowhere /\ IsObject(w)
    BY <1>4
  <2>2. object = [i \in Attempts |-> w]
    BY <2>1 DEF Init
  <2> QED
    BY <2>1, <2>2
<1>6. Typed
  <2>1. alarm \in [Attempts -> -1 .. AlarmTime] /\ ttl \in [Attempts -> -1 .. TokenTtl]
    BY DEF Init, AlarmTime, TokenTtl
  <2> QED
    BY <1>3, <1>5, <2>1 DEF Typed
<1>7. ~At("creating") /\ ~At("connecting") /\ ~At("ready") /\ At("idle")
  BY <1>2 DEF At
<1>8. Choice
  BY <1>2, <1>7 DEF Choice
<1>9. OnTheWay
  BY DEF Init, OnTheWay
<1>10. Timely /\ Told
  <2>1. open = {}
    BY DEF Init
  <2> QED
    BY <1>7, <2>1 DEF Timely, Told
<1> QED
  BY <1>6, <1>8, <1>9, <1>10 DEF IInv

\* The inductive invariant: what the client asked for, what is on its way, and how much
\* time the client, the token and the alarm still have.
THEOREM TunnelInvariant == Spec => []IInv
  BY TunnelInitially, NextKeeps, PTL DEF Spec

\* Nothing refuses a data channel that the client dials and still waits for: the token
\* lasts longer than the timeouts of a create request and of a connect together, the
\* alarm longer still, and the host that the client dials is where the Worker has its API
\* (CONNECT_TOKEN_TTL_SECONDS, tunnel-api.ts, socket.ts, rewriteLocalDataUrl).
THEOREM ConnectsAccepted == Spec => []ConnectsAreAccepted
<1>1. IInv => ConnectsAreAccepted
  BY DEF IInv, Told, ConnectsAreAccepted
<1> QED
  BY <1>1, TunnelInvariant, PTL

\* A client that is ready announces a URL that leads to the object of its tunnel, which has
\* all the channels it asked for until it loses one (classifyHost, buildPublicUrl).
THEOREM ReadyReachable == Spec => []ReadyIsReachable
<1>1. IInv => ReadyIsReachable
  <2> SUFFICES ASSUME IInv, At("ready") PROVE ReadyIsReachable
    BY DEF ReadyIsReachable
  <2>1. PICK i : i = client.attempt
    OBVIOUS
  <2>2. i \in Attempts /\ IsChannelCount(client.asked) /\ IsAnswer(i, client.tunnel)
    BY <2>1 DEF IInv, Choice, Told, At
  <2>3. client.tunnel.channels = client.asked /\ client.tunnel.publicUrl.host = PublicHost(Pool[i])
    BY <2>2, AnswersSay
  <2>4. Pool[i] \in STRING \ {"api", "www"}
    BY <2>2, PoolAssumption DEF Attempts
  <2>5. PICK tunnel : tunnel = Pool[i]
    OBVIOUS
  <2>6. EffectiveRoute(PublicHost(tunnel), NoHost) = [kind |-> "tunnel", tunnel |-> tunnel]
    BY <2>4, <2>5, PublicHostIsTunnel
  <2>7. EffectiveRoute(client.tunnel.publicUrl.host, NoHost) = [kind |-> "tunnel", tunnel |-> Pool[i]]
    BY <2>3, <2>5, <2>6
  <2>8. ~object[i].lost => object[i].up = All(client.asked) /\ Ready(i)
    <3>1. ~object[i].lost => Standing(i) /\ Complete(i)
      BY <2>1 DEF IInv, Timely
    <3>2. Conn(i) # NoConn
      BY DEF Conn, NoConn
    <3> QED
      BY <3>1, <3>2 DEF Standing, Complete, Ready, Alive
  <2> QED
    BY <2>1, <2>3, <2>7, <2>8 DEF ReadyIsReachable
<1> QED
  BY <1>1, TunnelInvariant, PTL

\* Every variable keeps its kind of value.
THEOREM TypeCorrect == Spec => []TypeOK
<1>1. ConfigInv /\ IInv => TypeOK
  <2> SUFFICES ASSUME ConfigInv, IInv PROVE TypeOK
    OBVIOUS
  <2>1. file \in Stored \cup (Edits \ {Keep}) \cup {Torn}
    BY DEF ConfigInv, Fit
  <2>2. client.attempt \in 0 .. Len(Pool) /\ client.left \in 0 .. CreateTimeout
    BY DEF IInv, Typed, IsClient, CreateTimeout
  <2>3. open \subseteq All(MaxChannels)
    <3>1. CASE open = {}
      BY <3>1
    <3>2. CASE open # {}
      <4>1. open \subseteq All(client.asked) /\ IsChannelCount(client.asked)
        BY <3>2 DEF IInv, Told, Choice, At
      <4>2. client.asked \in Int /\ client.asked <= MaxChannels
        BY <4>1, SafeAssumption DEF IsChannelCount
      <4>3. All(client.asked) \subseteq All(MaxChannels)
        BY <4>2, SafeAssumption DEF All
      <4> QED
        BY <4>1, <4>3
    <3> QED
      BY <3>1, <3>2
  <2>4. \A i \in Attempts : alarm[i] \in -1 .. AlarmTime /\ ttl[i] \in -1 .. TokenTtl
    BY DEF IInv, Typed
  <2>5. \A i \in Attempts : object[i].up \subseteq All(object[i].expected)
    BY DEF IInv, Typed, IsObject
  <2> QED
    BY <2>1, <2>2, <2>3, <2>4, <2>5 DEF TypeOK
<1> QED
  BY <1>1, Always, TunnelInvariant, PTL
===============================================================================
