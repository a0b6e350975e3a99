---------------------------- MODULE ComposeProofs ----------------------------
(***************************************************************************)
(* Proofs about SelurCompose, for any command lines, files, environments    *)
(* and host, any number of concurrent commands, and failures at any call.   *)
(* First: whatever is read, the steps of a command are operations.          *)
(***************************************************************************)
EXTENDS InterpProofs

-----------------------------------------------------------------------------
(* Reading a file: what can be read keeps the types of the schema.          *)
\* An expansion: which texts it can read, and what it makes of those.
Always == [t \in Text |-> TRUE]
Reader(k, y) == \A t \in Text : k[t] = TRUE => y[t] \in Text

\* A function over an option answers an option, empty when that is.
LEMMA OptionMapped ==
    ASSUME NEW T, NEW q \in Option(T), NEW S, NEW f, f \in [DOMAIN q -> S]
    PROVE  f \in Option(S) /\ (f = <<>> <=> q = <<>>)
<1>1. q \in Seq(T) /\ Len(q) <= 1 BY DEF Option
<1>2. f \in Seq(S) /\ DOMAIN f = DOMAIN q BY <1>1, IsSequence
<1>3. Len(f) = Len(q)
  <2>1. DOMAIN f = 1..Len(f) /\ Len(f) \in Nat BY <1>2
  <2>2. DOMAIN q = 1..Len(q) /\ Len(q) \in Nat BY <1>1
  <2>. DEFINE a == Len(f)  b == Len(q)
  <2>3. a \in Nat /\ b \in Nat /\ 1..a = 1..b BY <1>2, <2>1, <2>2
  <2>. HIDE DEF a, b
  <2>4. a = b
    <3>1. CASE a > b
      <4>1. a \in 1..a /\ a \notin 1..b BY <2>3, <3>1
      <4>. QED BY <4>1, <2>3
    <3>2. CASE b > a
      <4>1. b \in 1..b /\ b \notin 1..a BY <2>3, <3>2
      <4>. QED BY <4>1, <2>3
    <3>. QED BY <2>3, <3>1, <3>2
  <2>. QED BY <2>4 DEF a, b
<1>4. f = <<>> <=> Len(f) = 0 BY <1>2, EmptySeq
<1>5. q = <<>> <=> Len(q) = 0 BY <1>1, EmptySeq
<1>6. f \in Option(S)
  <2>1. Len(f) <= 1 BY <1>1, <1>3
  <2>. QED BY <1>2, <2>1 DEF Option
<1>. QED BY <1>3, <1>4, <1>5, <1>6

\* Texts that can all be read are read to texts.
LEMMA EachTyped ==
    ASSUME NEW k, NEW y, Reader(k, y), NEW o \in Seq(Text), Each(Always, o) = Each(k, o)
    PROVE  /\ Each(y, o) \in Seq(Text)
           /\ o \in Option(Text) =>
                 Each(y, o) \in Option(Text) /\ (Each(y, o) = <<>> <=> o = <<>>)
<1>1. \A x : Each(x, o) = [i \in DOMAIN o |-> x[o[i]]] BY DEF Each
<1>2. \A i \in DOMAIN o : o[i] \in Text OBVIOUS
<1>3. \A i \in DOMAIN o : Always[o[i]] = TRUE BY <1>2 DEF Always
<1>4. \A i \in DOMAIN o : Each(Always, o)[i] = Always[o[i]] /\ Each(k, o)[i] = k[o[i]]
  BY <1>1
<1>5. \A i \in DOMAIN o : k[o[i]] = TRUE BY <1>3, <1>4
<1>6. \A i \in DOMAIN o : y[o[i]] \in Text BY <1>2, <1>5 DEF Reader
<1>7. Each(y, o) \in [DOMAIN o -> Text] BY <1>1, <1>6
<1>8. Each(y, o) \in Seq(Text) BY <1>7, IsSequence
<1>. QED BY <1>7, <1>8, OptionMapped

\* The values of a dictionary too.
LEMMA EachValueTyped ==
    ASSUME NEW k, NEW y, Reader(k, y), NEW d \in Dict, EachValue(Always, d) = EachValue(k, d)
    PROVE  EachValue(y, d) \in Dict
<1>. DEFINE T == Text \X Text
<1>1. \A x : EachValue(x, d) = [i \in DOMAIN d |-> <<d[i][1], x[d[i][2]]>>] BY DEF EachValue
<1>2. d \in Seq(T) BY DEF Dict
<1>3. \A i \in DOMAIN d : d[i] \in T
  <2>. HIDE DEF T
  <2>. QED BY <1>2
<1>4. \A i \in DOMAIN d : d[i][1] \in Text /\ d[i][2] \in Text BY <1>3
<1>5. \A i \in DOMAIN d : Always[d[i][2]] = TRUE BY <1>4 DEF Always
<1>6. \A i \in DOMAIN d : EachValue(Always, d)[i] = <<d[i][1], Always[d[i][2]]>>
                          /\ EachValue(k, d)[i] = <<d[i][1], k[d[i][2]]>>
  BY <1>1
<1>7. \A i \in DOMAIN d : k[d[i][2]] = TRUE
  <2>. SUFFICES ASSUME NEW i \in DOMAIN d PROVE k[d[i][2]] = TRUE OBVIOUS
  <2>1. <<d[i][1], Always[d[i][2]]>> = <<d[i][1], k[d[i][2]]>> BY <1>6
  <2>2. Always[d[i][2]] = k[d[i][2]] BY <2>1
  <2>. QED BY <1>5, <2>2
<1>8. \A i \in DOMAIN d : y[d[i][2]] \in Text BY <1>4, <1>7 DEF Reader
<1>9. \A i \in DOMAIN d : <<d[i][1], y[d[i][2]]>> \in T BY <1>4, <1>8
<1>. HIDE DEF T
<1>10. EachValue(y, d) \in [DOMAIN d -> T] BY <1>1, <1>9
<1>11. EachValue(y, d) \in Seq(T) BY <1>2, <1>10, IsSequence
<1>. QED BY <1>11 DEF Dict, T

\* The visits, type by type: what can be read keeps its type (visit.rs).
LEMMA VisitBuildTyped ==
    ASSUME NEW k, NEW y, Reader(k, y), NEW b \in Build, VisitBuild(b, Always) = VisitBuild(b, k)
    PROVE  VisitBuild(b, y) \in Build
<1>1. \A x : /\ VisitBuild(b, x).args = EachValue(x, b.args)
             /\ VisitBuild(b, x).target = Each(x, b.target)
             /\ VisitBuild(b, x).labels = EachValue(x, b.labels)
  BY DEF VisitBuild, Build
<1>2. /\ EachValue(Always, b.args) = EachValue(k, b.args)
      /\ Each(Always, b.target) = Each(k, b.target)
      /\ EachValue(Always, b.labels) = EachValue(k, b.labels)
  BY <1>1
<1>3. b.args \in Dict /\ b.labels \in Dict /\ b.target \in Option(Text) BY DEF Build
<1>4. b.target \in Seq(Text) BY <1>3 DEF Option
<1>5. EachValue(y, b.args) \in Dict /\ EachValue(y, b.labels) \in Dict
  BY <1>2, <1>3, EachValueTyped
<1>6. Each(y, b.target) \in Option(Text) BY <1>2, <1>3, <1>4, EachTyped
<1>. QED BY <1>5, <1>6 DEF VisitBuild, Build

LEMMA VisitStringOrListTyped ==
    ASSUME NEW k, NEW y, Reader(k, y), NEW l \in StringOrList,
           VisitStringOrList(l, Always) = VisitStringOrList(l, k)
    PROVE  VisitStringOrList(l, y) \in StringOrList
<1>1. CASE l \in [form : {"string"}, text : Text]
  <2>1. l.form = "string" /\ l.text \in Text BY <1>1
  <2>2. \A x : VisitStringOrList(l, x) = [l EXCEPT !.text = x[l.text]]
    BY <2>1 DEF VisitStringOrList
  <2>3. \A x : VisitStringOrList(l, x).text = x[l.text] BY <1>1, <2>2
  <2>4. Always[l.text] = TRUE BY <2>1 DEF Always
  <2>5. k[l.text] = TRUE BY <2>3, <2>4
  <2>6. y[l.text] \in Text BY <2>1, <2>5 DEF Reader
  <2>. QED BY <1>1, <2>2, <2>6 DEF StringOrList
<1>2. CASE l \in [form : {"list"}, items : Seq(Text)]
  <2>1. l.form = "list" /\ l.items \in Seq(Text) BY <1>2
  <2>2. \A x : VisitStringOrList(l, x) = [l EXCEPT !.items = Each(x, l.items)]
    BY <2>1 DEF VisitStringOrList
  <2>3. \A x : VisitStringOrList(l, x).items = Each(x, l.items) BY <1>2, <2>2
  <2>4. Each(y, l.items) \in Seq(Text) BY <2>1, <2>3, EachTyped
  <2>. QED BY <1>2, <2>2, <2>4 DEF StringOrList
<1>. QED BY <1>1, <1>2 DEF StringOrList

LEMMA VisitEnvMapTyped ==
    ASSUME NEW k, NEW y, Reader(k, y), NEW em \in EnvBlock,
           VisitEnvMap(em, Always) = VisitEnvMap(em, k)
    PROVE  VisitEnvMap(em, y) \in EnvBlock
<1>1. CASE em \in [form : {"empty"}]
  <2>1. VisitEnvMap(em, y) = em BY <1>1 DEF VisitEnvMap
  <2>. QED BY <2>1
<1>2. CASE em \in [form : {"list"}, items : Seq(Text)]
  <2>1. em.form = "list" /\ em.items \in Seq(Text) BY <1>2
  <2>2. \A x : VisitEnvMap(em, x) = [em EXCEPT !.items = Each(x, em.items)]
    BY <2>1 DEF VisitEnvMap
  <2>3. \A x : VisitEnvMap(em, x).items = Each(x, em.items) BY <1>2, <2>2
  <2>4. Each(y, em.items) \in Seq(Text) BY <2>1, <2>3, EachTyped
  <2>. QED BY <1>2, <2>2, <2>4 DEF EnvBlock
<1>3. CASE em \in [form : {"map"}, items : Seq(Text \X Option(Text))]
  <2>. DEFINE T == Text \X Option(Text)  q == em.items
              F(x) == [i \in DOMAIN q |-> <<q[i][1], Each(x, q[i][2])>>]
  <2>1. em.form = "map" /\ q \in Seq(T) BY <1>3
  <2>2. \A x : VisitEnvMap(em, x) = [em EXCEPT !.items = F(x)] BY <2>1 DEF VisitEnvMap
  <2>3. \A x : VisitEnvMap(em, x).items = F(x)
    <3>1. "items" \in DOMAIN em BY <1>3
    <3>. HIDE DEF F
    <3>. QED BY <2>2, <3>1
  <2>4. F(Always) = F(k)
    <3>. HIDE DEF F
    <3>. QED BY <2>3
  <2>5. \A i \in DOMAIN q : q[i] \in T
    <3>. HIDE DEF T, q
    <3>. QED BY <2>1
  <2>6. \A i \in DOMAIN q : q[i][1] \in Text /\ q[i][2] \in Option(Text) BY <2>5
  <2>. HIDE DEF q
  <2>7. ASSUME NEW i \in DOMAIN q PROVE <<q[i][1], Each(y, q[i][2])>> \in T
    <3>1. F(Always)[i] = <<q[i][1], Each(Always, q[i][2])>>
          /\ F(k)[i] = <<q[i][1], Each(k, q[i][2])>>
      OBVIOUS
    <3>2. <<q[i][1], Each(Always, q[i][2])>> = <<q[i][1], Each(k, q[i][2])>>
      <4>. HIDE DEF F
      <4>. QED BY <2>4, <3>1
    <3>3. Each(Always, q[i][2]) = Each(k, q[i][2]) BY <3>2
    <3>4. q[i][2] \in Seq(Text) BY <2>6 DEF Option
    <3>5. Each(y, q[i][2]) \in Option(Text) BY <2>6, <3>3, <3>4, EachTyped
    <3>. QED BY <2>6, <3>5
  <2>. HIDE DEF T
  <2>8. F(y) \in [DOMAIN q -> T] BY <2>7
  <2>9. F(y) \in Seq(T) BY <2>1, <2>8, IsSequence
  <2>. HIDE DEF F
  <2>10. VisitEnvMap(em, y) \in [form : {"map"}, items : Seq(T)]
    <3>1. em \in [form : {"map"}, items : Seq(T)] BY <1>3 DEF T
    <3>. QED BY <2>2, <2>9, <3>1
  <2>. QED BY <2>10 DEF EnvBlock, T
<1>. QED BY <1>1, <1>2, <1>3 DEF EnvBlock

LEMMA VisitMountTyped ==
    ASSUME NEW k, NEW y, Reader(k, y), NEW m \in MountSpec, VisitMount(m, Always) = VisitMount(m, k)
    PROVE  VisitMount(m, y) \in MountSpec
<1>1. CASE m \in [form : {"short"}, text : Text]
  <2>1. m.form = "short" /\ m.text \in Text BY <1>1
  <2>2. \A x : VisitMount(m, x) = [m EXCEPT !.text = x[m.text]] BY <2>1 DEF VisitMount
  <2>3. \A x : VisitMount(m, x).text = x[m.text] BY <1>1, <2>2
  <2>4. Always[m.text] = TRUE BY <2>1 DEF Always
  <2>5. k[m.text] = TRUE BY <2>3, <2>4
  <2>6. y[m.text] \in Text BY <2>1, <2>5 DEF Reader
  <2>. QED BY <1>1, <2>2, <2>6 DEF MountSpec
<1>2. CASE m \in MountLong
  <2>1. m.form = "long" BY <1>2 DEF MountLong
  <2>2. VisitMount(m, y) = m BY <2>1 DEF VisitMount
  <2>. QED BY <2>2
<1>. QED BY <1>1, <1>2 DEF MountSpec

LEMMA VisitNetworkModeTyped ==
    ASSUME NEW k, NEW y, Reader(k, y), NEW m \in NetworkMode,
           VisitNetworkMode(m, Always) = VisitNetworkMode(m, k)
    PROVE  VisitNetworkMode(m, y) \in NetworkMode
<1>1. CASE m \in [kind : {"container", "custom"}, arg : Text]
  <2>1. m.kind \in {"container", "custom"} /\ m.arg \in Text BY <1>1
  <2>2. \A x : VisitNetworkMode(m, x) = [m EXCEPT !.arg = x[m.arg]] BY <2>1 DEF VisitNetworkMode
  <2>3. \A x : VisitNetworkMode(m, x).arg = x[m.arg] BY <1>1, <2>2
  <2>4. Always[m.arg] = TRUE BY <2>1 DEF Always
  <2>5. k[m.arg] = TRUE BY <2>3, <2>4
  <2>6. y[m.arg] \in Text BY <2>1, <2>5 DEF Reader
  <2>. QED BY <1>1, <2>2, <2>6 DEF NetworkMode
<1>2. CASE m \in [kind : {"bridge", "host", "none"}]
  <2>1. m.kind \notin {"container", "custom"} BY <1>2
  <2>2. VisitNetworkMode(m, y) = m BY <2>1 DEF VisitNetworkMode
  <2>. QED BY <2>2
<1>. QED BY <1>1, <1>2 DEF NetworkMode

LEMMA VisitHealthcheckTyped ==
    ASSUME NEW k, NEW y, Reader(k, y), NEW h \in Healthcheck,
           VisitHealthcheck(h, Always) = VisitHealthcheck(h, k)
    PROVE  VisitHealthcheck(h, y) \in Healthcheck
<1>1. \A x : VisitHealthcheck(h, x).test = Each(x, h.test) BY DEF VisitHealthcheck, Healthcheck
<1>2. h.test \in Seq(Text) BY DEF Healthcheck
<1>3. Each(y, h.test) \in Seq(Text) BY <1>1, <1>2, EachTyped
<1>. QED BY <1>3 DEF VisitHealthcheck, Healthcheck

LEMMA VisitSecretRefTyped ==
    ASSUME NEW k, NEW y, Reader(k, y), NEW sr \in SecretRef,
           VisitSecretRef(sr, Always) = VisitSecretRef(sr, k)
    PROVE  VisitSecretRef(sr, y) \in SecretRef
<1>1. CASE sr \in [form : {"name"}, text : Text]
  <2>1. sr.form = "name" /\ sr.text \in Text BY <1>1
  <2>2. \A x : VisitSecretRef(sr, x) = [sr EXCEPT !.text = x[sr.text]] BY <2>1 DEF VisitSecretRef
  <2>3. \A x : VisitSecretRef(sr, x).text = x[sr.text] BY <1>1, <2>2
  <2>4. Always[sr.text] = TRUE BY <2>1 DEF Always
  <2>5. k[sr.text] = TRUE BY <2>3, <2>4
  <2>6. y[sr.text] \in Text BY <2>1, <2>5 DEF Reader
  <2>. QED BY <1>1, <2>2, <2>6 DEF SecretRef
<1>2. CASE sr \in [form : {"long"}, source : Text, owner : Option(Text)]
  <2>1. sr.form = "long" /\ sr.source \in Text /\ sr.owner \in Option(Text) BY <1>2
  <2>2. \A x : VisitSecretRef(sr, x) = [sr EXCEPT !.source = x[sr.source],
                                                  !.owner = Each(x, sr.owner)]
    BY <1>2, <2>1 DEF VisitSecretRef
  <2>3. \A x : VisitSecretRef(sr, x).source = x[sr.source]
               /\ VisitSecretRef(sr, x).owner = Each(x, sr.owner)
    BY <1>2, <2>2
  <2>4. Always[sr.source] = TRUE BY <2>1 DEF Always
  <2>5. k[sr.source] = TRUE BY <2>3, <2>4
  <2>6. y[sr.source] \in Text BY <2>1, <2>5 DEF Reader
  <2>7. sr.owner \in Seq(Text) BY <2>1 DEF Option
  <2>8. Each(Always, sr.owner) = Each(k, sr.owner) BY <2>3
  <2>9. Each(y, sr.owner) \in Option(Text) BY <2>1, <2>7, <2>8, EachTyped
  <2>. QED BY <1>2, <2>2, <2>6, <2>9 DEF SecretRef
<1>. QED BY <1>1, <1>2 DEF SecretRef

LEMMA VisitResourceTyped ==
    ASSUME NEW k, NEW y, Reader(k, y), NEW n \in Network,
           VisitResource(n, Always) = VisitResource(n, k)
    PROVE  VisitResource(n, y) \in Network
<1>1. \A x : /\ VisitResource(n, x).driver = Each(x, n.driver)
             /\ VisitResource(n, x).name = Each(x, n.name)
             /\ VisitResource(n, x).driver_opts = EachValue(x, n.driver_opts)
             /\ VisitResource(n, x).labels = EachValue(x, n.labels)
  BY DEF VisitResource, Network
<1>2. /\ Each(Always, n.driver) = Each(k, n.driver) /\ Each(Always, n.name) = Each(k, n.name)
      /\ EachValue(Always, n.driver_opts) = EachValue(k, n.driver_opts)
      /\ EachValue(Always, n.labels) = EachValue(k, n.labels)
  BY <1>1
<1>3. /\ n.driver \in Option(Text) /\ n.name \in Option(Text)
      /\ n.driver_opts \in Dict /\ n.labels \in Dict
  BY DEF Network
<1>4. n.driver \in Seq(Text) /\ n.name \in Seq(Text) BY <1>3 DEF Option
<1>5. EachValue(y, n.driver_opts) \in Dict /\ EachValue(y, n.labels) \in Dict
  BY <1>2, <1>3, EachValueTyped
<1>6. Each(y, n.driver) \in Option(Text) /\ Each(y, n.name) \in Option(Text)
  BY <1>2, <1>3, <1>4, EachTyped
<1>. QED BY <1>5, <1>6 DEF VisitResource, Network

LEMMA VisitSecretTyped ==
    ASSUME NEW k, NEW y, Reader(k, y), NEW s \in Secret, VisitSecret(s, Always) = VisitSecret(s, k)
    PROVE  VisitSecret(s, y) \in Secret
<1>1. \A x : VisitSecret(s, x).name = Each(x, s.name) BY DEF VisitSecret, Secret
<1>2. s.name \in Option(Text) BY DEF Secret
<1>3. s.name \in Seq(Text) BY <1>2 DEF Option
<1>4. Each(y, s.name) \in Option(Text) BY <1>1, <1>2, <1>3, EachTyped
<1>. QED BY <1>4 DEF VisitSecret, Secret

\* The parts of a service that are lists or options, one kind after the other.
Builds(q, x) == [i \in DOMAIN q |-> VisitBuild(q[i], x)]
LEMMA BuildsTyped ==
    ASSUME NEW k, NEW y, Reader(k, y), NEW q \in Seq(Build),
           Builds(q, Always) = Builds(q, k)
    PROVE  /\ Builds(q, y) \in Seq(Build)
           /\ q \in Option(Build) =>
              Builds(q, y) \in Option(Build) /\ (Builds(q, y) = <<>> <=> q = <<>>)
<1>. DEFINE F(x) == [i \in DOMAIN q |-> VisitBuild(q[i], x)]
<1>1. \A i \in DOMAIN q : q[i] \in Build OBVIOUS
<1>2. ASSUME NEW i \in DOMAIN q PROVE VisitBuild(q[i], y) \in Build
  <2>1. F(Always)[i] = VisitBuild(q[i], Always) /\ F(k)[i] = VisitBuild(q[i], k) OBVIOUS
  <2>2. F(Always) = F(k) BY DEF Builds
  <2>3. VisitBuild(q[i], Always) = VisitBuild(q[i], k)
    <3>. HIDE DEF F
    <3>. QED BY <2>1, <2>2
  <2>. QED BY <1>1, <2>3, VisitBuildTyped
<1>3. F(y) \in [DOMAIN q -> Build] BY <1>2
<1>4. F(y) \in Seq(Build) BY <1>3, IsSequence
<1>5. q \in Option(Build) => F(y) \in Option(Build) /\ (F(y) = <<>> <=> q = <<>>)
  <2>. HIDE DEF F
  <2>. QED BY <1>3, OptionMapped
<1>. QED BY <1>4, <1>5 DEF Builds

\* Its command and its entrypoint.
Strings(q, x) == [i \in DOMAIN q |-> VisitStringOrList(q[i], x)]
LEMMA StringsTyped ==
    ASSUME NEW k, NEW y, Reader(k, y), NEW q \in Seq(StringOrList),
           Strings(q, Always) = Strings(q, k)
    PROVE  /\ Strings(q, y) \in Seq(StringOrList)
           /\ q \in Option(StringOrList) =>
              Strings(q, y) \in Option(StringOrList) /\ (Strings(q, y) = <<>> <=> q = <<>>)
<1>. DEFINE F(x) == [i \in DOMAIN q |-> VisitStringOrList(q[i], x)]
<1>1. \A i \in DOMAIN q : q[i] \in StringOrList OBVIOUS
<1>2. ASSUME NEW i \in DOMAIN q PROVE VisitStringOrList(q[i], y) \in StringOrList
  <2>1. F(Always)[i] = VisitStringOrList(q[i], Always) /\ F(k)[i] = VisitStringOrList(q[i], k)
    OBVIOUS
  <2>2. F(Always) = F(k) BY DEF Strings
  <2>3. VisitStringOrList(q[i], Always) = VisitStringOrList(q[i], k)
    <3>. HIDE DEF F
    <3>. QED BY <2>1, <2>2
  <2>. QED BY <1>1, <2>3, VisitStringOrListTyped
<1>3. F(y) \in [DOMAIN q -> StringOrList] BY <1>2
<1>4. F(y) \in Seq(StringOrList) BY <1>3, IsSequence
<1>5. q \in Option(StringOrList) => F(y) \in Option(StringOrList) /\ (F(y) = <<>> <=> q = <<>>)
  <2>. HIDE DEF F
  <2>. QED BY <1>3, OptionMapped
<1>. QED BY <1>4, <1>5 DEF Strings

\* Its mounts.
Mounts(q, x) == [i \in DOMAIN q |-> VisitMount(q[i], x)]
LEMMA MountsTyped ==
    ASSUME NEW k, NEW y, Reader(k, y), NEW q \in Seq(MountSpec),
           Mounts(q, Always) = Mounts(q, k)
    PROVE  /\ Mounts(q, y) \in Seq(MountSpec)
           /\ q \in Option(MountSpec) =>
              Mounts(q, y) \in Option(MountSpec) /\ (Mounts(q, y) = <<>> <=> q = <<>>)
<1>. DEFINE F(x) == [i \in DOMAIN q |-> VisitMount(q[i], x)]
<1>1. \A i \in DOMAIN q : q[i] \in MountSpec OBVIOUS
<1>2. ASSUME NEW i \in DOMAIN q PROVE VisitMount(q[i], y) \in MountSpec
  <2>1. F(Always)[i] = VisitMount(q[i], Always) /\ F(k)[i] = VisitMount(q[i], k) OBVIOUS
  <2>2. F(Always) = F(k) BY DEF Mounts
  <2>3. VisitMount(q[i], Always) = VisitMount(q[i], k)
    <3>. HIDE DEF F
    <3>. QED BY <2>1, <2>2
  <2>. QED BY <1>1, <2>3, VisitMountTyped
<1>3. F(y) \in [DOMAIN q -> MountSpec] BY <1>2
<1>4. F(y) \in Seq(MountSpec) BY <1>3, IsSequence
<1>5. q \in Option(MountSpec) => F(y) \in Option(MountSpec) /\ (F(y) = <<>> <=> q = <<>>)
  <2>. HIDE DEF F
  <2>. QED BY <1>3, OptionMapped
<1>. QED BY <1>4, <1>5 DEF Mounts

\* Its network mode.
Modes(q, x) == [i \in DOMAIN q |-> VisitNetworkMode(q[i], x)]
LEMMA ModesTyped ==
    ASSUME NEW k, NEW y, Reader(k, y), NEW q \in Seq(NetworkMode),
           Modes(q, Always) = Modes(q, k)
    PROVE  /\ Modes(q, y) \in Seq(NetworkMode)
           /\ q \in Option(NetworkMode) =>
              Modes(q, y) \in Option(NetworkMode) /\ (Modes(q, y) = <<>> <=> q = <<>>)
<1>. DEFINE F(x) == [i \in DOMAIN q |-> VisitNetworkMode(q[i], x)]
<1>1. \A i \in DOMAIN q : q[i] \in NetworkMode OBVIOUS
<1>2. ASSUME NEW i \in DOMAIN q PROVE VisitNetworkMode(q[i], y) \in NetworkMode
  <2>1. F(Always)[i] = VisitNetworkMode(q[i], Always) /\ F(k)[i] = VisitNetworkMode(q[i], k) OBVIOUS
  <2>2. F(Always) = F(k) BY DEF Modes
  <2>3. VisitNetworkMode(q[i], Always) = VisitNetworkMode(q[i], k)
    <3>. HIDE DEF F
    <3>. QED BY <2>1, <2>2
  <2>. QED BY <1>1, <2>3, VisitNetworkModeTyped
<1>3. F(y) \in [DOMAIN q -> NetworkMode] BY <1>2
<1>4. F(y) \in Seq(NetworkMode) BY <1>3, IsSequence
<1>5. q \in Option(NetworkMode) => F(y) \in Option(NetworkMode) /\ (F(y) = <<>> <=> q = <<>>)
  <2>. HIDE DEF F
  <2>. QED BY <1>3, OptionMapped
<1>. QED BY <1>4, <1>5 DEF Modes

\* Its healthcheck.
Checks(q, x) == [i \in DOMAIN q |-> VisitHealthcheck(q[i], x)]
LEMMA ChecksTyped ==
    ASSUME NEW k, NEW y, Reader(k, y), NEW q \in Seq(Healthcheck),
           Checks(q, Always) = Checks(q, k)
    PROVE  /\ Checks(q, y) \in Seq(Healthcheck)
           /\ q \in Option(Healthcheck) =>
              Checks(q, y) \in Option(Healthcheck) /\ (Checks(q, y) = <<>> <=> q = <<>>)
<1>. DEFINE F(x) == [i \in DOMAIN q |-> VisitHealthcheck(q[i], x)]
<1>1. \A i \in DOMAIN q : q[i] \in Healthcheck OBVIOUS
<1>2. ASSUME NEW i \in DOMAIN q PROVE VisitHealthcheck(q[i], y) \in Healthcheck
  <2>1. F(Always)[i] = VisitHealthcheck(q[i], Always) /\ F(k)[i] = VisitHealthcheck(q[i], k) OBVIOUS
  <2>2. F(Always) = F(k) BY DEF Checks
  <2>3. VisitHealthcheck(q[i], Always) = VisitHealthcheck(q[i], k)
    <3>. HIDE DEF F
    <3>. QED BY <2>1, <2>2
  <2>. QED BY <1>1, <2>3, VisitHealthcheckTyped
<1>3. F(y) \in [DOMAIN q -> Healthcheck] BY <1>2
<1>4. F(y) \in Seq(Healthcheck) BY <1>3, IsSequence
<1>5. q \in Option(Healthcheck) => F(y) \in Option(Healthcheck) /\ (F(y) = <<>> <=> q = <<>>)
  <2>. HIDE DEF F
  <2>. QED BY <1>3, OptionMapped
<1>. QED BY <1>4, <1>5 DEF Checks

\* Its secrets.
SecretRefs(q, x) == [i \in DOMAIN q |-> VisitSecretRef(q[i], x)]
LEMMA SecretRefsTyped ==
    ASSUME NEW k, NEW y, Reader(k, y), NEW q \in Seq(SecretRef),
           SecretRefs(q, Always) = SecretRefs(q, k)
    PROVE  /\ SecretRefs(q, y) \in Seq(SecretRef)
           /\ q \in Option(SecretRef) =>
              SecretRefs(q, y) \in Option(SecretRef) /\ (SecretRefs(q, y) = <<>> <=> q = <<>>)
<1>. DEFINE F(x) == [i \in DOMAIN q |-> VisitSecretRef(q[i], x)]
<1>1. \A i \in DOMAIN q : q[i] \in SecretRef OBVIOUS
<1>2. ASSUME NEW i \in DOMAIN q PROVE VisitSecretRef(q[i], y) \in SecretRef
  <2>1. F(Always)[i] = VisitSecretRef(q[i], Always) /\ F(k)[i] = VisitSecretRef(q[i], k) OBVIOUS
  <2>2. F(Always) = F(k) BY DEF SecretRefs
  <2>3. VisitSecretRef(q[i], Always) = VisitSecretRef(q[i], k)
    <3>. HIDE DEF F
    <3>. QED BY <2>1, <2>2
  <2>. QED BY <1>1, <2>3, VisitSecretRefTyped
<1>3. F(y) \in [DOMAIN q -> SecretRef] BY <1>2
<1>4. F(y) \in Seq(SecretRef) BY <1>3, IsSequence
<1>5. q \in Option(SecretRef) => F(y) \in Option(SecretRef) /\ (F(y) = <<>> <=> q = <<>>)
  <2>. HIDE DEF F
  <2>. QED BY <1>3, OptionMapped
<1>. QED BY <1>4, <1>5 DEF SecretRefs

\* The visit of a service that can be read gives a service, with an image and a
\* build where there was one.
LEMMA VisitServiceTyped ==
    ASSUME NEW k, NEW y, Reader(k, y), NEW s \in Service, VisitService(s, Always) = VisitService(s,
           k)
    PROVE  /\ VisitService(s, y) \in Service
           /\ VisitService(s, y).image = <<>> <=> s.image = <<>>
           /\ VisitService(s, y).build = <<>> <=> s.build = <<>>
<1>. DEFINE V_image(x) == Each(x, s.image)
              V_networks(x) == Each(x, s.networks)
              V_profiles(x) == Each(x, s.profiles)
              V_text(x) == Each(x, s.text)
              V_build(x) == Builds(s.build, x)
              V_command(x) == Strings(s.command, x)
              V_entrypoint(x) == Strings(s.entrypoint, x)
              V_environment(x) == VisitEnvMap(s.environment, x)
              V_volumes(x) == Mounts(s.volumes, x)
              V_network_mode(x) == Modes(s.network_mode, x)
              V_depends_on(x) == VisitDependsOn(s.depends_on, x)
              V_healthcheck(x) == Checks(s.healthcheck, x)
              V_secrets(x) == SecretRefs(s.secrets, x)
<1>1. \A x : VisitService(s, x) = [s EXCEPT !.image = V_image(x),
                                            !.networks = V_networks(x),
                                            !.profiles = V_profiles(x),
                                            !.text = V_text(x),
                                            !.build = V_build(x),
                                            !.command = V_command(x),
                                            !.entrypoint = V_entrypoint(x),
                                            !.environment = V_environment(x),
                                            !.volumes = V_volumes(x),
                                            !.network_mode = V_network_mode(x),
                                            !.depends_on = V_depends_on(x),
                                            !.healthcheck = V_healthcheck(x),
                                            !.secrets = V_secrets(x)]
  BY DEF VisitService, Builds, Strings, Mounts, Modes, Checks, SecretRefs
<1>2. /\ s.image \in Option(Text)
      /\ s.networks \in Seq(Text)
      /\ s.profiles \in Seq(Text)
      /\ s.text \in Seq(Text)
      /\ s.build \in Option(Build)
      /\ s.command \in Option(StringOrList)
      /\ s.entrypoint \in Option(StringOrList)
      /\ s.environment \in EnvBlock
      /\ s.volumes \in Seq(MountSpec)
      /\ s.network_mode \in Option(NetworkMode)
      /\ s.depends_on \in DependsOn
      /\ s.healthcheck \in Option(Healthcheck)
      /\ s.secrets \in Seq(SecretRef)
  BY DEF Service
<1>3. /\ s.image \in Seq(Text)
      /\ s.build \in Seq(Build)
      /\ s.command \in Seq(StringOrList)
      /\ s.entrypoint \in Seq(StringOrList)
      /\ s.network_mode \in Seq(NetworkMode)
      /\ s.healthcheck \in Seq(Healthcheck)
  BY <1>2 DEF Option
<1>. HIDE DEF V_image, V_networks, V_profiles, V_text, V_build, V_command, V_entrypoint,
              V_environment, V_volumes, V_network_mode, V_depends_on, V_healthcheck,
              V_secrets
<1>4. \A x : /\ VisitService(s, x).image = V_image(x)
             /\ VisitService(s, x).networks = V_networks(x)
             /\ VisitService(s, x).profiles = V_profiles(x)
             /\ VisitService(s, x).text = V_text(x)
             /\ VisitService(s, x).build = V_build(x)
             /\ VisitService(s, x).command = V_command(x)
             /\ VisitService(s, x).entrypoint = V_entrypoint(x)
             /\ VisitService(s, x).environment = V_environment(x)
             /\ VisitService(s, x).volumes = V_volumes(x)
             /\ VisitService(s, x).network_mode = V_network_mode(x)
             /\ VisitService(s, x).depends_on = V_depends_on(x)
             /\ VisitService(s, x).healthcheck = V_healthcheck(x)
             /\ VisitService(s, x).secrets = V_secrets(x)
  <2>. SUFFICES ASSUME NEW x
                PROVE  /\ VisitService(s, x).image = V_image(x)
                       /\ VisitService(s, x).networks = V_networks(x)
                       /\ VisitService(s, x).profiles = V_profiles(x)
                       /\ VisitService(s, x).text = V_text(x)
                       /\ VisitService(s, x).build = V_build(x)
                       /\ VisitService(s, x).command = V_command(x)
                       /\ VisitService(s, x).entrypoint = V_entrypoint(x)
                       /\ VisitService(s, x).environment = V_environment(x)
                       /\ VisitService(s, x).volumes = V_volumes(x)
                       /\ VisitService(s, x).network_mode = V_network_mode(x)
                       /\ VisitService(s, x).depends_on = V_depends_on(x)
                       /\ VisitService(s, x).healthcheck = V_healthcheck(x)
                       /\ VisitService(s, x).secrets = V_secrets(x)
    OBVIOUS
  <2>. DEFINE r == VisitService(s, x)
              a_image == V_image(x)
              a_networks == V_networks(x)
              a_profiles == V_profiles(x)
              a_text == V_text(x)
              a_build == V_build(x)
              a_command == V_command(x)
              a_entrypoint == V_entrypoint(x)
              a_environment == V_environment(x)
              a_volumes == V_volumes(x)
              a_network_mode == V_network_mode(x)
              a_depends_on == V_depends_on(x)
              a_healthcheck == V_healthcheck(x)
              a_secrets == V_secrets(x)
  <2>1. r = [s EXCEPT !.image = a_image,
                      !.networks = a_networks,
                      !.profiles = a_profiles,
                      !.text = a_text,
                      !.build = a_build,
                      !.command = a_command,
                      !.entrypoint = a_entrypoint,
                      !.environment = a_environment,
                      !.volumes = a_volumes,
                      !.network_mode = a_network_mode,
                      !.depends_on = a_depends_on,
                      !.healthcheck = a_healthcheck,
                      !.secrets = a_secrets]
    BY <1>1
  <2>. HIDE DEF r, a_image, a_networks, a_profiles, a_text, a_build, a_command,
                a_entrypoint, a_environment, a_volumes, a_network_mode, a_depends_on,
                a_healthcheck, a_secrets
  <2>2. /\ r.image = a_image
        /\ r.networks = a_networks
        /\ r.profiles = a_profiles
        /\ r.text = a_text
        /\ r.build = a_build
        /\ r.command = a_command
        /\ r.entrypoint = a_entrypoint
        /\ r.environment = a_environment
        /\ r.volumes = a_volumes
        /\ r.network_mode = a_network_mode
        /\ r.depends_on = a_depends_on
        /\ r.healthcheck = a_healthcheck
        /\ r.secrets = a_secrets
    BY <2>1 DEF Service
  <2>. QED BY <2>2 DEF r, a_image, a_networks, a_profiles, a_text, a_build, a_command,
                       a_entrypoint, a_environment, a_volumes, a_network_mode,
                       a_depends_on, a_healthcheck, a_secrets
<1>5. /\ V_image(Always) = V_image(k)
      /\ V_networks(Always) = V_networks(k)
      /\ V_profiles(Always) = V_profiles(k)
      /\ V_text(Always) = V_text(k)
      /\ V_build(Always) = V_build(k)
      /\ V_command(Always) = V_command(k)
      /\ V_entrypoint(Always) = V_entrypoint(k)
      /\ V_environment(Always) = V_environment(k)
      /\ V_volumes(Always) = V_volumes(k)
      /\ V_network_mode(Always) = V_network_mode(k)
      /\ V_depends_on(Always) = V_depends_on(k)
      /\ V_healthcheck(Always) = V_healthcheck(k)
      /\ V_secrets(Always) = V_secrets(k)
  BY <1>4
<1>6. V_image(y) \in Option(Text) /\ (V_image(y) = <<>> <=> s.image = <<>>)
  BY <1>2, <1>3, <1>5, EachTyped DEF V_image
<1>7. V_networks(y) \in Seq(Text) BY <1>2, <1>3, <1>5, EachTyped DEF V_networks
<1>8. V_profiles(y) \in Seq(Text) BY <1>2, <1>3, <1>5, EachTyped DEF V_profiles
<1>9. V_text(y) \in Seq(Text) BY <1>2, <1>3, <1>5, EachTyped DEF V_text
<1>10. V_build(y) \in Option(Build) /\ (V_build(y) = <<>> <=> s.build = <<>>)
  BY <1>2, <1>3, <1>5, BuildsTyped DEF V_build
<1>11. V_command(y) \in Option(StringOrList) BY <1>2, <1>3, <1>5, StringsTyped DEF V_command
<1>12. V_entrypoint(y) \in Option(StringOrList) BY <1>2, <1>3, <1>5, StringsTyped DEF V_entrypoint
<1>13. V_environment(y) \in EnvBlock BY <1>2, <1>5, VisitEnvMapTyped DEF V_environment
<1>14. V_volumes(y) \in Seq(MountSpec) BY <1>2, <1>3, <1>5, MountsTyped DEF V_volumes
<1>15. V_network_mode(y) \in Option(NetworkMode) BY <1>2, <1>3, <1>5, ModesTyped DEF V_network_mode
<1>16. V_depends_on(y) \in DependsOn BY <1>2 DEF V_depends_on, VisitDependsOn
<1>17. V_healthcheck(y) \in Option(Healthcheck) BY <1>2, <1>3, <1>5, ChecksTyped DEF V_healthcheck
<1>18. V_secrets(y) \in Seq(SecretRef) BY <1>2, <1>3, <1>5, SecretRefsTyped DEF V_secrets
<1>19. VisitService(s, y) \in Service
  <2>. DEFINE r == VisitService(s, y)
              a_image == V_image(y)
              a_networks == V_networks(y)
              a_profiles == V_profiles(y)
              a_text == V_text(y)
              a_build == V_build(y)
              a_command == V_command(y)
              a_entrypoint == V_entrypoint(y)
              a_environment == V_environment(y)
              a_volumes == V_volumes(y)
              a_network_mode == V_network_mode(y)
              a_depends_on == V_depends_on(y)
              a_healthcheck == V_healthcheck(y)
              a_secrets == V_secrets(y)
  <2>1. r = [s EXCEPT !.image = a_image,
                      !.networks = a_networks,
                      !.profiles = a_profiles,
                      !.text = a_text,
                      !.build = a_build,
                      !.command = a_command,
                      !.entrypoint = a_entrypoint,
                      !.environment = a_environment,
                      !.volumes = a_volumes,
                      !.network_mode = a_network_mode,
                      !.depends_on = a_depends_on,
                      !.healthcheck = a_healthcheck,
                      !.secrets = a_secrets]
    BY <1>1
  <2>2. /\ a_image \in Option(Text)
        /\ a_networks \in Seq(Text)
        /\ a_profiles \in Seq(Text)
        /\ a_text \in Seq(Text)
        /\ a_build \in Option(Build)
        /\ a_command \in Option(StringOrList)
        /\ a_entrypoint \in Option(StringOrList)
        /\ a_environment \in EnvBlock
        /\ a_volumes \in Seq(MountSpec)
        /\ a_network_mode \in Option(NetworkMode)
        /\ a_depends_on \in DependsOn
        /\ a_healthcheck \in Option(Healthcheck)
        /\ a_secrets \in Seq(SecretRef)
    BY <1>6, <1>7, <1>8, <1>9, <1>10, <1>11, <1>12, <1>13, <1>14, <1>15, <1>16, <1>17, <1>18
  <2>. HIDE DEF r, a_image, a_networks, a_profiles, a_text, a_build, a_command,
                a_entrypoint, a_environment, a_volumes, a_network_mode, a_depends_on,
                a_healthcheck, a_secrets
  <2>3. r \in Service BY <2>1, <2>2 DEF Service
  <2>. QED BY <2>3 DEF r
<1>. QED BY <1>4, <1>6, <1>10, <1>19

\* The networks and the volumes of a file.
Resources(d, x) == [i \in DOMAIN d |-> <<d[i][1], VisitResource(d[i][2], x)>>]
LEMMA ResourcesTyped ==
    ASSUME NEW k, NEW y, Reader(k, y), NEW d \in Named(Network), Resources(d, Always) = Resources(d,
           k)
    PROVE  Resources(d, y) \in Named(Network)
<1>. DEFINE P == Text \X Network
            F(x) == [i \in DOMAIN d |-> <<d[i][1], VisitResource(d[i][2], x)>>]
<1>1. d \in Seq(P) /\ \A i, j \in DOMAIN d : d[i][1] = d[j][1] => i = j BY DEF Named
<1>2. \A i \in DOMAIN d : d[i] \in P
  <2>. HIDE DEF P
  <2>. QED BY <1>1
<1>3. \A i \in DOMAIN d : d[i][1] \in Text /\ d[i][2] \in Network BY <1>2
<1>4. ASSUME NEW i \in DOMAIN d PROVE <<d[i][1], VisitResource(d[i][2], y)>> \in P
  <2>1. F(Always)[i] = <<d[i][1], VisitResource(d[i][2], Always)>>
        /\ F(k)[i] = <<d[i][1], VisitResource(d[i][2], k)>>
    OBVIOUS
  <2>2. F(Always) = F(k) BY DEF Resources
  <2>3. <<d[i][1], VisitResource(d[i][2], Always)>> = <<d[i][1], VisitResource(d[i][2], k)>>
    <3>. HIDE DEF F
    <3>. QED BY <2>1, <2>2
  <2>4. VisitResource(d[i][2], Always) = VisitResource(d[i][2], k) BY <2>3
  <2>5. VisitResource(d[i][2], y) \in Network BY <1>3, <2>4, VisitResourceTyped
  <2>. QED BY <1>3, <2>5
<1>5. \A i \in DOMAIN d : F(y)[i][1] = d[i][1] OBVIOUS
<1>. HIDE DEF P
<1>6. F(y) \in [DOMAIN d -> P] BY <1>4
<1>7. F(y) \in Seq(P) /\ DOMAIN F(y) = DOMAIN d BY <1>1, <1>6, IsSequence
<1>8. \A i, j \in DOMAIN F(y) : F(y)[i][1] = F(y)[j][1] => i = j
  <2>. HIDE DEF F
  <2>. QED BY <1>1, <1>5, <1>7
<1>9. F(y) \in Named(Network)
  <2>. HIDE DEF F
  <2>. QED BY <1>7, <1>8 DEF Named, P
<1>. QED BY <1>9 DEF Resources

\* Its secrets.
Secrets(d, x) == [i \in DOMAIN d |-> <<d[i][1], VisitSecret(d[i][2], x)>>]
LEMMA SecretsTyped ==
    ASSUME NEW k, NEW y, Reader(k, y), NEW d \in Named(Secret), Secrets(d, Always) = Secrets(d, k)
    PROVE  Secrets(d, y) \in Named(Secret)
<1>. DEFINE P == Text \X Secret  F(x) == [i \in DOMAIN d |-> <<d[i][1], VisitSecret(d[i][2], x)>>]
<1>1. d \in Seq(P) /\ \A i, j \in DOMAIN d : d[i][1] = d[j][1] => i = j BY DEF Named
<1>2. \A i \in DOMAIN d : d[i] \in P
  <2>. HIDE DEF P
  <2>. QED BY <1>1
<1>3. \A i \in DOMAIN d : d[i][1] \in Text /\ d[i][2] \in Secret BY <1>2
<1>4. ASSUME NEW i \in DOMAIN d PROVE <<d[i][1], VisitSecret(d[i][2], y)>> \in P
  <2>1. F(Always)[i] = <<d[i][1], VisitSecret(d[i][2], Always)>>
        /\ F(k)[i] = <<d[i][1], VisitSecret(d[i][2], k)>>
    OBVIOUS
  <2>2. F(Always) = F(k) BY DEF Secrets
  <2>3. <<d[i][1], VisitSecret(d[i][2], Always)>> = <<d[i][1], VisitSecret(d[i][2], k)>>
    <3>. HIDE DEF F
    <3>. QED BY <2>1, <2>2
  <2>4. VisitSecret(d[i][2], Always) = VisitSecret(d[i][2], k) BY <2>3
  <2>5. VisitSecret(d[i][2], y) \in Secret BY <1>3, <2>4, VisitSecretTyped
  <2>. QED BY <1>3, <2>5
<1>5. \A i \in DOMAIN d : F(y)[i][1] = d[i][1] OBVIOUS
<1>. HIDE DEF P
<1>6. F(y) \in [DOMAIN d -> P] BY <1>4
<1>7. F(y) \in Seq(P) /\ DOMAIN F(y) = DOMAIN d BY <1>1, <1>6, IsSequence
<1>8. \A i, j \in DOMAIN F(y) : F(y)[i][1] = F(y)[j][1] => i = j
  <2>. HIDE DEF F
  <2>. QED BY <1>1, <1>5, <1>7
<1>9. F(y) \in Named(Secret)
  <2>. HIDE DEF F
  <2>. QED BY <1>7, <1>8 DEF Named, P
<1>. QED BY <1>9 DEF Secrets

\* A file of the schema's types, field by field.
FileTyped(c) ==
    /\ DOMAIN c.services \subseteq Services
    /\ \A s \in DOMAIN c.services : c.services[s] \in Service
    /\ c.networks \in Named(Network) /\ c.volumes \in Named(Volume)
    /\ c.secrets \in Named(Secret) /\ c.project \in Option(Text)

\* A file that can be read is read to a file, of the same services.
LEMMA VisitComposeTyped ==
    ASSUME NEW k, NEW y, Reader(k, y), NEW c, FileTyped(c), VisitCompose(c, Always) = VisitCompose(c,
           k)
    PROVE  /\ VisitCompose(c, y) \in Compose
           /\ DOMAIN VisitCompose(c, y).services = DOMAIN c.services
           /\ \A s \in DOMAIN c.services :
                 /\ VisitCompose(c, y).services[s].image = <<>> <=> c.services[s].image = <<>>
                 /\ VisitCompose(c, y).services[s].build = <<>> <=> c.services[s].build = <<>>
<1>. DEFINE Served(x) == [s \in DOMAIN c.services |-> VisitService(c.services[s], x)]
<1>1. \A x : VisitCompose(c, x) = [project |-> Each(x, c.project), services |-> Served(x),
                                   networks |-> Resources(c.networks, x),
                                   volumes |-> Resources(c.volumes, x),
                                   secrets |-> Secrets(c.secrets, x)]
  BY DEF VisitCompose, Resources, Secrets
<1>. DEFINE A == DOMAIN c.services
<1>2. /\ c.project \in Option(Text) /\ A \subseteq Services
      /\ c.networks \in Named(Network) /\ c.volumes \in Named(Network)
      /\ c.secrets \in Named(Secret)
  BY DEF FileTyped, Volume
<1>3. c.project \in Seq(Text) BY <1>2 DEF Option
<1>5. \A s \in A : c.services[s] \in Service BY DEF FileTyped
<1>6. /\ Each(Always, c.project) = Each(k, c.project) /\ Served(Always) = Served(k)
      /\ Resources(c.networks, Always) = Resources(c.networks, k)
      /\ Resources(c.volumes, Always) = Resources(c.volumes, k)
      /\ Secrets(c.secrets, Always) = Secrets(c.secrets, k)
  <2>. HIDE DEF Served
  <2>. QED BY <1>1
<1>7. /\ Each(y, c.project) \in Option(Text) /\ Resources(c.networks, y) \in Named(Network)
      /\ Resources(c.volumes, y) \in Named(Network) /\ Secrets(c.secrets, y) \in Named(Secret)
  <2>. HIDE DEF Served
  <2>1. Each(y, c.project) \in Option(Text) BY <1>2, <1>3, <1>6, EachTyped
  <2>. QED BY <2>1, <1>2, <1>6, ResourcesTyped, SecretsTyped
<1>8. \A x : DOMAIN Served(x) = A /\ \A s \in A : Served(x)[s] = VisitService(c.services[s], x)
  BY <1>5
<1>9. \A s \in A : VisitService(c.services[s], Always) = VisitService(c.services[s], k)
  <2>. HIDE DEF Served
  <2>. QED BY <1>6, <1>8
<1>10. \A s \in A : /\ VisitService(c.services[s], y) \in Service
                    /\ VisitService(c.services[s], y).image = <<>> <=> c.services[s].image = <<>>
                    /\ VisitService(c.services[s], y).build = <<>> <=> c.services[s].build = <<>>
  BY <1>5, <1>9, VisitServiceTyped
<1>11. Served(y) \in Partial(Services, Service)
  <2>1. Served(y) \in [A -> Service] BY <1>5, <1>10
  <2>2. A \in SUBSET Services BY <1>2
  <2>. HIDE DEF Served, A
  <2>. QED BY <2>1, <2>2 DEF Partial
<1>. HIDE DEF Served
<1>12. VisitCompose(c, y) \in Compose BY <1>1, <1>7, <1>11 DEF Compose, Volume
<1>13. VisitCompose(c, y).services = Served(y) BY <1>1
<1>. QED BY <1>5, <1>8, <1>10, <1>12, <1>13

\* Interpolating keeps a compose file one (visit in lib.rs of selur-compose-interp).
LEMMA InterpolateTyped ==
    ASSUME NEW c, FileTyped(c), NEW env, \A v \in DOMAIN env : env[v] \in Text,
           Interpolate(c, env).ok
    PROVE  LET read == Interpolate(c, env).val
           IN  /\ read \in Compose /\ DOMAIN read.services = DOMAIN c.services
               /\ \A s \in DOMAIN c.services :
                     /\ read.services[s].image = <<>> <=> c.services[s].image = <<>>
                     /\ read.services[s].build = <<>> <=> c.services[s].build = <<>>
<1>. DEFINE x == [t \in Text |-> Expand(t, env)]
            k == [t \in Text |-> x[t].ok]  y == [t \in Text |-> x[t].val]
            F(z) == IF VisitCompose(c, [t \in Text |-> TRUE])
                             = VisitCompose(c, [t \in Text |-> z[t].ok])
                    THEN Ok(VisitCompose(c, [t \in Text |-> z[t].val]))
                    ELSE Err("Interpolation")
<1>1. Interpolate(c, env) = With(x, LAMBDA z : F(z)) BY DEF Interpolate
<1>2. Interpolate(c, env) = F(x)
  <2>. HIDE DEF F, x
  <2>. QED BY <1>1 DEF With
<1>3. VisitCompose(c, Always) = VisitCompose(c, k) /\ Interpolate(c, env).val = VisitCompose(c, y)
  <2>. HIDE DEF x
  <2>. QED BY <1>2 DEF Ok, Err, Always
<1>4. Reader(k, y)
  <2>. SUFFICES ASSUME NEW t \in Text, k[t] = TRUE PROVE y[t] \in Text BY DEF Reader
  <2>1. x[t] = Expand(t, env) OBVIOUS
  <2>2. k[t] = x[t].ok /\ y[t] = x[t].val
    <3>. HIDE DEF x
    <3>. QED OBVIOUS
  <2>. HIDE DEF x, k, y
  <2>3. Expand(t, env).ok BY <2>1, <2>2
  <2>4. t \in Seq(Chars) /\ \A v \in DOMAIN env : env[v] \in Seq(Chars) BY TextIs, Zenon
  <2>5. Expand(t, env).val \in Seq(Chars) BY <2>3, <2>4, DollarIsChar, ExpandTyped, Zenon
  <2>. QED BY <2>1, <2>2, <2>5, TextIs, Zenon
<1>. HIDE DEF k, y
<1>. QED BY <1>3, <1>4, VisitComposeTyped

-----------------------------------------------------------------------------
(* The planner: what it writes is text, and what it lays out are operations. *)
\* The characters that the planner writes of its own.
LEMMA PlannerChars ==
    /\ "_" \in Chars /\ ":" \in Chars /\ "/" \in Chars /\ "=" \in Chars
    /\ "latest" \in Chars /\ "tcp" \in Chars /\ "ro" \in Chars /\ "project" \in Chars
BY Zenon DEF Chars, Marks, Words

\* A few of them make a text.
LEMMA Writes ==
    ASSUME NEW x \in Chars, NEW y \in Chars
    PROVE  <<x>> \in Text /\ <<x, y>> \in Text /\ <<>> \in Text
<1>1. <<x>> \in Seq(Chars) /\ <<x, y>> \in Seq(Chars) /\ <<>> \in Seq(Chars) OBVIOUS
<1>. QED BY <1>1, TextIs, Zenon

\* Two texts end to end are one.
LEMMA Joins ==
    ASSUME NEW p \in Text, NEW q \in Text
    PROVE  p \o q \in Text
<1>1. p \in Seq(Chars) /\ q \in Seq(Chars) BY TextIs, Zenon
<1>2. p \o q \in Seq(Chars) BY <1>1
<1>. QED BY <1>2, TextIs, Zenon

\* The texts among those: one named for each place it is written.
LEMMA PlannerTexts ==
    /\ <<"_">> \in Text /\ <<":">> \in Text /\ <<"/">> \in Text /\ <<"=">> \in Text
    /\ <<"tcp">> \in Text /\ <<"project">> \in Text /\ <<>> \in Text
    /\ <<":", "latest">> \in Text /\ <<":", "ro">> \in Text
BY PlannerChars, Writes, Zenon

\* container_name and the tag of a built image (lib.rs).
LEMMA NamesTyped ==
    ASSUME NEW project \in Text, NEW s \in Services
    PROVE  ContainerName(project, s) \in Text /\ Tag(project, s) \in Text
<1>1. Name[s] \in Text BY NameAssumption
<1>2. project \o <<"_">> \in Text BY PlannerTexts, Joins, Zenon
<1>3. ContainerName(project, s) \in Text BY <1>1, <1>2, Joins, Zenon DEF ContainerName
<1>4. Tag(project, s) \in Text BY <1>3, PlannerTexts, Joins, Zenon DEF Tag
<1>. QED BY <1>3, <1>4

\* An option that holds a value holds one of the kind.
LEMMA HasValue ==
    ASSUME NEW T, NEW q \in Option(T), q # <<>>
    PROVE  q[1] \in T
<1>1. q \in Seq(T) BY DEF Option
<1>. QED BY <1>1

\* What an environment, a port, a mount and a command line are written as.
LEMMA EnvironmentTyped ==
    ASSUME NEW em \in EnvBlock
    PROVE  Environment(em) \in Seq(Text)
<1>1. CASE em \in [form : {"empty"}]
  <2>1. em.form = "empty" BY <1>1
  <2>2. Environment(em) = <<>> BY <2>1 DEF Environment
  <2>. QED BY <2>2
<1>2. CASE em \in [form : {"list"}, items : Seq(Text)]
  <2>1. em.form = "list" /\ em.items \in Seq(Text) BY <1>2
  <2>2. Environment(em) = em.items BY <2>1 DEF Environment
  <2>. QED BY <2>1, <2>2
<1>3. CASE em \in [form : {"map"}, items : Seq(Text \X Option(Text))]
  <2>. DEFINE T == Text \X Option(Text)  q == em.items
              line(kv) == IF kv[2] = <<>> THEN kv[1] ELSE kv[1] \o <<"=">> \o kv[2][1]
  <2>1. em.form = "map" /\ q \in Seq(T) BY <1>3
  <2>2. Environment(em) = [i \in DOMAIN q |-> line(q[i])] BY <2>1 DEF Environment, ForEach
  <2>3. \A i \in DOMAIN q : q[i] \in T
    <3>. HIDE DEF T, q
    <3>. QED BY <2>1
  <2>. HIDE DEF q
  <2>4. ASSUME NEW kv \in T PROVE line(kv) \in Text
    <3>1. kv[1] \in Text /\ kv[2] \in Option(Text) BY <2>4
    <3>2. CASE kv[2] = <<>> BY <3>1, <3>2
    <3>3. CASE kv[2] # <<>>
      <4>1. kv[2][1] \in Text BY <3>1, <3>3, HasValue
      <4>2. kv[1] \o <<"=">> \in Text BY <3>1, PlannerTexts, Joins, Zenon
      <4>3. kv[1] \o <<"=">> \o kv[2][1] \in Text BY <4>1, <4>2, Joins, Zenon
      <4>. QED BY <3>3, <4>3, Zenon
    <3>. QED BY <3>2, <3>3
  <2>. HIDE DEF T, line
  <2>5. Environment(em) \in [DOMAIN q -> Text] BY <2>2, <2>3, <2>4
  <2>. QED BY <2>1, <2>5, IsSequence
<1>. QED BY <1>1, <1>2, <1>3 DEF EnvBlock

LEMMA PortTextTyped ==
    ASSUME NEW port \in PortBinding
    PROVE  PortText(port) \in Text
<1>1. CASE port \in [form : {"short"}, text : Text]
  <2>1. port.form = "short" /\ port.text \in Text BY <1>1
  <2>2. PortText(port) = port.text BY <2>1 DEF PortText
  <2>. QED BY <2>1, <2>2
<1>2. CASE port \in PortLong
  <2>. DEFINE proto == <<"/">> \o (IF port.protocol = <<>> THEN <<"tcp">> ELSE port.protocol[1])
              host == IF port.host_ip = <<>> THEN <<>> ELSE port.host_ip[1] \o <<":">>
  <2>1. /\ port.form = "long" /\ port.target \in Text /\ port.host_ip \in Option(Text)
        /\ port.published \in Option(Text) /\ port.protocol \in Option(Text)
    BY <1>2 DEF PortLong
  <2>2. PortText(port) = IF port.published # <<>>
                         THEN host \o port.published[1] \o <<":">> \o port.target \o proto
                         ELSE port.target \o proto
    <3>1. port.form # "short" BY <2>1
    <3>. QED BY <2>1, <3>1 DEF PortText
  <2>3. proto \in Text
    <3>1. port.protocol # <<>> => port.protocol[1] \in Text BY <2>1, HasValue
    <3>2. (IF port.protocol = <<>> THEN <<"tcp">> ELSE port.protocol[1]) \in Text
      BY <3>1, PlannerTexts, Zenon
    <3>. QED BY <3>2, PlannerTexts, Joins, Zenon
  <2>4. host \in Text
    <3>1. port.host_ip # <<>> => port.host_ip[1] \in Text BY <2>1, HasValue
    <3>2. port.host_ip # <<>> => port.host_ip[1] \o <<":">> \in Text
      BY <3>1, PlannerTexts, Joins, Zenon
    <3>. QED BY <3>2, PlannerTexts, Zenon
  <2>. HIDE DEF proto, host
  <2>5. CASE port.published # <<>>
    <3>1. port.published[1] \in Text BY <2>1, <2>5, HasValue
    <3>2. host \o port.published[1] \in Text BY <2>4, <3>1, Joins, Zenon
    <3>3. host \o port.published[1] \o <<":">> \in Text BY <3>2, PlannerTexts, Joins, Zenon
    <3>4. host \o port.published[1] \o <<":">> \o port.target \in Text
      BY <2>1, <3>3, Joins, Zenon
    <3>5. host \o port.published[1] \o <<":">> \o port.target \o proto \in Text
      BY <2>3, <3>4, Joins, Zenon
    <3>. QED BY <2>2, <2>5, <3>5, Zenon
  <2>6. CASE port.published = <<>>
    <3>1. port.target \o proto \in Text BY <2>1, <2>3, Joins, Zenon
    <3>. QED BY <2>2, <2>6, <3>1, Zenon
  <2>. QED BY <2>5, <2>6
<1>. QED BY <1>1, <1>2 DEF PortBinding

LEMMA MountTextTyped ==
    ASSUME NEW mount \in MountSpec
    PROVE  MountText(mount) \in Text
<1>1. CASE mount \in [form : {"short"}, text : Text]
  <2>1. mount.form = "short" /\ mount.text \in Text BY <1>1
  <2>. QED BY <2>1 DEF MountText
<1>2. CASE mount \in MountLong
  <2>. DEFINE from == IF mount.source = <<>> THEN <<>> ELSE mount.source[1]
              mode == IF mount.read_only THEN <<":", "ro">> ELSE <<>>
  <2>1. mount.form = "long" /\ mount.source \in Option(Text) /\ mount.target \in Text
    BY <1>2 DEF MountLong
  <2>2. MountText(mount) = from \o <<":">> \o mount.target \o mode BY <2>1, Zenon DEF MountText
  <2>3. from \in Text
    <3>1. mount.source # <<>> => mount.source[1] \in Text BY <2>1, HasValue
    <3>. QED BY <3>1, PlannerTexts, Zenon
  <2>4. mode \in Text BY PlannerTexts, Zenon
  <2>. HIDE DEF from, mode
  <2>5. from \o <<":">> \in Text BY <2>3, PlannerTexts, Joins, Zenon
  <2>6. from \o <<":">> \o mount.target \in Text BY <2>1, <2>5, Joins, Zenon
  <2>7. from \o <<":">> \o mount.target \o mode \in Text BY <2>4, <2>6, Joins, Zenon
  <2>. QED BY <2>2, <2>7, Zenon
<1>. QED BY <1>1, <1>2 DEF MountSpec

LEMMA AsListTyped ==
    ASSUME NEW sol \in StringOrList
    PROVE  AsList(sol) \in Seq(Text)
<1>1. CASE sol \in [form : {"string"}, text : Text]
  <2>1. sol.form = "string" /\ sol.text \in Text BY <1>1
  <2>2. AsList(sol) = <<sol.text>> BY <2>1 DEF AsList
  <2>. QED BY <2>1, <2>2
<1>2. CASE sol \in [form : {"list"}, items : Seq(Text)]
  <2>1. sol.form = "list" /\ sol.items \in Seq(Text) BY <1>2
  <2>. QED BY <2>1 DEF AsList
<1>. QED BY <1>1, <1>2 DEF StringOrList

\* A service that parse_str lets through has an image or a build.
Made(svc) == svc.image # <<>> \/ svc.build # <<>>

\* A command, the ports and the mounts of a service, as they are written.
LEMMA ListsTyped ==
    ASSUME NEW q \in Option(StringOrList)
    PROVE  ForEach(AsList, q) \in Option(Seq(Text))
<1>1. q \in Seq(StringOrList) BY DEF Option
<1>2. \A i \in DOMAIN q : q[i] \in StringOrList BY <1>1
<1>3. \A i \in DOMAIN q : AsList(q[i]) \in Seq(Text) BY <1>2, AsListTyped
<1>4. ForEach(AsList, q) = [i \in DOMAIN q |-> AsList(q[i])] BY DEF ForEach
<1>5. ForEach(AsList, q) \in [DOMAIN q -> Seq(Text)] BY <1>3, <1>4
<1>. QED BY <1>5, OptionMapped

LEMMA PortsTyped ==
    ASSUME NEW q \in Seq(PortBinding)
    PROVE  ForEach(PortText, q) \in Seq(Text)
<1>1. \A i \in DOMAIN q : q[i] \in PortBinding OBVIOUS
<1>2. \A i \in DOMAIN q : PortText(q[i]) \in Text BY <1>1, PortTextTyped
<1>3. ForEach(PortText, q) = [i \in DOMAIN q |-> PortText(q[i])] BY DEF ForEach
<1>4. ForEach(PortText, q) \in [DOMAIN q -> Text] BY <1>2, <1>3
<1>. QED BY <1>4, IsSequence

LEMMA MountTextsTyped ==
    ASSUME NEW q \in Seq(MountSpec)
    PROVE  ForEach(MountText, q) \in Seq(Text)
<1>1. \A i \in DOMAIN q : q[i] \in MountSpec OBVIOUS
<1>2. \A i \in DOMAIN q : MountText(q[i]) \in Text BY <1>1, MountTextTyped
<1>3. ForEach(MountText, q) = [i \in DOMAIN q |-> MountText(q[i])] BY DEF ForEach
<1>4. ForEach(MountText, q) \in [DOMAIN q -> Text] BY <1>2, <1>3
<1>. QED BY <1>4, IsSequence

\* run_op, pull_op and build_op of a service (lib.rs of selur-compose-plan).
LEMMA RunOpTyped ==
    ASSUME NEW project \in Text, NEW s \in Services, NEW svc \in Service, Made(svc)
    PROVE  RunOp(project, s, svc) \in Op
<1>. DEFINE image == IF svc.build # <<>> THEN Tag(project, s) ELSE svc.image[1]
            name == ContainerName(project, s)
            env == Environment(svc.environment)
            ports == ForEach(PortText, svc.ports)
            mounts == ForEach(MountText, svc.volumes)
            nets == IF svc.network_mode # <<>> THEN <<>> ELSE svc.networks
            mode == svc.network_mode
            cmd == ForEach(AsList, svc.command)
            entry == ForEach(AsList, svc.entrypoint)
            restart == svc.restart
            op == RunOp(project, s, svc)
<1>1. op = [op |-> "run", service |-> s, project |-> project, image |-> image, name |-> name,
            environment |-> env, ports |-> ports, volumes |-> mounts, networks |-> nets,
            network_mode |-> mode, command |-> cmd, entrypoint |-> entry, restart |-> restart]
  BY DEF RunOp
<1>2. /\ svc.image \in Option(Text) /\ svc.environment \in EnvBlock
      /\ svc.ports \in Seq(PortBinding) /\ svc.volumes \in Seq(MountSpec)
      /\ svc.networks \in Seq(Text) /\ svc.network_mode \in Option(NetworkMode)
      /\ svc.command \in Option(StringOrList) /\ svc.entrypoint \in Option(StringOrList)
      /\ svc.restart \in RestartPolicy
  BY DEF Service
<1>3. image \in Text /\ name \in Text
  <2>1. svc.build = <<>> => svc.image[1] \in Text BY <1>2, HasValue DEF Made
  <2>. QED BY <2>1, NamesTyped
<1>4. env \in Seq(Text) BY <1>2, EnvironmentTyped
<1>5. ports \in Seq(Text) BY <1>2, PortsTyped
<1>6. mounts \in Seq(Text) BY <1>2, MountTextsTyped
<1>7. nets \in Seq(Text) BY <1>2
<1>8. mode \in Option(NetworkMode) /\ restart \in RestartPolicy BY <1>2
<1>9. cmd \in Option(Seq(Text)) /\ entry \in Option(Seq(Text)) BY <1>2, ListsTyped
<1>. HIDE DEF image, name, env, ports, mounts, nets, mode, cmd, entry, restart, op
<1>10. op \in [op : {"run"}, service : Services, project : Text, image : Text, name : Text,
               environment : Seq(Text), ports : Seq(Text), volumes : Seq(Text),
               networks : Seq(Text), network_mode : Option(NetworkMode),
               command : Option(Seq(Text)), entrypoint : Option(Seq(Text)),
               restart : RestartPolicy]
  BY <1>1, <1>3, <1>4, <1>5, <1>6, <1>7, <1>8, <1>9
<1>11. op \in Op BY <1>10, Zenon DEF Op
<1>. QED BY <1>11 DEF op

\* The barrier for a service.
LEMMA WaitOpTyped ==
    ASSUME NEW project \in Text, NEW s \in Services
    PROVE  WaitOp(project, s) \in Op
<1>1. ContainerName(project, s) \in Text BY NamesTyped
<1>2. WaitOp(project, s) \in [op : {"wait"}, service : Services, name : Text]
  BY <1>1 DEF WaitOp
<1>. QED BY <1>2, Zenon DEF Op

\* A build or a pull for a service.
LEMMA ImageOpTyped ==
    ASSUME NEW project \in Text, NEW s \in Services, NEW svc \in Service, Made(svc)
    PROVE  (IF svc.build # <<>> THEN BuildOp(project, s, svc.build[1])
            ELSE [op |-> "pull", service |-> s, image |-> svc.image[1]]) \in Op
<1>1. svc.image \in Option(Text) /\ svc.build \in Option(Build) BY DEF Service
<1>2. CASE svc.build # <<>>
  <2>. DEFINE b == svc.build[1]
  <2>1. b \in Build BY <1>1, <1>2, HasValue
  <2>2. /\ b.context \in Text /\ b.dockerfile \in Option(Text) /\ b.args \in Dict
        /\ b.target \in Option(Text) /\ b.no_cache \in BOOLEAN
    BY <2>1 DEF Build
  <2>. HIDE DEF b
  <2>3. Tag(project, s) \in Text BY NamesTyped
  <2>4. BuildOp(project, s, b) \in
            [op : {"build"}, service : Services, context : Text, dockerfile : Option(Text),
             args : Dict, target : Option(Text), tag : Text, no_cache : BOOLEAN]
    BY <2>2, <2>3 DEF BuildOp
  <2>5. BuildOp(project, s, b) \in Op BY <2>4, Zenon DEF Op
  <2>. QED BY <1>2, <2>5 DEF b
<1>3. CASE svc.build = <<>>
  <2>1. svc.image[1] \in Text BY <1>1, <1>3, HasValue DEF Made
  <2>2. [op |-> "pull", service |-> s, image |-> svc.image[1]]
            \in [op : {"pull"}, service : Services, image : Text]
    BY <2>1
  <2>3. [op |-> "pull", service |-> s, image |-> svc.image[1]] \in Op BY <2>2, Zenon DEF Op
  <2>. QED BY <1>3, <2>3
<1>. QED BY <1>2, <1>3

\* network_ops and volume_ops.
LEMMA SharedOpsTyped ==
    ASSUME NEW project \in Text, NEW c, c.networks \in Named(Network), c.volumes \in Named(Network)
    PROVE  NetworkOps(c, project) \in Seq(Op) /\ VolumeOps(c, project) \in Seq(Op)
<1>. DEFINE P == Text \X Network
            shared(kind, e) == [op |-> kind, name |-> e[1], driver |-> e[2].driver,
                                project |-> project]
<1>1. c.networks \in Seq(P) /\ c.volumes \in Seq(P) BY DEF Named
<1>2. ASSUME NEW kind \in {"network", "volume"}, NEW e \in P PROVE shared(kind, e) \in Op
  <2>1. e[1] \in Text /\ e[2] \in Network BY <1>2
  <2>2. e[2].driver \in Option(Text) BY <2>1 DEF Network
  <2>3. shared(kind, e) \in [op : {"network", "volume"}, name : Text, driver : Option(Text),
                             project : Text]
    BY <2>1, <2>2
  <2>. HIDE DEF shared
  <2>. QED BY <2>3, Zenon DEF Op
<1>3. NetworkOps(c, project) = [i \in DOMAIN c.networks |-> shared("network", c.networks[i])]
  BY DEF NetworkOps, ForEach
<1>4. VolumeOps(c, project) = [i \in DOMAIN c.volumes |-> shared("volume", c.volumes[i])]
  BY DEF VolumeOps, ForEach
<1>. HIDE DEF P, shared
<1>5. (\A i \in DOMAIN c.networks : c.networks[i] \in P)
      /\ (\A i \in DOMAIN c.volumes : c.volumes[i] \in P)
  BY <1>1
<1>6. NetworkOps(c, project) \in [DOMAIN c.networks -> Op] BY <1>2, <1>3, <1>5
<1>7. VolumeOps(c, project) \in [DOMAIN c.volumes -> Op] BY <1>2, <1>4, <1>5
<1>8. NetworkOps(c, project) \in Seq(Op) BY <1>1, <1>6, IsSequence
<1>9. VolumeOps(c, project) \in Seq(Op) BY <1>1, <1>7, IsSequence
<1>. QED BY <1>8, <1>9

\* Layout: what plan in lib.rs writes down.
LEMMA LayoutTyped ==
    ASSUME NEW project \in Text, NEW c, c.networks \in Named(Network), c.volumes \in Named(Network),
           NEW active, Selectable(active),
           \A s \in DOMAIN active : active[s] \in Service /\ Made(active[s]),
           NEW waves, Layered(active, waves)
    PROVE  Layout(c, active, waves, project).ops \in Seq(Op)
<1>. DEFINE N == NetworkOps(c, project)  V == VolumeOps(c, project)
            I == ImageOps(active, project)  q == InOrder(DOMAIN active)
            F == FlattenSeq([k \in DOMAIN waves |-> WaveOps(waves, k, active, project)])
            E == WaveOp(active, project)
            image(s) == IF active[s].build # <<>> THEN BuildOp(project, s, active[s].build[1])
                        ELSE [op |-> "pull", service |-> s, image |-> active[s].image[1]]
<1>1. Layout(c, active, waves, project).ops = N \o V \o I \o F BY DEF Layout
<1>2. N \in Seq(Op) /\ V \in Seq(Op) BY SharedOpsTyped
<1>3. DOMAIN active \subseteq Services BY DEF Selectable
<1>4. I \in Seq(Op)
  <2>1. q \in Seq(DOMAIN active) BY <1>3, InOrderOf
  <2>2. \A s \in DOMAIN active : image(s) \in Op BY <1>3, ImageOpTyped
  <2>3. I = [i \in DOMAIN q |-> image(q[i])] BY DEF ImageOps, ForEach
  <2>. HIDE DEF image, I, q
  <2>4. \A i \in DOMAIN q : q[i] \in DOMAIN active BY <2>1
  <2>5. I \in [DOMAIN q -> Op] BY <2>2, <2>3, <2>4
  <2>. QED BY <2>1, <2>5, IsSequence
<1>5. F \in Seq(E) BY WavesOrdered
<1>6. E \subseteq Op BY <1>3, RunOpTyped, WaitOpTyped DEF WaveOp
<1>. HIDE DEF N, V, I, F, E
<1>7. F \in Seq(Op) BY <1>5, <1>6, SeqMonotonic
<1>8. N \o V \o I \o F \in Seq(Op) BY <1>2, <1>4, <1>7
<1>. QED BY <1>1, <1>8

\* project_name (lib.rs): the option's, the file's, or "project".
LEMMA ProjectNameTyped ==
    ASSUME NEW c, c.project \in Option(Text), NEW opts, opts.project_name \in Option(Text)
    PROVE  ProjectName(c, opts) \in Text
<1>. DEFINE given == opts.project_name  said == c.project
<1>1. given # <<>> => given[1] \in Text BY HasValue
<1>2. said # <<>> => said[1] \in Text BY HasValue
<1>3. CASE given # <<>>
  <2>1. ProjectName(c, opts) = given[1] BY <1>3 DEF ProjectName
  <2>. QED BY <1>1, <1>3, <2>1
<1>4. CASE given = <<>> /\ said # <<>>
  <2>1. ProjectName(c, opts) = said[1] BY <1>4 DEF ProjectName
  <2>. QED BY <1>2, <1>4, <2>1
<1>5. CASE given = <<>> /\ said = <<>>
  <2>1. ProjectName(c, opts) = <<"project">> BY <1>5 DEF ProjectName
  <2>. QED BY <2>1, PlannerTexts, Zenon
<1>. QED BY <1>3, <1>4, <1>5

\* The environment that a command reads holds texts.
LEMMA JobEnvTyped ==
    ASSUME NEW j \in Jobs, BuildEnv(Job[j].process, Job[j].dot_env, Job[j].env_files).ok
    PROVE  LET env == BuildEnv(Job[j].process, Job[j].dot_env, Job[j].env_files).val
           IN  \A v \in DOMAIN env : env[v] \in Text
<1>. DEFINE process == Job[j].process  dot == Job[j].dot_env  extra == Job[j].env_files
<1>1. /\ dot \in Option(Seq(Text)) /\ extra \in Seq(Option(Seq(Text)))
      /\ \A v \in DOMAIN process : process[v] \in Text
  BY FilesAssumption
<1>. HIDE DEF process, dot, extra
<1>2. /\ dot \in Option(Seq(Seq(Chars))) /\ extra \in Seq(Option(Seq(Seq(Chars))))
      /\ \A v \in DOMAIN process : process[v] \in Seq(Chars)
  BY <1>1, TextIs, Zenon
<1>3. BuildEnv(process, dot, extra).ok BY DEF process, dot, extra
<1>4. \A v \in DOMAIN BuildEnv(process, dot, extra).val :
          BuildEnv(process, dot, extra).val[v] \in Seq(Chars)
  BY <1>2, <1>3, EnvTyped, Zenon
<1>. QED BY <1>4, TextIs, Zenon DEF process, dot, extra

\* What a command that loads has read is a compose file, each of its services
\* with an image or a build.
LEMMA ReadTyped ==
    ASSUME NEW j \in Jobs, Loads[j].ok
    PROVE  \E read \in Compose :
              /\ Plan(read, Options(Job[j])).ok
              /\ Loads[j].val.plan = Plan(read, Options(Job[j])).val
              /\ \A s \in DOMAIN read.services : Made(read.services[s])
<1>. DEFINE job == Job[j]  file == ResolveComposeFile(job.file, job.here)
            env == BuildEnv(job.process, job.dot_env, job.env_files)
            c == file[1]  read == Interpolate(c, env.val).val
<1>1. Loads[j] = Load(job) BY DEF Loads
<1>2. /\ file # <<>> /\ Validate(c).ok /\ env.ok /\ Interpolate(c, env.val).ok
      /\ Plan(read, Options(job)).ok
      /\ Loads[j].val = [compose |-> read, plan |-> Plan(read, Options(job)).val]
  BY <1>1, LoadAnswers
<1>3. FileTyped(c) BY <1>2, FilesAssumption DEF FileTyped
<1>4. \A v \in DOMAIN env.val : env.val[v] \in Text BY <1>2, JobEnvTyped
<1>. HIDE DEF env, file
<1>6. \A s \in DOMAIN c.services : Made(c.services[s])
  <2>. HIDE DEF c
  <2>. QED BY <1>2 DEF Validate, Err, Made
<1>. DEFINE v == env.val
<1>. HIDE DEF c, v
<1>7. /\ read \in Compose /\ DOMAIN read.services = DOMAIN c.services
      /\ \A s \in DOMAIN c.services :
            /\ read.services[s].image = <<>> <=> c.services[s].image = <<>>
            /\ read.services[s].build = <<>> <=> c.services[s].build = <<>>
  <2>1. Interpolate(c, v).ok /\ \A u \in DOMAIN v : v[u] \in Text BY <1>2, <1>4 DEF v
  <2>. QED BY <1>3, <2>1, InterpolateTyped DEF v
<1>. HIDE DEF read, job
<1>8. \A s \in DOMAIN read.services : Made(read.services[s]) BY <1>6, <1>7 DEF Made
<1>9. Loads[j].val.plan = Plan(read, Options(job)).val BY <1>2
<1>. QED BY <1>2, <1>7, <1>8, <1>9 DEF job

\* Every plan that is loaded consists of operations.
LEMMA PlanTyped ==
    ASSUME NEW read \in Compose, \A s \in DOMAIN read.services : Made(read.services[s]),
           NEW opts, opts.project_name \in Option(Text), Plan(read, opts).ok
    PROVE  Plan(read, opts).val.ops \in Seq(Op)
<1>. DEFINE active == Active(read, opts.profiles)  project == ProjectName(read, opts)
<1>1. /\ read.project \in Option(Text) /\ read.services \in Partial(Services, Service)
      /\ read.networks \in Named(Network) /\ read.volumes \in Named(Network)
  BY DEF Compose, Volume
<1>2. /\ DOMAIN read.services \subseteq Services
      /\ \A s \in DOMAIN read.services : read.services[s] \in Service
  BY <1>1 DEF Partial
<1>3. \A svc \in Service : svc.depends_on \in DependsOn BY DEF Service
<1>4. Selectable(read.services) BY <1>2, <1>3 DEF Selectable
<1>5. PICK waves : /\ Plan(read, opts).val = Layout(read, active, waves, project)
                   /\ Layered(active, waves)
  BY <1>4, PlanAnswers
<1>6. Selectable(active) BY <1>4, ActiveSelectable
<1>7. \A s \in DOMAIN active : s \in DOMAIN read.services /\ active[s] = read.services[s]
  BY DEF Active, Profiled
<1>8. project \in Text BY <1>1, ProjectNameTyped
<1>. HIDE DEF active, project
<1>9. \A s \in DOMAIN active : active[s] \in Service /\ Made(active[s]) BY <1>2, <1>7
<1>10. Layout(read, active, waves, project).ops \in Seq(Op)
  BY <1>1, <1>5, <1>6, <1>8, <1>9, LayoutTyped
<1>. QED BY <1>5, <1>10

\* What a command walks through (execute in executor.rs, and the loops of build and
\* pull) are operations that podman is given: an image or a tag that is a text, a
\* service of the file, a network mode of the schema.
THEOREM EveryStepTyped == \A j \in Jobs : Steps[j] \in Seq(Op)
<1>. SUFFICES ASSUME NEW j \in Jobs PROVE Steps[j] \in Seq(Op) OBVIOUS
<1>1. CASE ~Loads[j].ok
  <2>1. Steps[j] = <<>> BY <1>1 DEF Steps
  <2>. QED BY <2>1
<1>2. CASE Loads[j].ok
  <2>. DEFINE ops == Loads[j].val.plan.ops  opts == Options(Job[j])
              I == {i \in DOMAIN ops : Performs(Job[j], ops[i])}
  <2>1. Steps[j] = AtPlaces(ops, I) BY <1>2 DEF Steps, Performed
  <2>2. opts.project_name \in Option(Text) BY FilesAssumption DEF Options
  <2>3. PICK read \in Compose : /\ Plan(read, opts).ok
                                /\ Loads[j].val.plan = Plan(read, opts).val
                                /\ \A s \in DOMAIN read.services : Made(read.services[s])
    BY <1>2, ReadTyped
  <2>. HIDE DEF opts
  <2>4. Plan(read, opts).val.ops \in Seq(Op) BY <2>2, <2>3, PlanTyped
  <2>5. ops \in Seq(Op) BY <2>3, <2>4
  <2>6. I \in SUBSET DOMAIN ops OBVIOUS
  <2>. HIDE DEF ops, I
  <2>7. AtPlaces(ops, I) \in Seq(Op) BY <2>5, <2>6, AtPlacesPicks
  <2>. QED BY <2>1, <2>7
<1>. QED BY <1>1, <1>2
-----------------------------------------------------------------------------
(* Podman: the types, and what a call may do to the containers there were.  *)

\* No call changes the project of a container, a new one has a new id, and
\* only rm takes one away.
SameProjects ==
    /\ made' \in Nat /\ made <= made'
    /\ \A id \in DOMAIN containers' \cap (1..made) :
            id \in DOMAIN containers /\ containers'[id].project = containers[id].project
Kept == SameProjects /\ DOMAIN containers \subseteq DOMAIN containers'

LEMMA ContainerShape ==
    ASSUME PodmanType
    PROVE  /\ \A id \in DOMAIN containers : containers[id] \in Container /\ id \in 1..made
           /\ made \in Nat /\ MaxContainers \in Nat
BY PodmanAssumption DEF PodmanType

LEMMA SameContainers ==
    ASSUME PodmanType, UNCHANGED <<containers, made, turns>>,
           networks' \subseteq Text, volumes' \subseteq Text, images' \subseteq Text
    PROVE  PodmanType' /\ Kept
BY ContainerShape DEF PodmanType, SameProjects, Kept

LEMMA OpShape ==
    ASSUME NEW o \in Op
    PROVE  /\ o.op \in {"network", "volume"} => o.name \in Text /\ o.project \in Text
           /\ o.op = "build" => o.tag \in Text /\ o.service \in Services
           /\ o.op = "pull" => o.image \in Text /\ o.service \in Services
           /\ o.op = "run" => /\ o.name \in Text /\ o.project \in Text
                              /\ o.image \in Text /\ o.service \in Services
           /\ o.op = "wait" => o.service \in Services
BY DEF Op

LEMMA ResourceStep ==
    ASSUME PodmanType, NEW o \in Op,
           \/ o.op = "network" /\ CreateNetwork(o)
           \/ o.op = "volume" /\ CreateVolume(o)
           \/ o.op = "build" /\ BuildImage(o)
           \/ o.op = "pull" /\ PullImage(o.image)
    PROVE  PodmanType' /\ Kept
<1>1. CASE o.op = "network" /\ CreateNetwork(o)
  BY <1>1, OpShape, SameContainers DEF CreateNetwork, NetworkCreateArgv, PodmanType
<1>2. CASE o.op = "volume" /\ CreateVolume(o)
  BY <1>2, OpShape, SameContainers DEF CreateVolume, VolumeCreateArgv, PodmanType
<1>3. CASE o.op = "build" /\ BuildImage(o)
  BY <1>3, OpShape, SameContainers DEF BuildImage, BuildArgv, PodmanType
<1>4. CASE o.op = "pull" /\ PullImage(o.image)
  BY <1>4, OpShape, SameContainers DEF PullImage, PodmanType
<1>. QED BY <1>1, <1>2, <1>3, <1>4

LEMMA HealthTypes ==
    {<<>>, <<"starting">>, <<"healthy">>, <<"unhealthy">>} \subseteq Health
BY DEF Health, Option

\* A changed or added container.
LEMMA PutType ==
    ASSUME PodmanType, NEW id \in 1..made', NEW c \in Container,
           containers' = Put(containers, id, c),
           made' \in 0..MaxContainers, made <= made', turns' \in 0..MaxTurns,
           UNCHANGED <<networks, volumes>>, images' \subseteq Text
    PROVE  PodmanType'
<1>1. DOMAIN containers' = DOMAIN containers \cup {id}
  BY DEF Put
<1>2. ASSUME NEW i \in DOMAIN containers'
      PROVE  containers'[i] \in Container /\ i \in 1..made'
  BY <1>1, ContainerShape DEF Put
<1>3. containers' \in [DOMAIN containers' -> Container]
  BY <1>1, <1>2 DEF Put
<1>4. DOMAIN containers' \subseteq Ids /\ DOMAIN containers' \subseteq 1..made'
  BY <1>2, ContainerShape DEF Ids
<1>. QED BY <1>3, <1>4 DEF PodmanType

LEMMA RunTypes ==
    ASSUME PodmanType, NEW o \in Op, o.op = "run", RunContainer(o) \/ RunAborted(o)
    PROVE  /\ PodmanType' /\ Kept
           /\ made' = made + 1 /\ made' \in Ids
           /\ UNCHANGED <<networks, volumes, turns>>
<1> DEFINE argv == RunArgv(o)
<1>1. argv.name \in Text /\ argv.label.project \in Text /\ argv.label.service \in Services
      /\ argv.image \in Text
  BY OpShape DEF RunArgv
<1>2. PICK state \in States : NewContainer(argv, state)
  BY DEF RunContainer, RunAborted, States
<1> HIDE DEF argv
<1> DEFINE c == [name |-> argv.name, project |-> argv.label.project,
                 service |-> argv.label.service, state |-> state,
                 health |-> IF argv.image \in Probed THEN <<"starting">> ELSE <<>>]
<1>3. c \in Container
  BY <1>1, HealthTypes DEF Container
<1>4. /\ made' = made + 1 /\ made' \in 0..MaxContainers /\ made' \in 1..made' /\ made' \in Ids
      /\ containers' = Put(containers, made', c)
      /\ UNCHANGED <<networks, volumes, turns>> /\ images' \subseteq Text
  BY <1>1, <1>2, ContainerShape DEF NewContainer, PodmanType, Ids
<1> HIDE DEF c
<1>5. PodmanType'
  BY <1>3, <1>4, PutType, ContainerShape DEF PodmanType
<1>6. Kept
  BY <1>4, ContainerShape DEF SameProjects, Kept, Put
<1>. QED BY <1>4, <1>5, <1>6

\* stop, an exit and a probe change the state or the health of one container
LEMMA ChangeTypes ==
    ASSUME PodmanType, NEW id \in DOMAIN containers, NEW c \in Container,
           c.project = containers[id].project, containers' = [containers EXCEPT ![id] = c],
           turns' \in 0..MaxTurns, UNCHANGED <<made, networks, volumes, images>>
    PROVE  PodmanType' /\ Kept
<1>1. containers' = Put(containers, id, c)
  BY DEF Put
<1>2. PodmanType'
  BY <1>1, PutType, ContainerShape DEF PodmanType
<1>3. Kept
  BY ContainerShape DEF SameProjects, Kept
<1>. QED BY <1>2, <1>3

LEMMA StopTypes ==
    ASSUME PodmanType, NEW id, StopContainer(id)
    PROVE  PodmanType' /\ Kept
<1> DEFINE c == [containers[id] EXCEPT !.state = "exited"]
<1>1. c \in Container /\ c.project = containers[id].project
  BY ContainerShape DEF StopContainer, Container, States
<1>2. containers' = [containers EXCEPT ![id] = c]
  BY DEF StopContainer, StopArgv
<1>. QED BY <1>1, <1>2, ChangeTypes DEF StopContainer, PodmanType

LEMMA WorldTypes ==
    ASSUME PodmanType, NEW id \in DOMAIN containers, NEW reported \in {"healthy", "unhealthy"},
           Exit(id) \/ Probe(id, reported)
    PROVE  PodmanType' /\ Kept
<1>0. turns' \in 0..MaxTurns /\ UNCHANGED <<made, networks, volumes, images>>
  BY PodmanAssumption DEF PodmanType, Exit, Probe
<1>1. CASE Exit(id)
  <2> DEFINE c == [containers[id] EXCEPT !.state = "exited"]
  <2>1. c \in Container /\ c.project = containers[id].project
    BY ContainerShape DEF Container, States
  <2>2. containers' = [containers EXCEPT ![id] = c]
    BY <1>1 DEF Exit
  <2>. QED BY <2>1, <2>2, <1>0, ChangeTypes
<1>2. CASE Probe(id, reported)
  <2> DEFINE c == [containers[id] EXCEPT !.health = << reported >>]
  <2>1. c \in Container /\ c.project = containers[id].project
    BY ContainerShape, HealthTypes DEF Container
  <2>2. containers' = [containers EXCEPT ![id] = c]
    BY <1>2 DEF Probe
  <2>. QED BY <2>1, <2>2, <1>0, ChangeTypes
<1>. QED BY <1>1, <1>2

LEMMA RemoveTypes ==
    ASSUME PodmanType, NEW id, RemoveContainer(id)
    PROVE  /\ PodmanType' /\ SameProjects
           /\ DOMAIN containers' = DOMAIN containers \ {id}
<1>1. DOMAIN containers' = DOMAIN containers \ {id}
  BY DEF RemoveContainer
<1>2. containers' \in [DOMAIN containers' -> Container]
  BY ContainerShape, <1>1 DEF RemoveContainer
<1>3. SameProjects
  BY ContainerShape DEF RemoveContainer, SameProjects
<1>. QED BY <1>1, <1>2, <1>3 DEF PodmanType, RemoveContainer
-----------------------------------------------------------------------------
(* Commands: the types, and what a step of one does to the others.          *)

LEMMA CliShape ==
    ASSUME TypeOK
    PROVE  /\ Len(cli) \in Nat /\ DOMAIN cli = 1..Len(cli) /\ Len(cli) <= MaxCommands
           /\ \A p \in DOMAIN cli : cli[p] \in Process /\ cli[p].log \in TailState
           /\ cli \in [1..Len(cli) -> Process]
<1>1. /\ Len(cli) \in Nat /\ DOMAIN cli = 1..Len(cli) /\ Len(cli) <= MaxCommands
      /\ cli \in [1..Len(cli) -> Process] /\ \A p \in DOMAIN cli : cli[p] \in Process
  BY DEF TypeOK
<1>2. \A c \in Process : c.log \in TailState
  BY DEF Process
<1>. QED BY <1>1, <1>2

LEMMA StepsShape ==
    ASSUME NEW j \in Jobs
    PROVE  /\ Steps[j] \in Seq(Op) /\ Len(Steps[j]) \in Nat
           /\ DOMAIN Steps[j] = 1..Len(Steps[j])
           /\ \A i \in DOMAIN Steps[j] : Steps[j][i] \in Op
BY EveryStepTyped

\* A step of command p that is no part of a down: it walks on, or fails.
Walks(p) ==
    /\ DOMAIN cli' = DOMAIN cli
    /\ \A q \in DOMAIN cli \ {p} : cli'[q] = cli[q]
    /\ cli'[p].job = cli[p].job
    /\ cli'[p].before = cli[p].before /\ cli'[p].left = cli[p].left
    /\ \/ cli[p].phase \in {"ops", "tail"} /\ cli'[p].phase \in {"ops", "tail", "done"}
       \/ cli'[p].phase = "done" /\ ~cli'[p].ok

LEMMA OneMoves ==
    ASSUME TypeOK, NEW p \in DOMAIN cli, NEW c \in Process, cli' = [cli EXCEPT ![p] = c],
           c.phase = "ops" => c.at \in DOMAIN Steps[c.job],
           PodmanType', faults' \in 0..MaxFaults
    PROVE  /\ TypeOK' /\ DOMAIN cli' = DOMAIN cli /\ cli'[p] = c
           /\ \A q \in DOMAIN cli \ {p} : cli'[q] = cli[q]
<1>1. /\ cli' \in Seq(Process) /\ Len(cli') = Len(cli) /\ DOMAIN cli' = DOMAIN cli
      /\ cli'[p] = c /\ \A q \in DOMAIN cli \ {p} : cli'[q] = cli[q]
  BY CliShape
<1>. QED BY <1>1, CliShape DEF TypeOK

LEMMA Aborts ==
    ASSUME TypeOK, NEW p \in DOMAIN cli, Abort(p), PodmanType', faults' \in 0..MaxFaults
    PROVE  /\ TypeOK' /\ Walks(p)
           /\ cli' = [cli EXCEPT ![p] = [cli[p] EXCEPT !.phase = "done", !.ok = FALSE]]
<1> DEFINE c == [cli[p] EXCEPT !.phase = "done", !.ok = FALSE]
<1>1. /\ c \in Process /\ c.phase = "done" /\ ~c.ok
      /\ c.job = cli[p].job
      /\ c.before = cli[p].before /\ c.left = cli[p].left
  BY CliShape DEF Process
<1>2. cli' = [cli EXCEPT ![p] = c]
  BY CliShape DEF Abort
<1>. QED BY <1>1, <1>2, OneMoves DEF Walks

LEMMA PendingShape ==
    ASSUME TypeOK, NEW p, NEW o \in Pending(p)
    PROVE  /\ p \in DOMAIN cli /\ cli[p].phase = "ops" /\ cli[p].job \in Jobs
           /\ cli[p].at \in 1..Len(Steps[cli[p].job])
           /\ o = Steps[cli[p].job][cli[p].at] /\ o \in Op
BY CliShape, StepsShape DEF Pending, In, TypeOK, Process

LEMMA AdvancedShape ==
    ASSUME TypeOK, NEW p, Pending(p) # {}
    PROVE  LET c == Advanced(cli[p])
           IN  /\ c \in Process /\ c.job = cli[p].job
               /\ c.before = cli[p].before /\ c.left = cli[p].left
               /\ c.phase \in {"ops", "done"} /\ c.at = cli[p].at + 1
               /\ c.ran = cli[p].ran /\ c.gated = cli[p].gated /\ c.ok = cli[p].ok
               /\ c.log = cli[p].log
               /\ c.phase = "ops" => c.at \in DOMAIN Steps[c.job]
               /\ c.phase = "done" => c.at = Len(Steps[c.job]) + 1
<1> DEFINE c == Advanced(cli[p])
<1>1. PICK o : o \in Pending(p)
  OBVIOUS
<1>2. cli[p] \in Process /\ cli[p].at \in 1..Len(Steps[cli[p].job]) /\ cli[p].job \in Jobs
  BY <1>1, PendingShape, CliShape
<1> DEFINE phase == IF cli[p].at < Len(Steps[cli[p].job]) THEN "ops" ELSE "done"
<1>3. /\ phase \in {"ops", "done"} /\ (phase = "ops" <=> cli[p].at < Len(Steps[cli[p].job]))
      /\ c = [cli[p] EXCEPT !.at = @ + 1, !.late = FALSE, !.phase = phase]
  BY DEF Advanced
<1>4. cli[p].at + 1 \in Nat \ {0}
  BY <1>2, StepsShape
<1> HIDE DEF phase, c
<1>5. /\ c \in Process /\ c.job = cli[p].job
      /\ c.before = cli[p].before /\ c.left = cli[p].left
      /\ c.phase = phase
      /\ c.at = cli[p].at + 1 /\ c.ran = cli[p].ran /\ c.gated = cli[p].gated
      /\ c.ok = cli[p].ok /\ c.log = cli[p].log
  BY <1>2, <1>3, <1>4 DEF Process
<1>6. /\ c.phase = "ops" => c.at \in DOMAIN Steps[c.job]
      /\ c.phase = "done" => c.at = Len(Steps[c.job]) + 1
  BY <1>2, <1>3, <1>5, StepsShape
<1>. QED BY <1>3, <1>5, <1>6 DEF c

\* Advance: an operation of the plan without a container.
LEMMA Advances ==
    ASSUME TypeOK, NEW p, Pending(p) # {}, Advance(p), PodmanType'
    PROVE  TypeOK' /\ Walks(p) /\ cli'[p] = Advanced(cli[p])
<1>1. p \in DOMAIN cli /\ cli[p].phase = "ops"
  BY PendingShape
<1>2. cli' = [cli EXCEPT ![p] = Advanced(cli[p])] /\ faults' \in 0..MaxFaults
  BY <1>1, CliShape DEF Advance, TypeOK
<1>. QED BY <1>1, <1>2, AdvancedShape, OneMoves DEF Walks

\* RunStep: the service's container is noted.
LEMMA Runs ==
    ASSUME TypeOK, NEW p, NEW o \in Pending(p), o.op = "run", RunContainer(o),
           cli' = [cli EXCEPT ![p] = [Advanced(cli[p]) EXCEPT !.ran = Put(@, o.service, made')]],
           UNCHANGED faults
    PROVE  /\ TypeOK' /\ Walks(p) /\ Kept
           /\ cli'[p] = [Advanced(cli[p]) EXCEPT !.ran = Put(@, o.service, made')]
<1>1. /\ p \in DOMAIN cli /\ cli[p].phase = "ops" /\ o \in Op /\ o.service \in Services
      /\ cli[p].ran \in Partial(Services, Ids)
  BY PendingShape, OpShape, CliShape DEF Process
<1>2. PodmanType' /\ Kept /\ made' \in Ids
  BY <1>1, RunTypes DEF TypeOK
<1> DEFINE a == Advanced(cli[p])
           ran == Put(cli[p].ran, o.service, made')
           c == [a EXCEPT !.ran = ran]
<1>3. ran \in Partial(Services, Ids)
  <2>1. PICK A \in SUBSET Services : cli[p].ran \in [A -> Ids]
    BY <1>1 DEF Partial
  <2>2. ran \in [A \cup {o.service} -> Ids]
    BY <1>2, <2>1 DEF Put
  <2>. QED BY <1>1, <2>2 DEF Partial
<1>4. /\ a \in Process /\ a.ran = cli[p].ran /\ a.job = cli[p].job
      /\ a.before = cli[p].before /\ a.left = cli[p].left
      /\ a.phase \in {"ops", "done"} /\ (a.phase = "ops" => a.at \in DOMAIN Steps[a.job])
  BY AdvancedShape
<1> HIDE DEF a, ran
<1>5. /\ c \in Process /\ c.job = cli[p].job
      /\ c.before = cli[p].before /\ c.left = cli[p].left
      /\ c.phase \in {"ops", "done"} /\ (c.phase = "ops" => c.at \in DOMAIN Steps[c.job])
  BY <1>3, <1>4 DEF Process
<1>6. c = [Advanced(cli[p]) EXCEPT !.ran = Put(@, o.service, made')]
  BY <1>4 DEF a, ran, Process
<1> HIDE DEF c
<1>7. cli' = [cli EXCEPT ![p] = c]
  BY <1>6
<1>8. faults' \in 0..MaxFaults
  BY DEF TypeOK
<1>. QED BY <1>1, <1>2, <1>5, <1>6, <1>7, <1>8, OneMoves DEF Walks

\* GatePasses: the barrier of the service is noted.
LEMMA Gates ==
    ASSUME TypeOK, NEW p, NEW o \in Pending(p), o.op = "wait",
           cli' = [cli EXCEPT ![p] = [Advanced(cli[p]) EXCEPT !.gated = @ \cup {o.service}]],
           UNCHANGED <<podman, faults>>
    PROVE  /\ TypeOK' /\ Walks(p) /\ Kept
           /\ cli'[p] = [Advanced(cli[p]) EXCEPT !.gated = @ \cup {o.service}]
<1>1. /\ p \in DOMAIN cli /\ cli[p].phase = "ops" /\ o \in Op /\ o.service \in Services
      /\ cli[p].gated \subseteq Services
  BY PendingShape, OpShape, CliShape DEF Process
<1>2. PodmanType' /\ Kept
  BY SameContainers DEF TypeOK, podman, PodmanType
<1> DEFINE a == Advanced(cli[p])
           c == [a EXCEPT !.gated = @ \cup {o.service}]
<1>4. /\ a \in Process /\ a.gated = cli[p].gated /\ a.job = cli[p].job
      /\ a.before = cli[p].before /\ a.left = cli[p].left
      /\ a.phase \in {"ops", "done"} /\ (a.phase = "ops" => a.at \in DOMAIN Steps[a.job])
  BY AdvancedShape
<1> HIDE DEF a
<1>5. /\ c \in Process /\ c.job = cli[p].job
      /\ c.before = cli[p].before /\ c.left = cli[p].left
      /\ c.phase \in {"ops", "done"} /\ (c.phase = "ops" => c.at \in DOMAIN Steps[c.job])
  BY <1>1, <1>4 DEF Process
<1>6. c = [Advanced(cli[p]) EXCEPT !.gated = @ \cup {o.service}]
  BY DEF a
<1> HIDE DEF c
<1>7. cli' = [cli EXCEPT ![p] = c]
  BY <1>6
<1>8. faults' \in 0..MaxFaults
  BY DEF TypeOK
<1>. QED BY <1>1, <1>2, <1>5, <1>6, <1>7, <1>8, OneMoves DEF Walks

LEMMA FaultTypes ==
    ASSUME TypeOK
    PROVE  /\ faults \in 0..MaxFaults
           /\ UNCHANGED faults => faults' \in 0..MaxFaults
           /\ faults < MaxFaults /\ faults' = faults + 1 => faults' \in 0..MaxFaults
BY ComposeAssumption DEF TypeOK

LEMMA PodmanIdle ==
    ASSUME TypeOK, UNCHANGED podman
    PROVE  PodmanType' /\ Kept
BY SameContainers DEF TypeOK, podman, PodmanType

LEMMA ExecuteTypes ==
    ASSUME TypeOK, NEW p, Executes(p)
    PROVE  TypeOK' /\ Walks(p) /\ Kept /\ p \in DOMAIN cli
<1>0. Pending(p) # {} /\ p \in DOMAIN cli
  <2>1. Pending(p) # {}
    BY DEF Executes, NetworkStep, VolumeStep, BuildStep, PullStep, RunStep, GatePasses,
           GateFails, Refused
  <2>. QED BY <2>1, PendingShape
<1>1. CASE NetworkStep(p) \/ VolumeStep(p) \/ BuildStep(p) \/ PullStep(p)
  <2>1. PICK o \in Pending(p) :
            /\ \/ o.op = "network" /\ CreateNetwork(o)
               \/ o.op = "volume" /\ CreateVolume(o)
               \/ o.op = "build" /\ BuildImage(o)
               \/ o.op = "pull" /\ PullImage(o.image)
            /\ Advance(p)
    BY <1>1 DEF NetworkStep, VolumeStep, BuildStep, PullStep
  <2>2. PodmanType' /\ Kept
    BY <2>1, PendingShape, ResourceStep DEF TypeOK
  <2>. QED BY <1>0, <2>1, <2>2, Advances
<1>2. CASE RunStep(p)
  BY <1>0, <1>2, Runs DEF RunStep
<1>3. CASE GatePasses(p)
  BY <1>0, <1>3, Gates DEF GatePasses
<1>4. CASE GateFails(p) \/ Refused(p)
  <2>1. Abort(p) /\ UNCHANGED <<podman, faults>>
    BY <1>4 DEF GateFails, Refused
  <2>. QED BY <1>0, <2>1, PodmanIdle, FaultTypes, Aborts
<1>. QED BY <1>1, <1>2, <1>3, <1>4 DEF Executes

LEMMA DeadlineTypes ==
    ASSUME TypeOK, NEW p, Deadline(p)
    PROVE  TypeOK' /\ Walks(p) /\ Kept
<1>1. Pending(p) # {} /\ p \in DOMAIN cli /\ cli[p].phase = "ops" /\ cli[p] \in Process
  BY PendingShape, CliShape DEF Deadline
<1> DEFINE c == [cli[p] EXCEPT !.late = TRUE]
<1>2. /\ c \in Process /\ c.job = cli[p].job
      /\ c.before = cli[p].before /\ c.left = cli[p].left
      /\ c.phase = "ops" /\ c.at = cli[p].at
  BY <1>1 DEF Process
<1>3. cli' = [cli EXCEPT ![p] = c] /\ UNCHANGED <<podman, faults>>
  BY DEF Deadline
<1>4. c.at \in DOMAIN Steps[c.job]
  BY <1>1, <1>2 DEF TypeOK
<1> HIDE DEF c
<1>. QED BY <1>1, <1>2, <1>3, <1>4, PodmanIdle, FaultTypes, OneMoves DEF Walks

\* logs: a step that changes the streams only
LEMMA LogMoves ==
    ASSUME TypeOK, NEW p, In(p, "tail"), NEW l \in TailState,
           cli' = [cli EXCEPT ![p].log = l], UNCHANGED podman, faults' \in 0..MaxFaults
    PROVE  TypeOK' /\ Walks(p) /\ Kept
<1>1. p \in DOMAIN cli /\ cli[p].phase = "tail" /\ cli[p] \in Process
  BY CliShape DEF In
<1> DEFINE c == [cli[p] EXCEPT !.log = l]
<1>2. /\ c \in Process /\ c.job = cli[p].job
      /\ c.before = cli[p].before /\ c.left = cli[p].left
      /\ c.phase = "tail"
  BY <1>1 DEF Process
<1>3. cli' = [cli EXCEPT ![p] = c]
  OBVIOUS
<1> HIDE DEF c
<1>. QED BY <1>1, <1>2, <1>3, PodmanIdle, OneMoves DEF Walks

LEMMA StreamTypes ==
    ASSUME TypeOK, NEW p, NEW s \in Services,
           \/ OpenStream(p, s) \/ SpawnFails(p, s) \/ SendError(p, s)
           \/ Forward(p, s) \/ LoseLine(p, s) \/ ReadBreaks(p, s) \/ Eof(p, s)
    PROVE  TypeOK' /\ Walks(p) /\ Kept
<1> DEFINE log == cli[p].log
<1>0. log \in TailState /\ In(p, "tail")
  BY CliShape DEF OpenStream, SpawnFails, SendError, Forward, LoseLine, ReadBreaks, Eof,
     Starting, Reading, In
<1>L. LogLines \in Nat /\ <<s, 0>> \in Line
  BY ComposeAssumption DEF Line
<1>C. log.chan \in Seq(Line)
  BY <1>0 DEF TailState
<1>1. CASE OpenStream(p, s)
  <2> DEFINE l == [log EXCEPT !.opened = @ \cup {s}]
  <2>1. l \in TailState
    BY <1>0 DEF TailState
  <2>2. cli' = [cli EXCEPT ![p].log = l] /\ UNCHANGED <<podman, faults>>
    BY <1>1 DEF OpenStream
  <2>. QED BY <1>0, <2>1, <2>2, FaultTypes, LogMoves
<1>2. CASE SpawnFails(p, s)
  <2> DEFINE l == [log EXCEPT !.stuck = {s}]
  <2>1. l \in TailState
    BY <1>0 DEF TailState
  <2>2. cli' = [cli EXCEPT ![p].log = l] /\ UNCHANGED podman
    BY <1>2 DEF SpawnFails
  <2>3. faults' \in 0..MaxFaults
    BY <1>2, FaultTypes DEF SpawnFails
  <2>. QED BY <1>0, <2>1, <2>2, <2>3, LogMoves
<1>3. CASE SendError(p, s)
  <2> DEFINE l == [log EXCEPT !.stuck = {}, !.opened = @ \cup {s}, !.ended = @ \cup {s},
                              !.chan = Append(@, <<s, 0>>)]
  <2>0. Append(log.chan, <<s, 0>>) \in Seq(Line)
    BY <1>L, <1>C
  <2>1. l \in TailState
    BY <1>0, <2>0 DEF TailState
  <2>2. cli' = [cli EXCEPT ![p].log = l] /\ UNCHANGED <<podman, faults>>
    BY <1>3 DEF SendError
  <2>. QED BY <1>0, <2>1, <2>2, FaultTypes, LogMoves
<1>4. CASE Forward(p, s)
  <2> DEFINE n == log.sent[s] + 1
             l == [log EXCEPT !.sent = [@ EXCEPT ![s] = n], !.chan = Append(@, <<s, n>>)]
  <2>1. n \in 0..LogLines
    BY <1>0, <1>4, <1>L DEF Forward, Prints, TailState
  <2>2. <<s, n>> \in Line
    BY <2>1 DEF Line
  <2>3. Append(log.chan, <<s, n>>) \in Seq(Line)
    BY <2>2, <1>C
  <2>4. [log.sent EXCEPT ![s] = n] \in [Services -> 0..LogLines]
    BY <1>0, <2>1 DEF TailState
  <2>5. l \in TailState
    BY <1>0, <2>3, <2>4 DEF TailState
  <2>6. cli' = [cli EXCEPT ![p].log = l] /\ UNCHANGED <<podman, faults>>
    BY <1>4 DEF Forward
  <2>. QED BY <1>0, <2>5, <2>6, FaultTypes, LogMoves
<1>5. CASE Eof(p, s)
  <2> DEFINE l == [log EXCEPT !.ended = @ \cup {s}]
  <2>1. l \in TailState
    BY <1>0 DEF TailState
  <2>2. cli' = [cli EXCEPT ![p].log = l] /\ UNCHANGED <<podman, faults>>
    BY <1>5 DEF Eof
  <2>. QED BY <1>0, <2>1, <2>2, FaultTypes, LogMoves
<1>6. CASE LoseLine(p, s)
  <2> DEFINE n == log.sent[s] + 1
             l == [log EXCEPT !.sent = [@ EXCEPT ![s] = n]]
  <2>1. n \in 0..LogLines
    BY <1>6, ComposeAssumption DEF LoseLine, Warns
  <2>2. [log.sent EXCEPT ![s] = n] \in [Services -> 0..LogLines]
    BY <1>0, <2>1 DEF TailState
  <2>3. l \in TailState
    BY <1>0, <2>2 DEF TailState
  <2>4. cli' = [cli EXCEPT ![p].log = l] /\ UNCHANGED <<podman, faults>>
    BY <1>6 DEF LoseLine
  <2>. QED BY <1>0, <2>3, <2>4, FaultTypes, LogMoves
<1>7. CASE ReadBreaks(p, s)
  <2> DEFINE l == [log EXCEPT !.ended = @ \cup {s}, !.broken = @ \cup {s}]
  <2>1. l \in TailState
    BY <1>0 DEF TailState
  <2>2. cli' = [cli EXCEPT ![p].log = l] /\ UNCHANGED podman
    BY <1>7 DEF ReadBreaks
  <2>3. faults' \in 0..MaxFaults
    BY <1>7, FaultTypes DEF ReadBreaks
  <2>. QED BY <1>0, <2>1, <2>2, <2>3, LogMoves
<1>. QED BY <1>1, <1>2, <1>3, <1>4, <1>5, <1>6, <1>7

LEMMA DrainTypes ==
    ASSUME TypeOK, NEW p, Drain(p)
    PROVE  TypeOK' /\ Walks(p) /\ Kept
<1> DEFINE log == cli[p].log
           l == [log EXCEPT !.chan = Tail(@), !.out = Append(@, Head(log.chan))]
<1>1. log \in TailState /\ In(p, "tail") /\ log.chan # <<>>
  BY CliShape DEF Drain, AllOpened, In
<1>2. log.chan \in Seq(Line) /\ log.out \in Seq(Line)
  BY <1>1 DEF TailState
<1>3. Tail(log.chan) \in Seq(Line) /\ Append(log.out, Head(log.chan)) \in Seq(Line)
  BY <1>1, <1>2
<1>4. l \in TailState
  BY <1>1, <1>3 DEF TailState
<1>5. cli' = [cli EXCEPT ![p].log = l] /\ UNCHANGED <<podman, faults>>
  BY DEF Drain
<1>. QED BY <1>1, <1>4, <1>5, FaultTypes, LogMoves

LEMMA TailEndTypes ==
    ASSUME TypeOK, NEW p, TailEnds(p)
    PROVE  TypeOK' /\ Walks(p) /\ Kept
<1>1. p \in DOMAIN cli /\ cli[p].phase = "tail" /\ cli[p] \in Process
  BY CliShape DEF TailEnds, AllOpened, In
<1> DEFINE c == [cli[p] EXCEPT !.phase = "done"]
<1>2. /\ c \in Process /\ c.job = cli[p].job
      /\ c.before = cli[p].before /\ c.left = cli[p].left
      /\ c.phase = "done"
  BY <1>1 DEF Process
<1>3. cli' = [cli EXCEPT ![p] = c] /\ UNCHANGED <<podman, faults>>
  BY DEF TailEnds
<1> HIDE DEF c
<1>. QED BY <1>1, <1>2, <1>3, PodmanIdle, FaultTypes, OneMoves DEF Walks

LEMMA FailTypes ==
    ASSUME TypeOK, NEW p, CallFails(p) \/ RunFails(p)
    PROVE  TypeOK' /\ Walks(p) /\ Kept
<1>1. p \in DOMAIN cli /\ Abort(p) /\ faults' \in 0..MaxFaults
  BY FaultTypes, PendingShape DEF CallFails, RunFails
<1>2. CASE CallFails(p)
  BY <1>1, <1>2, PodmanIdle, Aborts DEF CallFails
<1>3. CASE RunFails(p)
  <2>1. PodmanType' /\ Kept
    BY <1>3, PendingShape, RunTypes DEF RunFails, TypeOK
  <2>. QED BY <1>1, <2>1, Aborts
<1>. QED BY <1>2, <1>3
-----------------------------------------------------------------------------
(* Listings, down, and the commands that are typed.                         *)

LEMMA PsTypes ==
    ASSUME TypeOK, NEW project
    PROVE  Ps(project) \subseteq 1..made /\ Ps(project) \subseteq Ids
BY DEF TypeOK, PodmanType, Ps

\* A record that a step of ps, logs or down leaves for command p.
LEMMA ListMoves ==
    ASSUME TypeOK, NEW p \in DOMAIN cli, NEW c \in Process, cli' = [cli EXCEPT ![p] = c],
           c.phase # "ops", PodmanType', UNCHANGED faults
    PROVE  /\ TypeOK' /\ DOMAIN cli' = DOMAIN cli /\ cli'[p] = c
           /\ \A q \in DOMAIN cli \ {p} : cli'[q] = cli[q]
BY FaultTypes, OneMoves

\* Only the lists of a command change, or nothing of them.
Relists(p, phase) ==
    /\ p \in DOMAIN cli /\ DOMAIN cli' = DOMAIN cli
    /\ \A q \in DOMAIN cli \ {p} : cli'[q] = cli[q]
    /\ cli'[p].job = cli[p].job /\ cli'[p].before = cli[p].before
    /\ cli[p].phase = phase

LEMMA PsListTypes ==
    ASSUME TypeOK, NEW p, PsList(p)
    PROVE  /\ TypeOK' /\ Kept /\ Relists(p, "list")
           /\ cli'[p].left = cli[p].left /\ cli'[p].phase = "done"
           /\ Job[cli[p].job].command = "ps"
<1>1. /\ p \in DOMAIN cli /\ cli[p].phase = "list" /\ cli[p] \in Process
      /\ Job[cli[p].job].command = "ps"
  BY CliShape DEF PsList, Listing, In
<1> DEFINE c == [cli[p] EXCEPT !.seen = Found(p), !.phase = "done"]
<1>2. /\ c \in Process /\ c.job = cli[p].job /\ c.before = cli[p].before
      /\ c.left = cli[p].left /\ c.phase = "done"
  BY <1>1, PsTypes DEF Process, Found
<1>3. cli' = [cli EXCEPT ![p] = c] /\ UNCHANGED <<podman, faults>>
  BY DEF PsList
<1> HIDE DEF c
<1>. QED BY <1>1, <1>2, <1>3, PodmanIdle, ListMoves DEF Relists

LEMMA DownListTypes ==
    ASSUME TypeOK, NEW p, DownList(p)
    PROVE  /\ TypeOK' /\ Kept /\ Relists(p, "list") /\ UNCHANGED containers
           /\ cli'[p].left = Found(p)
           /\ cli'[p].phase = IF Found(p) = {} THEN "done" ELSE "stop"
<1>1. p \in DOMAIN cli /\ cli[p].phase = "list" /\ cli[p] \in Process
  BY CliShape DEF DownList, Listing, In
<1> DEFINE phase == IF Found(p) = {} THEN "done" ELSE "stop"
           c == [cli[p] EXCEPT !.seen = Found(p), !.left = Found(p), !.phase = phase]
<1>2. /\ c \in Process /\ c.job = cli[p].job /\ c.before = cli[p].before
      /\ c.left = Found(p) /\ c.phase = phase
  BY <1>1, PsTypes DEF Process, Found
<1>3. cli' = [cli EXCEPT ![p] = c] /\ UNCHANGED <<podman, faults>>
  BY DEF DownList
<1> HIDE DEF c
<1>. QED BY <1>1, <1>2, <1>3, PodmanIdle, ListMoves DEF Relists, podman

LEMMA StopStepTypes ==
    ASSUME TypeOK, NEW p, NEW id, StopStep(p, id)
    PROVE  /\ TypeOK' /\ Kept /\ Relists(p, "stop") /\ id \in cli[p].left
           /\ cli'[p].left = cli[p].left /\ cli'[p].phase = "rm" /\ cli'[p].victim = id
<1>1. /\ p \in DOMAIN cli /\ cli[p].phase = "stop" /\ cli[p] \in Process
      /\ id \in cli[p].left /\ StopContainer(id)
  BY CliShape DEF StopStep, In
<1>2. id \in 0..MaxContainers
  BY <1>1, PodmanAssumption DEF Process, Ids
<1> DEFINE c == [cli[p] EXCEPT !.phase = "rm", !.victim = id]
<1>3. /\ c \in Process /\ c.job = cli[p].job /\ c.before = cli[p].before
      /\ c.left = cli[p].left /\ c.phase = "rm" /\ c.victim = id
  BY <1>1, <1>2 DEF Process
<1>4. cli' = [cli EXCEPT ![p] = c] /\ UNCHANGED faults
  BY DEF StopStep
<1>5. PodmanType' /\ Kept
  BY <1>1, StopTypes DEF TypeOK
<1> HIDE DEF c
<1>. QED BY <1>1, <1>3, <1>4, <1>5, ListMoves DEF Relists

LEMMA StopMissingTypes ==
    ASSUME TypeOK, NEW p, NEW id, StopMissing(p, id)
    PROVE  TypeOK' /\ Walks(p) /\ Kept
BY PodmanIdle, FaultTypes, Aborts DEF StopMissing, In

LEMMA RemoveStepTypes ==
    ASSUME TypeOK, NEW p, RemoveStep(p)
    PROVE  /\ TypeOK' /\ SameProjects /\ Relists(p, "rm")
           /\ DOMAIN containers' = DOMAIN containers \ {cli[p].victim}
           /\ cli'[p].left = cli[p].left \ {cli[p].victim}
           /\ cli'[p].phase = IF cli'[p].left = {} THEN "done" ELSE "stop"
<1> DEFINE left == cli[p].left \ {cli[p].victim}
           phase == IF left = {} THEN "done" ELSE "stop"
           c == [cli[p] EXCEPT !.left = left, !.phase = phase]
<1>1. /\ p \in DOMAIN cli /\ cli[p].phase = "rm" /\ cli[p] \in Process
      /\ RemoveContainer(cli[p].victim)
  BY CliShape DEF RemoveStep, In
<1>2. /\ c \in Process /\ c.job = cli[p].job /\ c.before = cli[p].before
      /\ c.left = left /\ c.phase = phase
  BY <1>1 DEF Process
<1>3. cli' = [cli EXCEPT ![p] = c] /\ UNCHANGED faults
  BY DEF RemoveStep
<1>4. /\ PodmanType' /\ SameProjects
      /\ DOMAIN containers' = DOMAIN containers \ {cli[p].victim}
  BY <1>1, RemoveTypes DEF TypeOK
<1> HIDE DEF c
<1>. QED BY <1>1, <1>2, <1>3, <1>4, ListMoves DEF Relists

LEMMA LogsListTypes ==
    ASSUME TypeOK, NEW p, LogsList(p)
    PROVE  /\ TypeOK' /\ Kept /\ Relists(p, "list")
           /\ cli'[p].left = cli[p].left /\ cli'[p].phase \in {"tail", "done"}
           /\ Job[cli[p].job].command = "logs"
<1>1. /\ p \in DOMAIN cli /\ cli[p].phase = "list" /\ cli[p] \in Process
      /\ Job[cli[p].job].command = "logs" /\ cli[p].log \in TailState
  BY CliShape DEF LogsList, Listing, In
<1> DEFINE asked == ToSet(Job[cli[p].job].services)
           shown == {containers[id].service : id \in Found(p)}
                        \cap (IF asked = {} THEN Services ELSE asked)
<1>2. PICK want \in [shown -> Found(p)] :
          /\ cli' = [cli EXCEPT ![p].seen = Found(p), ![p].log.want = want,
                                ![p].phase = IF shown = {} THEN "done" ELSE "tail"]
          /\ UNCHANGED <<podman, faults>>
  BY DEF LogsList
<1>3. Found(p) \subseteq Ids /\ Found(p) \subseteq DOMAIN containers
  BY PsTypes DEF Found, Ps
<1>4. shown \subseteq Services
  BY <1>3, ContainerShape DEF TypeOK, Container
<1> DEFINE phase == IF shown = {} THEN "done" ELSE "tail"
<1>5. want \in [shown -> Ids] /\ phase \in {"done", "tail"}
  BY <1>2, <1>3
<1> HIDE DEF shown
<1>6. want \in Partial(Services, Ids)
  BY <1>4, <1>5 DEF Partial
<1> DEFINE l == [cli[p].log EXCEPT !.want = want]
<1>7. l \in TailState
  BY <1>1, <1>6 DEF TailState
<1> HIDE DEF phase
<1> DEFINE c == [cli[p] EXCEPT !.seen = Found(p), !.log = l, !.phase = phase]
<1>8. cli' = [cli EXCEPT ![p] = c]
  BY <1>2 DEF phase
<1> HIDE DEF l
<1>9. /\ c \in Process /\ c.job = cli[p].job /\ c.before = cli[p].before
      /\ c.left = cli[p].left /\ c.phase = phase
  BY <1>1, <1>3, <1>5, <1>7 DEF Process
<1> HIDE DEF c
<1>. QED BY <1>1, <1>2, <1>5, <1>8, <1>9, PodmanIdle, ListMoves DEF Relists

\* A command is typed: it comes last, and knows the containers there are.
Typed_(j) ==
    /\ Len(cli') = Len(cli) + 1 /\ DOMAIN cli' = DOMAIN cli \cup {Len(cli) + 1}
    /\ \A q \in DOMAIN cli : cli'[q] = cli[q]
    /\ LET c == cli'[Len(cli) + 1]
       IN  /\ c.job = j /\ c.before = DOMAIN containers /\ c.left = {}
           /\ c.at = 1 /\ c.gated = {} /\ DOMAIN c.ran = {} /\ c.log = NoLog
           /\ c.phase \in {"ops", "list", "done"}
           /\ c.phase = "ops" => Job[j].command # "down"
           /\ c.phase = "done" /\ c.ok /\ Job[j].command = "down" => Job[j].dry_run
           /\ Job[j].command = "up" =>
                 /\ c.phase # "list" /\ (c.ok => Loads[j].ok)
                 /\ c.phase = "done" /\ c.ok /\ ~Job[j].dry_run => Steps[j] = <<>>

LEMMA NoneYet == [s \in {} |-> 0] \in Partial(Services, Ids)
<1>1. [s \in {} |-> 0] \in [{} -> Ids] /\ {} \in SUBSET Services
  OBVIOUS
<1>. QED BY <1>1 DEF Partial

LEMMA StartTypes ==
    ASSUME TypeOK, NEW j \in Jobs, NEW phase \in {"ops", "list", "done"}, NEW ok \in BOOLEAN,
           Start(j, phase, ok), phase = "ops" => Job[j].command # "down" /\ Steps[j] # <<>>,
           phase = "done" /\ ok /\ Job[j].command = "down" => Job[j].dry_run,
           Job[j].command = "up" =>
              /\ phase # "list" /\ (ok => Loads[j].ok)
              /\ phase = "done" /\ ok /\ ~Job[j].dry_run => Steps[j] = <<>>
    PROVE  TypeOK' /\ Kept /\ Typed_(j)
<1> DEFINE none == [s \in {} |-> 0]
           c == [job |-> j, phase |-> phase, ok |-> ok, at |-> 1, ran |-> none,
                 gated |-> {}, late |-> FALSE, before |-> DOMAIN containers, seen |-> {},
                 left |-> {}, victim |-> 0, log |-> NoLog]
<1>1. none \in Partial(Services, Ids)
  BY NoneYet
<1>2. NoLog \in TailState
  <2>1. <<>> \in Seq(Line) /\ 0 \in 0..LogLines
    BY ComposeAssumption
  <2>2. [s \in Services |-> 0] \in [Services -> 0..LogLines]
    BY <2>1
  <2>. QED BY <1>1, <2>1, <2>2 DEF NoLog, TailState
<1>3. DOMAIN containers \subseteq Ids /\ 0 \in 0..MaxContainers
  BY PodmanAssumption DEF TypeOK, PodmanType
<1>4. DOMAIN none = {}
  OBVIOUS
<1> HIDE DEF none
<1>5. c \in Process
  BY <1>1, <1>2, <1>3 DEF Process
<1>6. /\ cli' = Append(cli, c) /\ Len(cli) < MaxCommands /\ UNCHANGED <<podman, faults>>
  BY DEF Start, none
<1>7. /\ c.job = j /\ c.before = DOMAIN containers /\ c.left = {} /\ c.log = NoLog
      /\ c.at = 1 /\ c.gated = {} /\ DOMAIN c.ran = {} /\ c.phase = phase /\ c.ok = ok
  BY <1>4
<1> HIDE DEF c
<1>8. /\ cli' \in Seq(Process) /\ Len(cli') = Len(cli) + 1
      /\ DOMAIN cli' = DOMAIN cli \cup {Len(cli) + 1}
      /\ cli'[Len(cli) + 1] = c /\ \A q \in DOMAIN cli : cli'[q] = cli[q]
  BY <1>5, <1>6, CliShape
<1>9. PodmanType' /\ Kept /\ faults' \in 0..MaxFaults
  BY <1>6, PodmanIdle, FaultTypes
<1>10. Len(cli') <= MaxCommands
  BY <1>6, <1>8, CliShape, ComposeAssumption
<1>11. c.phase = "ops" => c.at \in DOMAIN Steps[c.job]
  BY <1>7, StepsShape
<1>12. TypeOK'
  BY <1>8, <1>9, <1>10, <1>11 DEF TypeOK
<1>. QED BY <1>7, <1>8, <1>9, <1>12 DEF Typed_

LEMMA InvokeTypes ==
    ASSUME TypeOK, NEW j \in Jobs, Invoke(j)
    PROVE  TypeOK' /\ Kept /\ Typed_(j)
<1>1. CASE Version(j)
  BY <1>1, StartTypes DEF Version, Typed
<1>2. CASE NotLoaded(j)
  BY <1>2, StartTypes DEF NotLoaded
<1>3. CASE Config(j)
  BY <1>3, StartTypes DEF Config, Typed
<1>4. CASE CarryOut(j)
  BY <1>4, StartTypes DEF CarryOut, Typed
<1>5. CASE Down(j)
  BY <1>5, StartTypes DEF Down, Typed
<1>6. CASE Look(j)
  BY <1>6, StartTypes DEF Look, Typed
<1>. QED BY <1>1, <1>2, <1>3, <1>4, <1>5, <1>6 DEF Invoke

LEMMA WorldStep ==
    ASSUME TypeOK, World
    PROVE  TypeOK' /\ Kept /\ UNCHANGED cli
<1>1. PICK id \in DOMAIN containers, reported \in {"healthy", "unhealthy"} :
          (Exit(id) \/ Probe(id, reported)) /\ UNCHANGED <<cli, faults>>
  BY DEF World, ExitOf, ProbeOf
<1>2. PodmanType' /\ Kept
  BY <1>1, WorldTypes DEF TypeOK
<1>. QED BY <1>1, <1>2 DEF TypeOK

LEMMA InitTypes ==
    ASSUME Init
    PROVE  TypeOK
<1>1. PICK n \in 0..MaxContainers : DOMAIN Leftover = 1..n
  BY PodmanAssumption
<1>2. /\ Cardinality({}) = 0 /\ Cardinality(1..n) = n
  BY FS_EmptySet, FS_Interval
<1>3. CASE containers = [id \in {} |-> {}]
  <2>1. DOMAIN containers = {} /\ made = 0
    BY <1>2, <1>3 DEF Init, PodmanInit
  <2>. QED BY <1>3, <2>1, PodmanAssumption, ComposeAssumption
           DEF Init, PodmanInit, TypeOK, PodmanType
<1>4. CASE containers = Leftover
  <2>1. DOMAIN containers = 1..n /\ made = n
    BY <1>1, <1>2, <1>4 DEF Init, PodmanInit
  <2>2. containers \in [DOMAIN containers -> Container]
    BY <1>4, LeftoverAssumption
  <2>. QED BY <2>1, <2>2, PodmanAssumption, ComposeAssumption
           DEF Init, PodmanInit, TypeOK, PodmanType, Ids
<1>. QED BY <1>3, <1>4 DEF Init, PodmanInit

LEMMA IdleTypes ==
    ASSUME TypeOK, UNCHANGED vars
    PROVE  TypeOK' /\ Kept /\ UNCHANGED cli
<1>1. UNCHANGED <<podman, cli, faults>>
  BY DEF vars, podman
<1>. QED BY <1>1, PodmanIdle DEF TypeOK

\* The steps there are.
LEMMA StepsThereAre ==
    ASSUME TypeOK, [Next]_vars
    PROVE  \/ UNCHANGED vars \/ World
           \/ \E j \in Jobs : Invoke(j)
           \/ \E p \in Numbers :
                \/ Executes(p) \/ Deadline(p) \/ CallFails(p) \/ RunFails(p) \/ Drain(p)
                \/ TailEnds(p) \/ PsList(p) \/ DownList(p) \/ LogsList(p) \/ RemoveStep(p)
                \/ \E s \in Services :
                      \/ OpenStream(p, s) \/ SpawnFails(p, s) \/ SendError(p, s)
                      \/ Forward(p, s) \/ LoseLine(p, s) \/ ReadBreaks(p, s) \/ Eof(p, s)
                \/ \E id \in Ids : StopStep(p, id) \/ StopMissing(p, id)
BY DEF Next, Proceed, Lists, Tails, Fails

LEMMA TypeStep ==
    ASSUME TypeOK, [Next]_vars
    PROVE  TypeOK'
BY StepsThereAre, IdleTypes, WorldStep, InvokeTypes, ExecuteTypes, DeadlineTypes, FailTypes,
   DrainTypes, TailEndTypes, PsListTypes, DownListTypes, LogsListTypes, RemoveStepTypes,
   StreamTypes, StopStepTypes, StopMissingTypes

\* Whatever is on the host, in the files and on the command lines, the commands
\* and what podman keeps stay what they are: an up never runs past its plan.
THEOREM TypesOK == Spec => []TypeOK
<1>1. Init => TypeOK
  BY InitTypes
<1>2. TypeOK /\ [Next]_vars => TypeOK'
  BY TypeStep
<1>. QED BY <1>1, <1>2, PTL DEF Spec
-----------------------------------------------------------------------------
(* down: why it removes all its project's containers and no others.         *)

Removes(p) == Job[cli[p].job].command = "down"
Own(p) == {id \in DOMAIN containers : containers[id].project = Project(cli[p].job)}

\* What is still to be removed is the project's own; between the listing and
\* the end it is all of what there was when the command was typed.
OldIds(p) == cli[p].before \cup cli[p].left \subseteq 1..made
Phases(p) == Removes(p) => cli[p].phase \in {"list", "stop", "rm", "done"}
LeftIsOwn(p) ==
    cli[p].phase \in {"stop", "rm"} => cli[p].left \cap DOMAIN containers \subseteq Own(p)
VictimLeft(p) == cli[p].phase = "rm" => cli[p].victim \in cli[p].left
NoneMissed(p) ==
    Removes(p) /\ cli[p].phase \in {"stop", "rm"} => cli[p].before \cap Own(p) \subseteq cli[p].left
Cleared(p) ==
    Removes(p) /\ ~Job[cli[p].job].dry_run /\ cli[p].phase = "done" /\ cli[p].ok =>
        cli[p].before \cap Own(p) = {}
Listed(p) ==
    OldIds(p) /\ Phases(p) /\ LeftIsOwn(p) /\ VictimLeft(p) /\ NoneMissed(p) /\ Cleared(p)
DownInv == TypeOK /\ \A p \in DOMAIN cli : Listed(p)

\* A step that changes no project gives a command no container of its project
\* that was there before, and takes it none of the ids it knows.
LEMMA OwnShrinks ==
    ASSUME TypeOK, SameProjects, NEW p \in DOMAIN cli, p \in DOMAIN cli', cli'[p].job = cli[p].job
    PROVE  /\ Own(p)' \cap (1..made) = Own(p) \cap DOMAIN containers'
           /\ DOMAIN containers \subseteq 1..made /\ 1..made \subseteq 1..(made')
<1>1. DOMAIN containers \subseteq 1..made /\ made \in Nat
  BY ContainerShape DEF TypeOK
<1>2. 1..made \subseteq 1..(made')
  BY <1>1 DEF SameProjects
<1>3. \A id \in 1..made : id \in Own(p)' <=> id \in Own(p) /\ id \in DOMAIN containers'
  BY DEF SameProjects, Own
<1>. QED BY <1>1, <1>2, <1>3 DEF Own

LEMMA OthersStay ==
    ASSUME TypeOK, SameProjects, NEW p \in DOMAIN cli, p \in DOMAIN cli', cli'[p] = cli[p],
           Listed(p)
    PROVE  Listed(p)'
<1>1. /\ Own(p)' \cap (1..made) = Own(p) \cap DOMAIN containers'
      /\ DOMAIN containers \subseteq 1..made /\ 1..made \subseteq 1..(made')
  BY OwnShrinks
<1>2. cli[p].before \subseteq 1..made /\ cli[p].left \subseteq 1..made
  BY DEF Listed, OldIds
<1>3. \A id \in DOMAIN containers' \cap (1..made) : id \in DOMAIN containers
  BY DEF SameProjects
<1>4. OldIds(p)' /\ Phases(p)' /\ VictimLeft(p)'
  BY <1>1, <1>2 DEF Listed, OldIds, Phases, VictimLeft, Removes
<1>5. LeftIsOwn(p)'
  BY <1>1, <1>2, <1>3 DEF Listed, LeftIsOwn
<1>6. NoneMissed(p)'
  BY <1>1, <1>2 DEF Listed, NoneMissed, Removes
<1>7. Cleared(p)'
  BY <1>1, <1>2 DEF Listed, Cleared, Removes
<1>. QED BY <1>4, <1>5, <1>6, <1>7 DEF Listed

LEMMA WalksListed ==
    ASSUME TypeOK, SameProjects, NEW p \in DOMAIN cli, Walks(p), Listed(p)
    PROVE  Listed(p)'
<1>1. 1..made \subseteq 1..(made')
  BY OwnShrinks DEF Walks
<1>2. OldIds(p)'
  BY <1>1 DEF Walks, Listed, OldIds
<1>3. /\ Removes(p)' = Removes(p) /\ cli'[p].phase \in {"ops", "tail", "done"}
      /\ Removes(p) => cli'[p].phase = "done" /\ ~cli'[p].ok
  BY DEF Walks, Removes, Listed, Phases
<1>. QED BY <1>2, <1>3 DEF Listed, Phases, LeftIsOwn, VictimLeft, NoneMissed, Cleared

\* ps and logs list as well, and remove nothing.
LEMMA LooksListed ==
    ASSUME TypeOK, SameProjects, NEW p, Relists(p, "list"), cli'[p].left = cli[p].left,
           cli'[p].phase \in {"tail", "done"}, ~Removes(p), Listed(p)
    PROVE  Listed(p)'
<1>1. 1..made \subseteq 1..(made')
  BY OwnShrinks DEF Relists
<1>2. OldIds(p)' /\ ~Removes(p)'
  BY <1>1 DEF Relists, Listed, OldIds, Removes
<1>. QED BY <1>2 DEF Listed, Phases, LeftIsOwn, VictimLeft, NoneMissed, Cleared

LEMMA DownListed ==
    ASSUME TypeOK, NEW p, DownList(p), Listed(p)
    PROVE  Listed(p)'
<1>1. /\ Relists(p, "list") /\ Kept /\ UNCHANGED containers /\ cli'[p].left = Found(p)
      /\ cli'[p].phase = IF Found(p) = {} THEN "done" ELSE "stop"
  BY DownListTypes
<1>2. Found(p) = Own(p) /\ Own(p)' = Own(p) /\ Own(p) \subseteq 1..made
  BY <1>1, ContainerShape DEF Found, Ps, Own, Relists, TypeOK
<1>3. 1..made \subseteq 1..(made')
  BY <1>1, OwnShrinks DEF Relists, Kept
<1>4. OldIds(p)'
  BY <1>1, <1>2, <1>3 DEF Listed, OldIds, Relists
<1>. QED BY <1>1, <1>2, <1>4
         DEF Listed, Phases, LeftIsOwn, VictimLeft, NoneMissed, Cleared, Relists, Removes

LEMMA StopListed ==
    ASSUME TypeOK, NEW p, NEW id, StopStep(p, id), Listed(p)
    PROVE  Listed(p)'
<1>1. /\ Relists(p, "stop") /\ Kept /\ id \in cli[p].left
      /\ cli'[p].left = cli[p].left /\ cli'[p].phase = "rm" /\ cli'[p].victim = id
  BY StopStepTypes
<1>2. /\ Own(p)' \cap (1..made) = Own(p) \cap DOMAIN containers'
      /\ DOMAIN containers \subseteq 1..made /\ 1..made \subseteq 1..(made')
  BY <1>1, OwnShrinks DEF Relists, Kept
<1>3. cli[p].before \subseteq 1..made /\ cli[p].left \subseteq 1..made
  BY DEF Listed, OldIds
<1>4. \A i \in DOMAIN containers' \cap (1..made) : i \in DOMAIN containers
  BY <1>1 DEF Kept, SameProjects
<1>5. OldIds(p)' /\ Phases(p)' /\ VictimLeft(p)' /\ Cleared(p)'
  BY <1>1, <1>2, <1>3 DEF OldIds, Phases, VictimLeft, Cleared, Relists
<1>6. LeftIsOwn(p)'
  BY <1>1, <1>2, <1>3, <1>4 DEF Listed, LeftIsOwn, Relists
<1>7. NoneMissed(p)'
  BY <1>1, <1>2, <1>3 DEF Listed, NoneMissed, Removes, Relists
<1>. QED BY <1>5, <1>6, <1>7 DEF Listed

LEMMA RemoveListed ==
    ASSUME TypeOK, NEW p, RemoveStep(p), Listed(p)
    PROVE  Listed(p)'
<1> DEFINE victim == cli[p].victim
<1>1. /\ Relists(p, "rm") /\ SameProjects
      /\ DOMAIN containers' = DOMAIN containers \ {victim}
      /\ cli'[p].left = cli[p].left \ {victim}
      /\ cli'[p].phase = IF cli'[p].left = {} THEN "done" ELSE "stop"
  BY RemoveStepTypes
<1>2. /\ Own(p)' \cap (1..made) = Own(p) \cap DOMAIN containers'
      /\ DOMAIN containers \subseteq 1..made /\ 1..made \subseteq 1..(made')
  BY <1>1, OwnShrinks DEF Relists
<1>3. cli[p].before \subseteq 1..made /\ cli[p].left \subseteq 1..made
  BY DEF Listed, OldIds
<1>4. Removes(p) => cli[p].before \cap Own(p)' \subseteq cli'[p].left
  BY <1>1, <1>2, <1>3 DEF Listed, NoneMissed, Relists
<1>5. OldIds(p)' /\ Phases(p)' /\ VictimLeft(p)'
  BY <1>1, <1>2, <1>3 DEF OldIds, Phases, VictimLeft, Relists
<1>6. LeftIsOwn(p)'
  BY <1>1, <1>2, <1>3 DEF Listed, LeftIsOwn, Relists
<1>7. NoneMissed(p)' /\ Cleared(p)'
  BY <1>1, <1>4 DEF NoneMissed, Cleared, Removes, Relists
<1>. QED BY <1>5, <1>6, <1>7 DEF Listed

LEMMA TypedListed ==
    ASSUME DownInv, NEW j \in Jobs, Invoke(j)
    PROVE  DownInv'
<1>1. TypeOK /\ TypeOK' /\ Kept /\ Typed_(j)
  BY InvokeTypes DEF DownInv
<1>0. PICK p : p = Len(cli) + 1
  OBVIOUS
<1>2. Listed(p)'
  <2>1. DOMAIN containers \subseteq 1..made /\ 1..made \subseteq 1..(made')
    BY <1>1, ContainerShape DEF Kept, SameProjects, TypeOK
  <2>2. /\ cli'[p].before \cup cli'[p].left \subseteq 1..(made')
        /\ cli'[p].job = j /\ cli'[p].phase \in {"ops", "list", "done"}
        /\ cli'[p].phase = "ops" => Job[j].command # "down"
        /\ cli'[p].phase = "done" /\ cli'[p].ok /\ Job[j].command = "down" => Job[j].dry_run
    BY <1>0, <1>1, <2>1 DEF Typed_
  <2>. QED BY <2>2
           DEF Listed, OldIds, Phases, LeftIsOwn, VictimLeft, NoneMissed, Cleared, Removes
<1>3. ASSUME NEW q \in DOMAIN cli PROVE Listed(q)'
  BY <1>1, <1>3, OthersStay DEF DownInv, Kept, Typed_
<1>. QED BY <1>0, <1>1, <1>2, <1>3 DEF DownInv, Typed_

LEMMA WalkSteps ==
    ASSUME TypeOK, NEW p,
           \/ Executes(p) \/ Deadline(p) \/ CallFails(p) \/ RunFails(p) \/ Drain(p) \/ TailEnds(p)
           \/ \E s \in Services :
                 \/ OpenStream(p, s) \/ SpawnFails(p, s) \/ SendError(p, s)
                 \/ Forward(p, s) \/ LoseLine(p, s) \/ ReadBreaks(p, s) \/ Eof(p, s)
           \/ \E id \in Ids : StopMissing(p, id)
    PROVE  TypeOK' /\ Walks(p) /\ Kept /\ p \in DOMAIN cli
<1>1. TypeOK' /\ Walks(p) /\ Kept
  BY ExecuteTypes, DeadlineTypes, FailTypes, DrainTypes, TailEndTypes, StreamTypes,
     StopMissingTypes
<1>2. p \in DOMAIN cli
  BY ExecuteTypes, PendingShape DEF Deadline, CallFails, RunFails, Drain, TailEnds, AllOpened,
     OpenStream, SpawnFails, SendError, Forward, LoseLine, ReadBreaks, Eof, Starting, Reading,
     StopMissing, In
<1>. QED BY <1>1, <1>2

LEMMA DownStep ==
    ASSUME DownInv, [Next]_vars
    PROVE  DownInv'
<1>0. TypeOK /\ TypeOK' /\ \A q \in DOMAIN cli : Listed(q)
  BY TypeStep DEF DownInv
<1>1. CASE UNCHANGED vars \/ World
  BY <1>0, <1>1, IdleTypes, WorldStep, OthersStay DEF DownInv, Kept
<1>2. ASSUME NEW j \in Jobs, Invoke(j) PROVE DownInv'
  BY <1>2, TypedListed
<1>3. ASSUME NEW p \in DOMAIN cli, SameProjects, DOMAIN cli' = DOMAIN cli,
             \A q \in DOMAIN cli \ {p} : cli'[q] = cli[q], Listed(p)'
      PROVE  DownInv'
  BY <1>0, <1>3, OthersStay DEF DownInv
<1>4. ASSUME NEW p, p \in DOMAIN cli, Walks(p), Kept PROVE DownInv'
  BY <1>0, <1>3, <1>4, WalksListed DEF Walks, Kept
<1>5. ASSUME NEW p, PsList(p) \/ LogsList(p) PROVE DownInv'
  <2>1. /\ Kept /\ Relists(p, "list") /\ cli'[p].left = cli[p].left
        /\ cli'[p].phase \in {"tail", "done"} /\ ~Removes(p)
    BY <1>0, <1>5, PsListTypes, LogsListTypes DEF Removes
  <2>2. p \in DOMAIN cli /\ Listed(p)'
    BY <1>0, <2>1, LooksListed DEF Relists, Kept
  <2>. QED BY <1>3, <2>1, <2>2 DEF Relists, Kept
<1>6. ASSUME NEW p, DownList(p) PROVE DownInv'
  <2>1. Kept /\ Relists(p, "list")
    BY <1>0, <1>6, DownListTypes
  <2>2. p \in DOMAIN cli /\ Listed(p)'
    BY <1>0, <1>6, <2>1, DownListed DEF Relists
  <2>. QED BY <1>3, <2>1, <2>2 DEF Relists, Kept
<1>7. ASSUME NEW p, NEW id, StopStep(p, id) PROVE DownInv'
  <2>1. Kept /\ Relists(p, "stop")
    BY <1>0, <1>7, StopStepTypes
  <2>2. p \in DOMAIN cli /\ Listed(p)'
    BY <1>0, <1>7, <2>1, StopListed DEF Relists
  <2>. QED BY <1>3, <2>1, <2>2 DEF Relists, Kept
<1>8. ASSUME NEW p, RemoveStep(p) PROVE DownInv'
  <2>1. SameProjects /\ Relists(p, "rm")
    BY <1>0, <1>8, RemoveStepTypes
  <2>2. p \in DOMAIN cli /\ Listed(p)'
    BY <1>0, <1>8, <2>1, RemoveListed DEF Relists
  <2>. QED BY <1>3, <2>1, <2>2 DEF Relists
<1>. QED BY <1>0, <1>1, <1>2, <1>4, <1>5, <1>6, <1>7, <1>8, StepsThereAre, WalkSteps

LEMMA DownInvHolds == Spec => []DownInv
<1>1. Init => DownInv
  <2>1. Init => TypeOK /\ DOMAIN cli = {}
    BY InitTypes DEF Init
  <2>. QED BY <2>1 DEF DownInv
<1>2. DownInv /\ [Next]_vars => DownInv'
  BY DownStep
<1>. QED BY <1>1, <1>2, PTL DEF Spec

\* down removes one by one what one listing has shown (down.rs, podman.rs): a
\* down that reports success has left no container of its project that was
\* there when it was typed, whatever else runs and exits meanwhile.
THEOREM DownClearsHolds == Spec => []DownClears
<1>1. DownInv => DownClears
  BY DEF DownInv, Listed, Cleared, Removes, Own, DownClears
<1>. QED BY <1>1, DownInvHolds, PTL

\* Only rm removes a container, and only a command of its own project (the label
\* filter of ps, podman.rs) gets it to remove.
THEOREM OwnProjectHolds == Spec => OwnProject
<1> DEFINE ByOwn == \A id \in DOMAIN containers \ DOMAIN containers' :
                       \E p \in DOMAIN cli : /\ cli[p].phase = "rm" /\ cli[p].victim = id
                                             /\ containers[id].project = Project(cli[p].job)
<1>1. ASSUME DownInv, [Next]_vars PROVE [ByOwn]_vars
  <2>1. TypeOK /\ \A p \in DOMAIN cli : Listed(p)
    BY <1>1 DEF DownInv
  <2>2. CASE Kept
    BY <2>2 DEF Kept
  <2>3. ASSUME NEW p, RemoveStep(p) PROVE ByOwn
    <3>1. /\ p \in DOMAIN cli /\ cli[p].phase = "rm"
          /\ DOMAIN containers' = DOMAIN containers \ {cli[p].victim}
      BY <2>1, <2>3, RemoveStepTypes DEF Relists
    <3>2. cli[p].left \cap DOMAIN containers \subseteq Own(p) /\ cli[p].victim \in cli[p].left
      BY <2>1, <3>1 DEF Listed, LeftIsOwn, VictimLeft
    <3>. QED BY <3>1, <3>2 DEF Own
  <2>. QED BY <1>1, <2>1, <2>2, <2>3, StepsThereAre, IdleTypes, WorldStep, InvokeTypes, WalkSteps,
              PsListTypes, DownListTypes, LogsListTypes, StopStepTypes
<1>2. []DownInv /\ [][Next]_vars => [][ByOwn]_vars
  BY <1>1, PTL
<1>. QED BY <1>2, DownInvHolds, PTL DEF Spec, OwnProject
-----------------------------------------------------------------------------
(* up: why no service starts before what it depends on, and why none is left *)
(* out.                                                                      *)

\* What has run is what the plan has up to here, and its ids grow with it.
Planned(j, i, op, s) == i \in DOMAIN Steps[j] /\ Steps[j][i].op = op /\ Steps[j][i].service = s
RanIsPlanned(p) ==
    \A s \in DOMAIN cli[p].ran :
        cli[p].ran[s] \in 1..made /\ Comes(Steps[cli[p].job], cli[p].at, "run", s)
PlannedRan(p) ==
    \A i \in 1..(cli[p].at - 1) : \A s :
        /\ Planned(cli[p].job, i, "run", s) => s \in DOMAIN cli[p].ran
        /\ Planned(cli[p].job, i, "wait", s) => s \in cli[p].gated
Ordered(p) ==
    \A s \in DOMAIN cli[p].ran : \A d \in Dependencies(cli[p].job, s) :
        /\ d \in DOMAIN cli[p].ran /\ cli[p].ran[d] < cli[p].ran[s]
        /\ "healthy" \in Conditions(cli[p].job, s, d) => d \in cli[p].gated
\* A command that reports success has been through its plan, and each service
\* has a container of its own.
ThroughPlan(p) ==
    Job[cli[p].job].command = "up" =>
        /\ cli[p].phase \in {"ops", "done"} /\ (cli[p].ok => Loads[cli[p].job].ok)
        /\ cli[p].phase = "done" /\ cli[p].ok /\ ~Job[cli[p].job].dry_run =>
              cli[p].at = Len(Steps[cli[p].job]) + 1
OwnContainers(p) ==
    \A s, t \in DOMAIN cli[p].ran : cli[p].ran[s] = cli[p].ran[t] => s = t
Started(p) == RanIsPlanned(p) /\ PlannedRan(p) /\ Ordered(p) /\ ThroughPlan(p) /\ OwnContainers(p)
RunInv == TypeOK /\ \A p \in DOMAIN cli : Started(p)

\* A step after which command p is still at the same operation.
Stays(p) ==
    /\ cli'[p].job = cli[p].job /\ cli'[p].at = cli[p].at
    /\ cli'[p].ran = cli[p].ran /\ cli'[p].gated = cli[p].gated
    /\ cli'[p].ok => cli[p].ok
    /\ \/ cli'[p].phase = cli[p].phase
       \/ cli'[p].phase = "done" /\ ~cli'[p].ok
       \/ cli[p].phase \in {"list", "stop", "rm", "tail"}

LEMMA StaysStarted ==
    ASSUME TypeOK, SameProjects, NEW p \in DOMAIN cli, p \in DOMAIN cli', Stays(p), Started(p)
    PROVE  Started(p)'
<1>1. 1..made \subseteq 1..(made')
  BY ContainerShape DEF SameProjects, TypeOK
<1>2. RanIsPlanned(p)'
  BY <1>1 DEF Started, RanIsPlanned, Stays
<1>3. PlannedRan(p)'
  BY DEF Started, PlannedRan, Stays
<1>4. Ordered(p)'
  BY DEF Started, Ordered, Stays
<1>5. ThroughPlan(p)'
  BY DEF Started, ThroughPlan, Stays
<1>6. OwnContainers(p)'
  BY DEF Started, OwnContainers, Stays
<1>. QED BY <1>2, <1>3, <1>4, <1>5, <1>6 DEF Started

LEMMA StayingSteps ==
    ASSUME TypeOK, NEW p,
           \/ GateFails(p) \/ Refused(p) \/ Deadline(p) \/ CallFails(p) \/ RunFails(p)
           \/ Drain(p) \/ TailEnds(p)
           \/ PsList(p) \/ DownList(p) \/ LogsList(p) \/ RemoveStep(p)
           \/ \E s \in Services :
                 \/ OpenStream(p, s) \/ SpawnFails(p, s) \/ SendError(p, s)
                 \/ Forward(p, s) \/ LoseLine(p, s) \/ ReadBreaks(p, s) \/ Eof(p, s)
           \/ \E id \in Ids : StopStep(p, id) \/ StopMissing(p, id)
    PROVE  \A q \in DOMAIN cli : q \in DOMAIN cli' /\ Stays(q)
<1>0. \A q \in DOMAIN cli : cli[q] \in Process
  BY CliShape
<1>1. CASE Abort(p)
  BY <1>0, <1>1 DEF Abort, Stays, Process
<1>2. CASE Deadline(p)
  BY <1>0, <1>2 DEF Deadline, Stays, Process
<1>3. CASE PsList(p)
  BY <1>0, <1>3 DEF PsList, Listing, In, Stays, Process
<1>4. CASE DownList(p)
  BY <1>0, <1>4 DEF DownList, Listing, In, Stays, Process
<1>5. CASE LogsList(p)
  <2> DEFINE asked == ToSet(Job[cli[p].job].services)
             shown == {containers[id].service : id \in Found(p)}
                          \cap (IF asked = {} THEN Services ELSE asked)
             phase == IF shown = {} THEN "done" ELSE "tail"
  <2>1. PICK want \in [shown -> Found(p)] :
            cli' = [cli EXCEPT ![p].seen = Found(p), ![p].log.want = want, ![p].phase = phase]
    BY <1>5 DEF LogsList
  <2> DEFINE l == [cli[p].log EXCEPT !.want = want]
  <2> HIDE DEF phase, shown
  <2>2. cli' = [cli EXCEPT ![p].seen = Found(p), ![p].log = l, ![p].phase = phase]
    BY <2>1
  <2> HIDE DEF l
  <2>3. cli[p].phase = "list"
    BY <1>5 DEF LogsList, Listing, In
  <2>. QED BY <1>0, <2>2, <2>3 DEF Stays, Process
<1>6. CASE RemoveStep(p)
  BY <1>0, <1>6 DEF RemoveStep, In, Stays, Process
<1>7. ASSUME NEW id, StopStep(p, id)
      PROVE  \A q \in DOMAIN cli : q \in DOMAIN cli' /\ Stays(q)
  BY <1>0, <1>7 DEF StopStep, In, Stays, Process
<1>8. CASE TailEnds(p)
  BY <1>0, <1>8 DEF TailEnds, AllOpened, In, Stays, Process
<1>9. ASSUME NEW l, cli' = [cli EXCEPT ![p].log = l]
      PROVE  \A q \in DOMAIN cli : q \in DOMAIN cli' /\ Stays(q)
  BY <1>0, <1>9 DEF Stays, Process
<1> DEFINE log == cli[p].log
<1>10. CASE Drain(p)
  <2> DEFINE l == [log EXCEPT !.chan = Tail(@), !.out = Append(@, Head(log.chan))]
  <2>1. cli' = [cli EXCEPT ![p].log = l]
    BY <1>10 DEF Drain
  <2>. QED BY <1>9, <2>1
<1>11. ASSUME NEW s, OpenStream(p, s) \/ SpawnFails(p, s) \/ SendError(p, s)
                        \/ Forward(p, s) \/ LoseLine(p, s) \/ ReadBreaks(p, s) \/ Eof(p, s)
       PROVE  \A q \in DOMAIN cli : q \in DOMAIN cli' /\ Stays(q)
  <2>1. CASE OpenStream(p, s)
    <3> DEFINE l == [log EXCEPT !.opened = @ \cup {s}]
    <3>1. cli' = [cli EXCEPT ![p].log = l]
      BY <2>1 DEF OpenStream
    <3>. QED BY <1>9, <3>1
  <2>2. CASE SpawnFails(p, s)
    <3> DEFINE l == [log EXCEPT !.stuck = {s}]
    <3>1. cli' = [cli EXCEPT ![p].log = l]
      BY <2>2 DEF SpawnFails
    <3>. QED BY <1>9, <3>1
  <2>3. CASE SendError(p, s)
    <3> DEFINE l == [log EXCEPT !.stuck = {}, !.opened = @ \cup {s}, !.ended = @ \cup {s},
                                !.chan = Append(@, <<s, 0>>)]
    <3>1. cli' = [cli EXCEPT ![p].log = l]
      BY <2>3 DEF SendError
    <3>. QED BY <1>9, <3>1
  <2>4. CASE Forward(p, s)
    <3> DEFINE n == log.sent[s] + 1
               l == [log EXCEPT !.sent = [@ EXCEPT ![s] = n], !.chan = Append(@, <<s, n>>)]
    <3>1. cli' = [cli EXCEPT ![p].log = l]
      BY <2>4 DEF Forward
    <3>. QED BY <1>9, <3>1
  <2>5. CASE Eof(p, s)
    <3> DEFINE l == [log EXCEPT !.ended = @ \cup {s}]
    <3>1. cli' = [cli EXCEPT ![p].log = l]
      BY <2>5 DEF Eof
    <3>. QED BY <1>9, <3>1
  <2>6. CASE LoseLine(p, s)
    <3> DEFINE l == [log EXCEPT !.sent = [@ EXCEPT ![s] = log.sent[s] + 1]]
    <3>1. cli' = [cli EXCEPT ![p].log = l]
      BY <2>6 DEF LoseLine
    <3>. QED BY <1>9, <3>1
  <2>7. CASE ReadBreaks(p, s)
    <3> DEFINE l == [log EXCEPT !.ended = @ \cup {s}, !.broken = @ \cup {s}]
    <3>1. cli' = [cli EXCEPT ![p].log = l]
      BY <2>7 DEF ReadBreaks
    <3>. QED BY <1>9, <3>1
  <2>. QED BY <1>11, <2>1, <2>2, <2>3, <2>4, <2>5, <2>6, <2>7
<1>. QED BY <1>1, <1>2, <1>3, <1>4, <1>5, <1>6, <1>7, <1>8, <1>10,
            <1>11
         DEF GateFails, Refused, CallFails, RunFails, StopMissing

\* The two halves of Started after a step of p from operation i to the next.
LEMMA RanIsPlannedNext ==
    ASSUME NEW p, NEW j, NEW i \in Nat, cli'[p].job = j, cli'[p].at = i + 1,
           \A s \in DOMAIN cli'[p].ran :
              cli'[p].ran[s] \in 1..(made') /\ Comes(Steps[j], i + 1, "run", s)
    PROVE  RanIsPlanned(p)'
BY DEF RanIsPlanned, Comes

LEMMA PlannedRanNext ==
    ASSUME NEW p, NEW j, NEW i \in Nat, cli'[p].job = j, cli'[p].at = i + 1,
           \A k \in 1..i : \A s :
              /\ Planned(j, k, "run", s) => s \in DOMAIN cli'[p].ran
              /\ Planned(j, k, "wait", s) => s \in cli'[p].gated
    PROVE  PlannedRan(p)'
<1>1. (cli'[p].at - 1) = i
  OBVIOUS
<1>. QED BY <1>1 DEF PlannedRan, Planned

LEMMA ComesMore ==
    ASSUME NEW j \in Jobs, NEW i \in Nat \ {0}, NEW op, NEW s
    PROVE  /\ Comes(Steps[j], i, op, s) => Comes(Steps[j], i + 1, op, s)
           /\ Steps[j][i].op = op /\ Steps[j][i].service = s => Comes(Steps[j], i + 1, op, s)
BY DEF Comes

LEMMA ThroughPlanNext ==
    ASSUME TypeOK, NEW p, Pending(p) # {}, ThroughPlan(p),
           \/ cli'[p] = Advanced(cli[p])
           \/ \E gated : cli'[p] = [Advanced(cli[p]) EXCEPT !.gated = gated]
           \/ \E ran : cli'[p] = [Advanced(cli[p]) EXCEPT !.ran = ran]
    PROVE  ThroughPlan(p)'
<1> DEFINE a == Advanced(cli[p])
<1>1. /\ a \in Process /\ a.job = cli[p].job /\ a.ok = cli[p].ok /\ a.phase \in {"ops", "done"}
      /\ a.phase = "done" => a.at = Len(Steps[a.job]) + 1
  BY AdvancedShape
<1> HIDE DEF a
<1>2. /\ cli'[p].job = a.job /\ cli'[p].ok = a.ok /\ cli'[p].phase = a.phase
      /\ cli'[p].at = a.at
  <2>1. \/ cli'[p] = a
        \/ \E gated : cli'[p] = [a EXCEPT !.gated = gated]
        \/ \E ran : cli'[p] = [a EXCEPT !.ran = ran]
    BY DEF a
  <2>. QED BY <1>1, <2>1 DEF Process
<1>. QED BY <1>1, <1>2 DEF ThroughPlan

LEMMA AdvanceStarted ==
    ASSUME TypeOK, SameProjects, NEW p, NEW o \in Pending(p), o.op \notin {"run", "wait"},
           p \in DOMAIN cli', cli'[p] = Advanced(cli[p]), Started(p)
    PROVE  Started(p)'
<1> DEFINE j == cli[p].job
           i == cli[p].at
<1>1. /\ j \in Jobs /\ i \in Nat \ {0} /\ o = Steps[j][i]
      /\ cli'[p].job = j /\ cli'[p].at = i + 1
      /\ cli'[p].ran = cli[p].ran /\ cli'[p].gated = cli[p].gated
  BY PendingShape, AdvancedShape
<1>2. 1..made \subseteq 1..(made')
  BY ContainerShape DEF SameProjects, TypeOK
<1>3. RanIsPlanned(p)'
  <2>1. ASSUME NEW s \in DOMAIN cli[p].ran
        PROVE  cli[p].ran[s] \in 1..(made') /\ Comes(Steps[j], i + 1, "run", s)
    BY <1>1, <1>2, ComesMore DEF Started, RanIsPlanned
  <2>. QED BY <1>1, <2>1, RanIsPlannedNext
<1>4. ASSUME NEW k \in 1..i, NEW s
      PROVE  /\ Planned(j, k, "run", s) => s \in DOMAIN cli[p].ran
             /\ Planned(j, k, "wait", s) => s \in cli[p].gated
  <2>1. CASE k = i
    BY <1>1, <2>1 DEF Planned
  <2>2. CASE k \in 1..(i - 1)
    BY <2>2 DEF Started, PlannedRan
  <2>. QED BY <1>1, <2>1, <2>2
<1>5. PlannedRan(p)'
  BY <1>1, <1>4, PlannedRanNext
<1>6. Ordered(p)'
  BY <1>1 DEF Started, Ordered
<1>7. ThroughPlan(p)'
  BY ThroughPlanNext DEF Started
<1>8. OwnContainers(p)'
  BY <1>1 DEF Started, OwnContainers
<1>. QED BY <1>3, <1>5, <1>6, <1>7, <1>8 DEF Started

LEMMA GateStarted ==
    ASSUME TypeOK, SameProjects, NEW p, NEW o \in Pending(p), o.op = "wait", p \in DOMAIN cli',
           cli'[p] = [Advanced(cli[p]) EXCEPT !.gated = @ \cup {o.service}], Started(p)
    PROVE  Started(p)'
<1> DEFINE j == cli[p].job
           i == cli[p].at
<1>1. /\ j \in Jobs /\ i \in Nat \ {0} /\ o = Steps[j][i]
      /\ cli'[p].job = j /\ cli'[p].at = i + 1
      /\ cli'[p].ran = cli[p].ran /\ cli'[p].gated = cli[p].gated \cup {o.service}
  BY PendingShape, AdvancedShape DEF Process
<1>2. 1..made \subseteq 1..(made')
  BY ContainerShape DEF SameProjects, TypeOK
<1>3. RanIsPlanned(p)'
  <2>1. ASSUME NEW s \in DOMAIN cli[p].ran
        PROVE  cli[p].ran[s] \in 1..(made') /\ Comes(Steps[j], i + 1, "run", s)
    BY <1>1, <1>2, ComesMore DEF Started, RanIsPlanned
  <2>. QED BY <1>1, <2>1, RanIsPlannedNext
<1>4. ASSUME NEW k \in 1..i, NEW s
      PROVE  /\ Planned(j, k, "run", s) => s \in DOMAIN cli[p].ran
             /\ Planned(j, k, "wait", s) => s \in cli'[p].gated
  <2>1. CASE k = i
    BY <1>1, <2>1 DEF Planned
  <2>2. CASE k \in 1..(i - 1)
    BY <1>1, <2>2 DEF Started, PlannedRan
  <2>. QED BY <1>1, <2>1, <2>2
<1>5. PlannedRan(p)'
  BY <1>1, <1>4, PlannedRanNext
<1>6. Ordered(p)'
  BY <1>1 DEF Started, Ordered
<1>7. ThroughPlan(p)'
  BY ThroughPlanNext DEF Started
<1>8. OwnContainers(p)'
  BY <1>1 DEF Started, OwnContainers
<1>. QED BY <1>3, <1>5, <1>6, <1>7, <1>8 DEF Started

LEMMA RunStarted ==
    ASSUME TypeOK, StepsOrdered, Kept, made' = made + 1, NEW p, NEW o \in Pending(p),
           o.op = "run", p \in DOMAIN cli',
           cli'[p] = [Advanced(cli[p]) EXCEPT !.ran = Put(@, o.service, made')], Started(p)
    PROVE  Started(p)'
<1> DEFINE j == cli[p].job
           i == cli[p].at
           ran == cli[p].ran
           t == o.service
<1>1. /\ j \in Jobs /\ i \in Nat \ {0} /\ o = Steps[j][i] /\ i \in DOMAIN Steps[j]
      /\ DOMAIN Steps[j] = 1..Len(Steps[j]) /\ Len(Steps[j]) \in Nat
      /\ cli'[p].job = j /\ cli'[p].at = i + 1
      /\ cli'[p].ran = Put(ran, t, made') /\ cli'[p].gated = cli[p].gated
  BY PendingShape, AdvancedShape, StepsShape DEF Process
<1>2. made \in Nat /\ 1..made \subseteq 1..(made') /\ made' \in 1..(made')
  BY ContainerShape DEF TypeOK
<1>3. ~Comes(Steps[j], i, "run", t) /\ Comes(Steps[j], i + 1, "run", t)
  BY <1>1, ComesMore DEF StepsOrdered
<1>4. t \notin DOMAIN ran
  BY <1>3 DEF Started, RanIsPlanned
<1>5. /\ DOMAIN cli'[p].ran = DOMAIN ran \cup {t} /\ cli'[p].ran[t] = made'
      /\ \A s \in DOMAIN ran : cli'[p].ran[s] = ran[s]
  BY <1>1, <1>4 DEF Put
<1>6. RanIsPlanned(p)'
  <2>1. ASSUME NEW s \in DOMAIN ran
        PROVE  cli'[p].ran[s] \in 1..(made') /\ Comes(Steps[j], i + 1, "run", s)
    BY <1>1, <1>2, <1>5, ComesMore DEF Started, RanIsPlanned
  <2>2. cli'[p].ran[t] \in 1..(made') /\ Comes(Steps[j], i + 1, "run", t)
    BY <1>2, <1>3, <1>5
  <2>3. ASSUME NEW s \in DOMAIN cli'[p].ran
        PROVE  cli'[p].ran[s] \in 1..(made') /\ Comes(Steps[j], i + 1, "run", s)
    BY <1>5, <2>1, <2>2
  <2>. QED BY <1>1, <2>3, RanIsPlannedNext
<1>7. ASSUME NEW k \in 1..i, NEW s
      PROVE  /\ Planned(j, k, "run", s) => s \in DOMAIN cli'[p].ran
             /\ Planned(j, k, "wait", s) => s \in cli[p].gated
  <2>1. CASE k = i
    BY <1>1, <1>5, <2>1 DEF Planned
  <2>2. CASE k \in 1..(i - 1)
    BY <1>5, <2>2 DEF Started, PlannedRan
  <2>. QED BY <1>1, <2>1, <2>2
<1>8. PlannedRan(p)'
  BY <1>1, <1>7, PlannedRanNext
<1>9. ASSUME NEW d \in Dependencies(j, t)
      PROVE  /\ d \in DOMAIN ran /\ ran[d] < made'
             /\ "healthy" \in Conditions(j, t, d) => d \in cli[p].gated
  <2>1. /\ Comes(Steps[j], i, "run", d)
        /\ "healthy" \in Conditions(j, t, d) => Comes(Steps[j], i, "wait", d)
    BY <1>1 DEF StepsOrdered
  <2>2. \A op : Comes(Steps[j], i, op, d) => \E k \in 1..(i - 1) : Planned(j, k, op, d)
    BY <1>1 DEF Comes, Planned
  <2>3. d \in DOMAIN ran /\ ("healthy" \in Conditions(j, t, d) => d \in cli[p].gated)
    BY <2>1, <2>2 DEF Started, PlannedRan
  <2>. QED BY <1>2, <2>3 DEF Started, RanIsPlanned
<1>10. Ordered(p)'
  <2> DEFINE Behind(s) == \A d \in Dependencies(j, s) :
                 /\ d \in DOMAIN cli'[p].ran /\ cli'[p].ran[d] < cli'[p].ran[s]
                 /\ "healthy" \in Conditions(j, s, d) => d \in cli[p].gated
  <2>1. ASSUME NEW s \in DOMAIN ran PROVE Behind(s)
    BY <1>5 DEF Started, Ordered
  <2>2. Behind(t)
    BY <1>5, <1>9
  <2>3. \A s \in DOMAIN cli'[p].ran : Behind(s)
    BY <1>5, <2>1, <2>2
  <2>. QED BY <1>1, <2>3 DEF Ordered, Dependencies, Conditions, Service_
<1>11. ThroughPlan(p)'
  BY ThroughPlanNext DEF Started
<1>12. OwnContainers(p)'
  <2>1. \A s \in DOMAIN ran : ran[s] < made'
    BY <1>2 DEF Started, RanIsPlanned
  <2>2. \A s, u \in DOMAIN ran : ran[s] = ran[u] => s = u
    BY DEF Started, OwnContainers
  <2>. QED BY <1>2, <1>5, <2>1, <2>2 DEF OwnContainers
<1>. QED BY <1>6, <1>8, <1>10, <1>11, <1>12 DEF Started

LEMMA RunInvStep ==
    ASSUME StepsOrdered, RunInv, [Next]_vars
    PROVE  RunInv'
<1>0. TypeOK /\ TypeOK' /\ \A q \in DOMAIN cli : Started(q)
  BY TypeStep DEF RunInv
<1>1. ASSUME SameProjects, DOMAIN cli' = DOMAIN cli,
             \A q \in DOMAIN cli : q \in DOMAIN cli' /\ Stays(q)
      PROVE  RunInv'
  BY <1>0, <1>1, StaysStarted DEF RunInv
<1>2. CASE UNCHANGED vars \/ World
  BY <1>0, <1>1, <1>2, IdleTypes, WorldStep DEF Kept, Stays
<1>3. ASSUME NEW j \in Jobs, Invoke(j) PROVE RunInv'
  <2>1. Kept /\ Typed_(j)
    BY <1>0, <1>3, InvokeTypes
  <2>2. PICK p : p = Len(cli) + 1
    OBVIOUS
  <2>3. /\ DOMAIN cli' = DOMAIN cli \cup {p} /\ DOMAIN cli'[p].ran = {} /\ cli'[p].at = 1
        /\ \A q \in DOMAIN cli : cli'[q] = cli[q]
    BY <2>1, <2>2 DEF Typed_
  <2>6. ThroughPlan(p)'
    BY <2>1, <2>2 DEF Typed_, ThroughPlan
  <2>4. Started(p)'
    BY <2>3, <2>6 DEF Started, RanIsPlanned, PlannedRan, Ordered, OwnContainers
  <2>5. ASSUME NEW q \in DOMAIN cli PROVE Started(q)'
    BY <1>0, <2>1, <2>3, <2>5, StaysStarted DEF Stays, Kept
  <2>. QED BY <1>0, <2>3, <2>4, <2>5 DEF RunInv
<1>4. ASSUME NEW p, SameProjects, Walks(p), p \in DOMAIN cli, Started(p)' PROVE RunInv'
  <2>1. ASSUME NEW q \in DOMAIN cli, q # p PROVE Started(q)'
    BY <1>0, <1>4, <2>1, StaysStarted DEF Walks, Stays
  <2>. QED BY <1>0, <1>4, <2>1 DEF RunInv, Walks
<1>5. ASSUME NEW p, NetworkStep(p) \/ VolumeStep(p) \/ BuildStep(p) \/ PullStep(p)
      PROVE  RunInv'
  <2>1. Executes(p)
    BY <1>5 DEF Executes
  <2>2. Walks(p) /\ Kept /\ p \in DOMAIN cli /\ TypeOK'
    BY <1>0, <2>1, ExecuteTypes
  <2>3. PICK o \in Pending(p) : o.op \notin {"run", "wait"} /\ Advance(p)
    BY <1>5 DEF NetworkStep, VolumeStep, BuildStep, PullStep
  <2>4. cli'[p] = Advanced(cli[p]) /\ p \in DOMAIN cli'
    BY <1>0, <2>2, <2>3, Advances DEF TypeOK, Walks
  <2>5. Started(p)'
    BY <1>0, <2>2, <2>3, <2>4, AdvanceStarted DEF Kept
  <2>. QED BY <1>4, <2>2, <2>5 DEF Kept
<1>6. ASSUME NEW p, RunStep(p) PROVE RunInv'
  <2>1. PICK o \in Pending(p) :
            /\ o.op = "run" /\ RunContainer(o) /\ UNCHANGED faults
            /\ cli' = [cli EXCEPT ![p] =
                          [Advanced(cli[p]) EXCEPT !.ran = Put(@, o.service, made')]]
    BY <1>6 DEF RunStep
  <2>2. /\ Walks(p) /\ Kept /\ p \in DOMAIN cli
        /\ cli'[p] = [Advanced(cli[p]) EXCEPT !.ran = Put(@, o.service, made')]
    BY <1>0, <2>1, Runs, PendingShape
  <2>3. made' = made + 1
    BY <1>0, <2>1, PendingShape, RunTypes DEF TypeOK
  <2>4. Started(p)'
    BY <1>0, <2>1, <2>2, <2>3, RunStarted DEF Walks
  <2>. QED BY <1>4, <2>2, <2>4 DEF Kept
<1>7. ASSUME NEW p, GatePasses(p) PROVE RunInv'
  <2>1. PICK o \in Pending(p) :
            /\ o.op = "wait" /\ UNCHANGED <<podman, faults>>
            /\ cli' = [cli EXCEPT ![p] =
                          [Advanced(cli[p]) EXCEPT !.gated = @ \cup {o.service}]]
    BY <1>7 DEF GatePasses
  <2>2. /\ Walks(p) /\ Kept /\ p \in DOMAIN cli
        /\ cli'[p] = [Advanced(cli[p]) EXCEPT !.gated = @ \cup {o.service}]
    BY <1>0, <2>1, Gates, PendingShape
  <2>3. Started(p)'
    BY <1>0, <2>1, <2>2, GateStarted DEF Walks, Kept
  <2>. QED BY <1>4, <2>2, <2>3 DEF Kept
<1>8. ASSUME NEW p, SameProjects, DOMAIN cli' = DOMAIN cli,
             \/ GateFails(p) \/ Refused(p) \/ Deadline(p) \/ CallFails(p) \/ RunFails(p)
             \/ Drain(p) \/ TailEnds(p)
             \/ PsList(p) \/ DownList(p) \/ LogsList(p) \/ RemoveStep(p)
             \/ \E s \in Services :
                   \/ OpenStream(p, s) \/ SpawnFails(p, s) \/ SendError(p, s)
                   \/ Forward(p, s) \/ LoseLine(p, s) \/ ReadBreaks(p, s) \/ Eof(p, s)
             \/ \E id \in Ids : StopStep(p, id) \/ StopMissing(p, id)
      PROVE  RunInv'
  BY <1>0, <1>1, <1>8, StayingSteps
<1>9. ASSUME NEW p, PsList(p) \/ DownList(p) \/ LogsList(p) \/ RemoveStep(p)
                    \/ \E id \in Ids : StopStep(p, id)
      PROVE  RunInv'
  <2>1. SameProjects /\ DOMAIN cli' = DOMAIN cli
    BY <1>0, <1>9, PsListTypes, DownListTypes, LogsListTypes, StopStepTypes, RemoveStepTypes
       DEF Kept, Relists
  <2>. QED BY <1>8, <1>9, <2>1
<1>10. ASSUME NEW p,
              \/ GateFails(p) \/ Refused(p) \/ Deadline(p) \/ CallFails(p) \/ RunFails(p)
              \/ Drain(p) \/ TailEnds(p)
              \/ \E s \in Services :
                    \/ OpenStream(p, s) \/ SpawnFails(p, s) \/ SendError(p, s)
                    \/ Forward(p, s) \/ LoseLine(p, s) \/ ReadBreaks(p, s) \/ Eof(p, s)
              \/ \E id \in Ids : StopMissing(p, id)
       PROVE  RunInv'
  <2>1. GateFails(p) \/ Refused(p) => Executes(p)
    BY DEF Executes
  <2>2. SameProjects /\ DOMAIN cli' = DOMAIN cli
    BY <1>0, <1>10, <2>1, WalkSteps DEF Kept, Walks
  <2>. QED BY <1>8, <1>10, <2>2
<1>11. ASSUME NEW p, Executes(p) PROVE RunInv'
  BY <1>5, <1>6, <1>7, <1>10, <1>11 DEF Executes
<1>. QED BY <1>0, <1>2, <1>3, <1>9, <1>10, <1>11, StepsThereAre

\* No command works in the initial states.
LEMMA RunInvStarts == Init => RunInv
<1>1. Init => TypeOK /\ DOMAIN cli = {}
  BY InitTypes DEF Init
<1>. QED BY <1>1 DEF RunInv

\* execute (executor.rs) performs one operation after the other and stops at the
\* first error, and every plan is ordered: no service starts before the
\* containers it depends on and the barriers of those it wants healthy, whatever
\* fails, whoever else is at work and however many services there are.
THEOREM StartOrderHolds == Spec => []StartOrder
<1>1. Init => RunInv
  BY RunInvStarts
<1>2. RunInv /\ [Next]_vars => RunInv'
  BY EveryPlanOrdered, RunInvStep
<1>3. RunInv => StartOrder
  BY DEF RunInv, Started, Ordered, StartOrder
<1>. QED BY <1>1, <1>2, <1>3, PTL DEF Spec

\* The operations of a plan up to its end are those that have been carried out.
LEMMA ThroughIsComplete ==
    ASSUME StepsComplete, RunInv
    PROVE  UpComplete
<1> SUFFICES ASSUME NEW p \in DOMAIN cli, Job[cli[p].job].command = "up",
                    ~Job[cli[p].job].dry_run, cli[p].phase = "done", cli[p].ok
             PROVE  /\ DOMAIN cli[p].ran = Selected(cli[p].job)
                    /\ \A s, t \in DOMAIN cli[p].ran : cli[p].ran[s] = cli[p].ran[t] => s = t
  BY DEF UpComplete
<1> DEFINE j == cli[p].job
           n == Len(Steps[j])
<1>1. /\ TypeOK /\ Started(p) /\ j \in Jobs /\ n \in Nat /\ DOMAIN Steps[j] = 1..n
      /\ cli[p].ran \in Partial(Services, Ids)
  BY CliShape, StepsShape DEF RunInv, Process
<1>2. cli[p].at = n + 1 /\ Loads[j].ok
  BY <1>1 DEF Started, ThroughPlan
<1>3. Selected(j) = {s \in Services : Comes(Steps[j], n + 1, "run", s)}
  BY <1>1, <1>2 DEF StepsComplete
<1>4. \A s \in DOMAIN cli[p].ran : s \in Services /\ Comes(Steps[j], n + 1, "run", s)
  BY <1>1, <1>2 DEF Started, RanIsPlanned, Partial
<1>5. ASSUME NEW s, Comes(Steps[j], n + 1, "run", s) PROVE s \in DOMAIN cli[p].ran
  <2>1. PICK k \in 1..n : Planned(j, k, "run", s)
    BY <1>1, <1>5 DEF Comes, Planned
  <2>2. k \in 1..(cli[p].at - 1)
    BY <1>1, <1>2, <2>1
  <2>. QED BY <1>1, <2>1, <2>2 DEF Started, PlannedRan
<1>6. DOMAIN cli[p].ran = Selected(j)
  BY <1>3, <1>4, <1>5
<1>. QED BY <1>1, <1>6 DEF Started, OwnContainers

\* execute (executor.rs) returns Ok only past the last operation of the plan, and
\* podman never gives an id twice: whatever else runs on the host, an up that
\* reports success has started each service that its profiles select, in a
\* container of its own, and no other.
THEOREM UpCompleteHolds == Spec => []UpComplete
<1>1. Init => RunInv
  BY RunInvStarts
<1>2. RunInv /\ [Next]_vars => RunInv'
  BY EveryPlanOrdered, RunInvStep
<1>3. RunInv => UpComplete
  BY EveryPlanComplete, ThroughIsComplete
<1>. QED BY <1>1, <1>2, <1>3, PTL DEF Spec
-----------------------------------------------------------------------------
(* logs: why what is printed of a service is its log.                       *)

\* What a logs command has read of service s: of the lines written to stdout those
\* up to m are out and the others are still in the channel; or the reader could
\* not be started and its error line is in one of the two places.
Stdout(m, n) == ((m + 1)..n) \ ErrLines
Read(l, s) ==
    \E m \in 0..LogLines :
        /\ m <= l.sent[s] /\ LinesOf(l.out, s) = Stdout(0, m)
        /\ LinesOf(l.chan, s) = Stdout(m, l.sent[s])
Unread(l, s) ==
    /\ s \in l.ended /\ l.sent[s] = 0
    /\ \/ LinesOf(l.out, s) = {0} /\ LinesOf(l.chan, s) = {}
       \/ LinesOf(l.out, s) = {} /\ LinesOf(l.chan, s) = {0}
Followed(l, s) ==
    /\ Rising(l.out, s) /\ Rising(l.chan, s)
    /\ Read(l, s) \/ Unread(l, s)
    /\ s \notin l.opened => l.sent[s] = 0
Readers(l) ==
    /\ l.ended \subseteq l.opened /\ l.opened \subseteq DOMAIN l.want
    /\ l.stuck \subseteq DOMAIN l.want \ l.opened
\* why a reader may have ended
Ended(l, s) ==
    \/ Unread(l, s) \/ l.sent[s] = LogLines
    \/ l.want[s] \notin DOMAIN containers \/ s \in l.broken
Streams(l) ==
    /\ Readers(l) /\ \A s \in Services : Followed(l, s)
    /\ \A s \in DOMAIN l.want : l.want[s] \in 1..made
    /\ \A s \in l.ended : Ended(l, s)
AllPrinted(l) == l.ended = DOMAIN l.want /\ l.chan = <<>>
Tailed(p) ==
    /\ Streams(cli[p].log)
    /\ cli[p].phase \notin {"tail", "done"} => cli[p].log = NoLog
    /\ cli[p].phase = "done" /\ cli[p].ok => AllPrinted(cli[p].log)
LogInv == TypeOK /\ \A p \in DOMAIN cli : Tailed(p)

\* A line put at the end of a queue, and one taken from its head.
LEMMA LinePut ==
    ASSUME NEW q \in Seq(Line), NEW t \in Services, NEW n \in 0..LogLines
    PROVE  LET put == Append(q, <<t, n>>)
           IN  /\ LinesOf(put, t) = LinesOf(q, t) \cup {n}
               /\ \A s : s # t => LinesOf(put, s) = LinesOf(q, s)
               /\ \A s : s # t /\ Rising(q, s) => Rising(put, s)
               /\ Rising(q, t) /\ (\A i \in LinesOf(q, t) : i < n) => Rising(put, t)
<1> DEFINE put == Append(q, <<t, n>>)
<1>1. /\ Len(q) \in Nat /\ DOMAIN q = 1..Len(q) /\ DOMAIN put = 1..(Len(q) + 1)
      /\ \A i \in 1..Len(q) : put[i] = q[i]
      /\ put[Len(q) + 1] = <<t, n>>
  OBVIOUS
<1> HIDE DEF put
<1>2. PICK k : k = Len(q) + 1
  OBVIOUS
<1>3. /\ DOMAIN put = DOMAIN q \cup {k} /\ k \notin DOMAIN q
      /\ \A i \in DOMAIN q : put[i] = q[i] /\ i < k /\ ~(k < i)
      /\ put[k][1] = t /\ put[k][2] = n /\ ~(k < k)
  BY <1>1, <1>2
<1>4. LinesOf(put, t) = LinesOf(q, t) \cup {n}
  BY <1>3 DEF LinesOf
<1>5. ASSUME NEW s, s # t PROVE LinesOf(put, s) = LinesOf(q, s)
  BY <1>3, <1>5 DEF LinesOf
<1>6. ASSUME NEW s, s # t, Rising(q, s) PROVE Rising(put, s)
  BY <1>3, <1>6 DEF Rising
<1>7. ASSUME Rising(q, t), \A i \in LinesOf(q, t) : i < n PROVE Rising(put, t)
  <2>1. \A i \in DOMAIN q : q[i][1] = t => q[i][2] < n
    BY <1>7 DEF LinesOf
  <2>. QED BY <1>3, <1>7, <2>1 DEF Rising
<1>. QED BY <1>4, <1>5, <1>6, <1>7 DEF put

LEMMA LineTaken ==
    ASSUME NEW q \in Seq(Line), q # <<>>
    PROVE  /\ Head(q) \in Line /\ Tail(q) \in Seq(Line)
           /\ LinesOf(q, Head(q)[1]) = LinesOf(Tail(q), Head(q)[1]) \cup {Head(q)[2]}
           /\ \A s : s # Head(q)[1] => LinesOf(Tail(q), s) = LinesOf(q, s)
           /\ \A s : Rising(q, s) => Rising(Tail(q), s)
           /\ Rising(q, Head(q)[1]) =>
                 \A i \in LinesOf(Tail(q), Head(q)[1]) : Head(q)[2] < i
<1> DEFINE rest == Tail(q)
           h == Head(q)
<1>1. /\ Len(q) \in Nat \ {0} /\ DOMAIN q = 1..Len(q) /\ DOMAIN rest = 1..(Len(q) - 1)
      /\ \A i \in 1..(Len(q) - 1) : rest[i] = q[i + 1]
      /\ h = q[1] /\ h \in Line /\ rest \in Seq(Line)
  OBVIOUS
<1> HIDE DEF rest, h
<1>2. ASSUME NEW i \in DOMAIN rest
      PROVE  /\ i + 1 \in DOMAIN q /\ rest[i] = q[i + 1] /\ 1 < i + 1
  BY <1>1
<1>3. ASSUME NEW k \in DOMAIN q, k # 1
      PROVE  \E i \in DOMAIN rest : k = i + 1 /\ rest[i] = q[k]
  <2>1. k - 1 \in DOMAIN rest /\ k = (k - 1) + 1
    BY <1>1, <1>3
  <2>. QED BY <1>2, <2>1
<1>4. LinesOf(q, h[1]) = LinesOf(rest, h[1]) \cup {h[2]}
  <2>1. \A x \in LinesOf(q, h[1]) : x \in LinesOf(rest, h[1]) \cup {h[2]}
    BY <1>1, <1>3 DEF LinesOf
  <2>2. \A x \in LinesOf(rest, h[1]) : x \in LinesOf(q, h[1])
    BY <1>2 DEF LinesOf
  <2>3. h[2] \in LinesOf(q, h[1])
    BY <1>1 DEF LinesOf
  <2>. QED BY <2>1, <2>2, <2>3
<1>5. ASSUME NEW s, s # h[1] PROVE LinesOf(rest, s) = LinesOf(q, s)
  <2>1. \A x \in LinesOf(q, s) : x \in LinesOf(rest, s)
    BY <1>1, <1>3, <1>5 DEF LinesOf
  <2>2. \A x \in LinesOf(rest, s) : x \in LinesOf(q, s)
    BY <1>2 DEF LinesOf
  <2>. QED BY <2>1, <2>2
<1>6. ASSUME NEW s, Rising(q, s) PROVE Rising(rest, s)
  <2>1. \A i, k \in DOMAIN rest : i < k => i + 1 < k + 1
    BY <1>1
  <2>. QED BY <1>2, <1>6, <2>1 DEF Rising
<1>7. ASSUME Rising(q, h[1]), NEW x \in LinesOf(rest, h[1]) PROVE h[2] < x
  <2>1. PICK i \in DOMAIN rest : rest[i][1] = h[1] /\ rest[i][2] = x
    BY DEF LinesOf
  <2>2. PICK k \in DOMAIN q : q[k] = rest[i] /\ 1 < k
    BY <1>2
  <2>. QED BY <1>1, <1>7, <2>1, <2>2 DEF Rising
<1>. QED BY <1>1, <1>4, <1>5, <1>6, <1>7 DEF rest, h

\* A step that leaves the lines of service t where they are.
SameLines(l, m, t) ==
    /\ m.sent[t] = l.sent[t]
    /\ LinesOf(m.out, t) = LinesOf(l.out, t) /\ LinesOf(m.chan, t) = LinesOf(l.chan, t)
    /\ Rising(l.out, t) => Rising(m.out, t)
    /\ Rising(l.chan, t) => Rising(m.chan, t)
    /\ l.ended \subseteq m.ended /\ l.opened \subseteq m.opened

LEMMA LinesStay ==
    ASSUME NEW l, NEW m, NEW t, SameLines(l, m, t), Followed(l, t)
    PROVE  Followed(m, t) /\ (Unread(l, t) => Unread(m, t))
<1>1. Read(l, t) => Read(m, t)
  BY DEF SameLines, Read
<1>2. Unread(l, t) => Unread(m, t)
  BY DEF SameLines, Unread
<1>. QED BY <1>1, <1>2 DEF SameLines, Followed

\* A reader that starts, or cannot be started.
LEMMA OpenStreams ==
    ASSUME NEW l \in TailState, Streams(l), NEW s \in DOMAIN l.want \ l.opened, l.stuck = {},
           NEW m \in TailState, m.want = l.want, m.ended = l.ended, m.broken = l.broken,
           m.sent = l.sent, m.chan = l.chan, m.out = l.out,
           \/ m.opened = l.opened \cup {s} /\ m.stuck = {}
           \/ m.opened = l.opened /\ m.stuck = {s}
    PROVE  Streams(m)
<1>1. \A t \in Services : SameLines(l, m, t)
  BY DEF SameLines
<1>2. \A t \in Services : Followed(m, t) /\ (Unread(l, t) => Unread(m, t))
  BY <1>1, LinesStay DEF Streams
<1>3. Readers(m)
  BY DEF Streams, Readers
<1>4. \A t \in m.ended : Ended(m, t)
  BY <1>2 DEF Streams, Ended, TailState
<1>. QED BY <1>2, <1>3, <1>4 DEF Streams

\* Nothing has been read of a service whose reader has not been started.
LEMMA NothingYet ==
    ASSUME NEW l \in TailState, Streams(l), NEW s \in Services, s \notin l.opened
    PROVE  LinesOf(l.out, s) = {} /\ LinesOf(l.chan, s) = {} /\ l.sent[s] = 0
<1>1. s \notin l.ended /\ l.sent[s] = 0 /\ Followed(l, s)
  BY DEF Streams, Readers, Followed
<1>2. PICK m \in 0..LogLines :
          m <= 0 /\ LinesOf(l.out, s) = Stdout(0, m) /\ LinesOf(l.chan, s) = Stdout(m, 0)
  BY <1>1 DEF Followed, Read, Unread
<1>3. m = 0
  BY <1>2
<1>. QED BY <1>1, <1>2, <1>3 DEF Stdout

LEMMA ErrorStreams ==
    ASSUME NEW l \in TailState, Streams(l), NEW s \in l.stuck,
           NEW m \in TailState, m.want = l.want, m.sent = l.sent, m.out = l.out, m.stuck = {},
           m.opened = l.opened \cup {s}, m.ended = l.ended \cup {s}, m.broken = l.broken,
           m.chan = Append(l.chan, <<s, 0>>)
    PROVE  Streams(m)
<1>1. /\ s \in Services /\ s \notin l.opened /\ s \in DOMAIN l.want /\ l.chan \in Seq(Line)
      /\ 0 \in 0..LogLines
  BY ComposeAssumption DEF Streams, Readers, TailState
<1>2. LinesOf(l.out, s) = {} /\ LinesOf(l.chan, s) = {} /\ l.sent[s] = 0
  BY <1>1, NothingYet
<1>3. /\ LinesOf(m.chan, s) = {0} /\ (Rising(l.chan, s) => Rising(m.chan, s))
      /\ \A t \in Services \ {s} :
            /\ LinesOf(m.chan, t) = LinesOf(l.chan, t)
            /\ Rising(l.chan, t) => Rising(m.chan, t)
  BY <1>1, <1>2, LinePut
<1>4. Unread(m, s) /\ Followed(m, s)
  BY <1>1, <1>2, <1>3 DEF Unread, Followed, Streams
<1>5. \A t \in Services \ {s} : SameLines(l, m, t)
  BY <1>3 DEF SameLines
<1>6. \A t \in Services \ {s} : Followed(m, t) /\ (Unread(l, t) => Unread(m, t))
  BY <1>5, LinesStay DEF Streams
<1>7. Readers(m)
  BY <1>1 DEF Streams, Readers
<1>8. \A t \in m.ended : Ended(m, t)
  BY <1>4, <1>6 DEF Streams, Ended, TailState
<1>. QED BY <1>4, <1>6, <1>7, <1>8 DEF Streams

LEMMA ForwardStreams ==
    ASSUME NEW l \in TailState, Streams(l), NEW s \in l.opened \ l.ended, l.sent[s] < LogLines,
           l.sent[s] + 1 \notin ErrLines,
           NEW m \in TailState, m.want = l.want, m.opened = l.opened, m.stuck = l.stuck,
           m.ended = l.ended, m.broken = l.broken, m.out = l.out,
           m.sent = [l.sent EXCEPT ![s] = l.sent[s] + 1],
           m.chan = Append(l.chan, <<s, l.sent[s] + 1>>)
    PROVE  Streams(m)
<1> DEFINE n == l.sent[s] + 1
<1>1. /\ s \in Services /\ l.chan \in Seq(Line) /\ LogLines \in Nat
      /\ l.sent[s] \in 0..LogLines /\ l.sent \in [Services -> 0..LogLines]
  BY ComposeAssumption DEF TailState
<1>2. n \in 0..LogLines /\ m.sent[s] = n /\ \A t \in Services \ {s} : m.sent[t] = l.sent[t]
  BY <1>1
<1>3. /\ LinesOf(m.chan, s) = LinesOf(l.chan, s) \cup {n}
      /\ Rising(l.chan, s) /\ (\A i \in LinesOf(l.chan, s) : i < n) => Rising(m.chan, s)
      /\ \A t \in Services \ {s} :
            /\ LinesOf(m.chan, t) = LinesOf(l.chan, t)
            /\ Rising(l.chan, t) => Rising(m.chan, t)
  BY <1>1, <1>2, LinePut
<1>4. PICK k \in 0..LogLines :
          /\ k <= l.sent[s] /\ LinesOf(l.out, s) = Stdout(0, k)
          /\ LinesOf(l.chan, s) = Stdout(k, l.sent[s])
  BY <1>1 DEF Streams, Followed, Read, Unread
<1>5. Read(m, s)
  <2>0. PICK sent \in 0..LogLines : sent = l.sent[s]
    BY <1>1
  <2>1. k <= n /\ \A x : x \in (k + 1)..l.sent[s] \/ x = n <=> x \in (k + 1)..n
    <3>1. k \in Nat /\ sent \in Nat /\ k <= sent /\ n = sent + 1
      BY <1>1, <1>4, <2>0
    <3>2. k <= n /\ \A x : x \in (k + 1)..sent \/ x = n <=> x \in (k + 1)..n
      BY <3>1
    <3>. QED BY <2>0, <3>2
  <2>2. Stdout(k, l.sent[s]) \cup {n} = Stdout(k, n)
    BY <2>1 DEF Stdout
  <2>3. LinesOf(m.chan, s) = Stdout(k, n)
    BY <1>3, <1>4, <2>2
  <2>. QED BY <1>2, <1>4, <2>1, <2>3 DEF Read
<1>6. Rising(m.chan, s)
  <2>1. \A i \in LinesOf(l.chan, s) : i < n
    BY <1>1, <1>4 DEF Stdout
  <2>2. Rising(l.chan, s)
    BY <1>1 DEF Streams, Followed
  <2>. QED BY <1>3, <2>1, <2>2
<1> HIDE DEF n
<1>7. Followed(m, s)
  BY <1>1, <1>5, <1>6 DEF Followed, Streams
<1>8. \A t \in Services \ {s} : SameLines(l, m, t)
  BY <1>2, <1>3 DEF SameLines
<1>9. \A t \in Services \ {s} : Followed(m, t) /\ (Unread(l, t) => Unread(m, t))
  BY <1>8, LinesStay DEF Streams
<1>10. Readers(m)
  BY DEF Streams, Readers
<1>11. \A t \in m.ended : Ended(m, t)
  BY <1>2, <1>9 DEF Streams, Ended, TailState
<1>. QED BY <1>7, <1>9, <1>10, <1>11 DEF Streams

\* A line that the container wrote to stderr is read by nobody.
LEMMA LostStreams ==
    ASSUME NEW l \in TailState, Streams(l), NEW s \in l.opened \ l.ended,
           l.sent[s] + 1 \in ErrLines,
           NEW m \in TailState, m.want = l.want, m.opened = l.opened, m.stuck = l.stuck,
           m.ended = l.ended, m.broken = l.broken, m.out = l.out, m.chan = l.chan,
           m.sent = [l.sent EXCEPT ![s] = l.sent[s] + 1]
    PROVE  Streams(m)
<1> DEFINE n == l.sent[s] + 1
<1>1. /\ s \in Services /\ LogLines \in Nat
      /\ l.sent[s] \in 0..LogLines /\ l.sent \in [Services -> 0..LogLines]
  BY ComposeAssumption DEF TailState
<1>2. n \in 0..LogLines /\ m.sent[s] = n /\ \A t \in Services \ {s} : m.sent[t] = l.sent[t]
  BY <1>1, ComposeAssumption
<1>3. PICK k \in 0..LogLines :
          /\ k <= l.sent[s] /\ LinesOf(l.out, s) = Stdout(0, k)
          /\ LinesOf(l.chan, s) = Stdout(k, l.sent[s])
  BY <1>1 DEF Streams, Followed, Read, Unread
<1>4. Read(m, s)
  <2>1. PICK sent \in 0..LogLines : sent = l.sent[s]
    BY <1>1
  <2>2. k <= n /\ \A x : x \in (k + 1)..sent \/ x = n <=> x \in (k + 1)..n
    BY <1>1, <1>3, <2>1
  <2>3. Stdout(k, l.sent[s]) = Stdout(k, n)
    BY <2>1, <2>2 DEF Stdout
  <2>. QED BY <1>2, <1>3, <2>2, <2>3 DEF Read
<1> HIDE DEF n
<1>5. Followed(m, s)
  BY <1>1, <1>4 DEF Followed, Streams
<1>6. \A t \in Services \ {s} : SameLines(l, m, t)
  BY <1>2 DEF SameLines
<1>7. \A t \in Services \ {s} : Followed(m, t) /\ (Unread(l, t) => Unread(m, t))
  BY <1>6, LinesStay DEF Streams
<1>8. Readers(m)
  BY DEF Streams, Readers
<1>9. \A t \in m.ended : Ended(m, t)
  BY <1>2, <1>7 DEF Streams, Ended, TailState
<1>. QED BY <1>5, <1>7, <1>8, <1>9 DEF Streams

\* A reader ends with its log or its container, or an error breaks it off.
LEMMA EndStreams ==
    ASSUME NEW l \in TailState, Streams(l), NEW s \in l.opened \ l.ended,
           NEW m \in TailState, m.want = l.want, m.opened = l.opened, m.stuck = l.stuck,
           m.ended = l.ended \cup {s}, m.sent = l.sent, m.chan = l.chan, m.out = l.out,
           \/ m.broken = l.broken \cup {s}
           \/ /\ m.broken = l.broken
              /\ l.sent[s] = LogLines \/ l.want[s] \notin DOMAIN containers
    PROVE  Streams(m)
<1>1. \A t \in Services : SameLines(l, m, t)
  BY DEF SameLines
<1>2. \A t \in Services : Followed(m, t) /\ (Unread(l, t) => Unread(m, t))
  BY <1>1, LinesStay DEF Streams
<1>3. Readers(m)
  BY DEF Streams, Readers
<1>4. \A t \in m.ended : Ended(m, t)
  BY <1>2 DEF Streams, Ended, TailState
<1>. QED BY <1>2, <1>3, <1>4 DEF Streams

LEMMA DrainStreams ==
    ASSUME NEW l \in TailState, Streams(l), l.chan # <<>>,
           NEW m \in TailState, m.want = l.want, m.opened = l.opened, m.stuck = l.stuck,
           m.ended = l.ended, m.broken = l.broken, m.sent = l.sent, m.chan = Tail(l.chan),
           m.out = Append(l.out, Head(l.chan))
    PROVE  Streams(m)
<1>0. LogLines \in Nat /\ l.chan \in Seq(Line) /\ l.out \in Seq(Line)
      /\ l.sent \in [Services -> 0..LogLines]
  BY ComposeAssumption DEF TailState
<1>1. PICK s \in Services, n \in 0..LogLines : Head(l.chan) = <<s, n>>
  <2>1. Head(l.chan) \in Line
    BY <1>0, LineTaken
  <2>. QED BY <2>1 DEF Line
<1>H. Head(l.chan)[1] = s /\ Head(l.chan)[2] = n /\ m.out = Append(l.out, <<s, n>>)
  BY <1>1
<1>2. /\ LinesOf(l.chan, s) = LinesOf(m.chan, s) \cup {n}
      /\ Rising(l.chan, s) => \A i \in LinesOf(m.chan, s) : n < i
      /\ \A t \in Services : Rising(l.chan, t) => Rising(m.chan, t)
      /\ \A t \in Services \ {s} : LinesOf(m.chan, t) = LinesOf(l.chan, t)
  BY <1>0, <1>H, LineTaken
<1>3. /\ LinesOf(m.out, s) = LinesOf(l.out, s) \cup {n}
      /\ Rising(l.out, s) /\ (\A i \in LinesOf(l.out, s) : i < n) => Rising(m.out, s)
      /\ \A t \in Services \ {s} :
            /\ LinesOf(m.out, t) = LinesOf(l.out, t) /\ (Rising(l.out, t) => Rising(m.out, t))
  <2>1. PICK q \in Seq(Line) : q = l.out
    BY <1>0
  <2>2. PICK put : put = Append(q, <<s, n>>)
    OBVIOUS
  <2>3. /\ LinesOf(put, s) = LinesOf(q, s) \cup {n}
        /\ \A t : t # s => LinesOf(put, t) = LinesOf(q, t)
        /\ \A t : t # s /\ Rising(q, t) => Rising(put, t)
        /\ Rising(q, s) /\ (\A i \in LinesOf(q, s) : i < n) => Rising(put, s)
    BY <2>2, LinePut
  <2>4. m.out = put
    BY <1>H, <2>1, <2>2
  <2>. QED BY <2>1, <2>3, <2>4
<1>4. /\ Rising(l.chan, s) /\ Rising(l.out, s) /\ (s \notin l.opened => l.sent[s] = 0)
      /\ Read(l, s) \/ Unread(l, s)
  BY DEF Streams, Followed
<1>5. /\ \A i \in LinesOf(l.out, s) : i < n
      /\ Read(m, s) \/ Unread(m, s)
      /\ Unread(l, s) => Unread(m, s)
  <2>1. CASE Read(l, s)
    <3>1. PICK k \in 0..LogLines :
              /\ k <= l.sent[s] /\ LinesOf(l.out, s) = Stdout(0, k)
              /\ LinesOf(l.chan, s) = Stdout(k, l.sent[s])
      BY <2>1 DEF Read
    <3>0. PICK sent \in 0..LogLines : sent = l.sent[s]
      BY <1>0
    <3>2. k < n /\ n <= sent /\ n \notin ErrLines
      <4>1. n \in Stdout(k, l.sent[s])
        BY <1>2, <3>1
      <4>. QED BY <1>0, <3>0, <4>1 DEF Stdout
    <3>R. \A x \in LinesOf(m.chan, s) : n < x
      BY <1>2, <1>4
    <3>3. LinesOf(m.out, s) = Stdout(0, n)
      <4>1. ASSUME NEW x \in (k + 1)..n, x # n PROVE x \in ErrLines
        <5>1. x \in Int /\ x < n /\ x \in (k + 1)..sent
          BY <1>0, <3>2, <4>1
        <5>2. x \notin LinesOf(m.chan, s) \cup {n}
          BY <1>0, <3>R, <4>1, <5>1
        <5>. QED BY <1>2, <3>0, <3>1, <5>1, <5>2 DEF Stdout
      <4>2. \A x : x \in 1..n <=> x \in 1..k \/ x \in (k + 1)..n
        BY <1>0, <3>2
      <4>3. n \in (k + 1)..n
        BY <1>0, <3>2
      <4>4. Stdout(0, k) \cup {n} = Stdout(0, n)
        BY <3>2, <4>1, <4>2, <4>3 DEF Stdout
      <4>. QED BY <1>3, <3>1, <4>4
    <3>4. LinesOf(m.chan, s) = Stdout(n, l.sent[s])
      <4>1. \A x : x \in LinesOf(m.chan, s) <=> x \in Stdout(k, sent) /\ n < x
        <5>1. \A x \in Stdout(k, sent) : x \in LinesOf(m.chan, s) \/ x = n
          BY <1>2, <3>0, <3>1
        <5>2. \A x \in LinesOf(m.chan, s) : x \in Stdout(k, sent) /\ n < x
          BY <1>2, <3>R, <3>0, <3>1
        <5>. QED BY <1>0, <5>1, <5>2
      <4>2. \A x : x \in Stdout(k, sent) /\ n < x <=> x \in Stdout(n, sent)
        BY <1>0, <3>2 DEF Stdout
      <4>. QED BY <3>0, <4>1, <4>2
    <3>5. Read(m, s)
      BY <3>0, <3>2, <3>3, <3>4 DEF Read
    <3>6. ~Unread(l, s)
      BY <3>0, <3>2 DEF Unread
    <3>7. \A i \in LinesOf(l.out, s) : i < n
      BY <1>0, <3>1, <3>2 DEF Stdout
    <3>. QED BY <3>5, <3>6, <3>7
  <2>2. CASE Unread(l, s)
    <3>1. LinesOf(l.out, s) = {} /\ n = 0 /\ LinesOf(m.chan, s) \subseteq {0}
      BY <1>2, <2>2 DEF Unread
    <3>2. LinesOf(m.chan, s) = {} /\ LinesOf(m.out, s) = {0}
      BY <1>2, <1>3, <1>4, <3>1
    <3>3. Unread(m, s)
      BY <2>2, <3>2 DEF Unread
    <3>. QED BY <3>1, <3>3
  <2>. QED BY <1>4, <2>1, <2>2
<1>6. Followed(m, s)
  BY <1>2, <1>3, <1>4, <1>5 DEF Followed
<1>7. \A t \in Services \ {s} : SameLines(l, m, t)
  BY <1>2, <1>3 DEF SameLines
<1>8. \A t \in Services \ {s} : Followed(m, t) /\ (Unread(l, t) => Unread(m, t))
  BY <1>7, LinesStay DEF Streams
<1>9. Readers(m)
  BY DEF Streams, Readers
<1>10. \A t \in m.ended : Ended(m, t)
  BY <1>5, <1>8 DEF Streams, Ended, TailState
<1>. QED BY <1>6, <1>8, <1>9, <1>10 DEF Streams

\* What a step makes of the invariant of command p: it leaves its streams alone,
\* or it leaves them as m.
SameLog(p) ==
    /\ p \in DOMAIN cli' /\ cli'[p].log = cli[p].log
    /\ cli[p].phase \in {"tail", "done"} =>
          cli'[p].phase = cli[p].phase /\ cli'[p].ok = cli[p].ok

LEMMA EmptyLog == Streams(NoLog) /\ AllPrinted(NoLog)
<1>1. DOMAIN NoLog.want = {} /\ NoLog.ended = {} /\ NoLog.opened = {} /\ NoLog.stuck = {}
      /\ NoLog.chan = <<>> /\ NoLog.out = <<>> /\ \A s \in Services : NoLog.sent[s] = 0
  BY DEF NoLog
<1>2. 0 \in 0..LogLines /\ Stdout(0, 0) = {} /\ 0 <= 0
  BY ComposeAssumption DEF Stdout
<1>3. \A s : LinesOf(<<>>, s) = {} /\ Rising(<<>>, s)
  BY DEF LinesOf, Rising
<1>4. \A s \in Services : Followed(NoLog, s)
  BY <1>1, <1>2, <1>3 DEF Followed, Read
<1>. QED BY <1>1, <1>4 DEF Streams, Readers, AllPrinted

LEMMA SameLogTailed ==
    ASSUME TypeOK, SameProjects, NEW p \in DOMAIN cli, SameLog(p), Tailed(p)
    PROVE  Tailed(p)'
<1>1. PICK l : l = cli[p].log
  OBVIOUS
<1>2. Streams(l) /\ (cli[p].phase = "done" /\ cli[p].ok => AllPrinted(l))
      /\ (cli[p].phase \notin {"tail", "done"} => l = NoLog)
  BY <1>1 DEF Tailed
<1>3. \A s \in DOMAIN l.want : l.want[s] \in 1..(made')
  BY <1>2, ContainerShape DEF Streams, SameProjects, TypeOK
<1>4. ASSUME NEW s \in l.ended PROVE Unread(l, s) \/ l.sent[s] = LogLines
                                     \/ l.want[s] \notin DOMAIN containers' \/ s \in l.broken
  <2>1. l.want[s] \in 1..made
    BY <1>2 DEF Streams, Readers
  <2>. QED BY <1>2, <2>1 DEF Streams, Ended, SameProjects
<1>5. AllPrinted(NoLog)
  BY EmptyLog
<1>6. /\ Readers(l) /\ \A s \in Services : Followed(l, s)
  BY <1>2 DEF Streams
<1>. QED BY <1>1, <1>2, <1>3, <1>4, <1>5, <1>6 DEF SameLog, Tailed, Streams, Ended

LEMMA TailedNext ==
    ASSUME NEW p, NEW m, cli'[p].log = m, Streams(m), UNCHANGED <<containers, made>>,
           \/ cli'[p].phase = "tail"
           \/ cli'[p].phase = "done" /\ AllPrinted(m)
    PROVE  Tailed(p)'
BY DEF Tailed, Streams, Ended

\* The steps that leave every stream alone.
LEMMA LogKeeps ==
    ASSUME TypeOK, NEW p,
           \/ Executes(p) \/ Deadline(p) \/ CallFails(p) \/ RunFails(p)
           \/ PsList(p) \/ DownList(p) \/ RemoveStep(p)
           \/ \E id \in Ids : StopStep(p, id) \/ StopMissing(p, id)
    PROVE  \A q \in DOMAIN cli : SameLog(q)
<1>0. \A q \in DOMAIN cli : cli[q] \in Process
  BY CliShape
<1>1. ASSUME NEW c, cli' = [cli EXCEPT ![p] = c], c.log = cli[p].log,
             cli[p].phase \notin {"tail", "done"}
      PROVE  \A q \in DOMAIN cli : SameLog(q)
  BY <1>0, <1>1 DEF SameLog
<1>2. ASSUME Abort(p), cli[p].phase \notin {"tail", "done"}
      PROVE  \A q \in DOMAIN cli : SameLog(q)
  BY <1>0, <1>2 DEF Abort, SameLog, Process
<1> DEFINE a == Advanced(cli[p])
<1>3. ASSUME Pending(p) # {}
      PROVE  a \in Process /\ a.log = cli[p].log /\ cli[p].phase = "ops" /\ p \in DOMAIN cli
  BY <1>3, AdvancedShape, PendingShape
<1> HIDE DEF a
<1>4. CASE NetworkStep(p) \/ VolumeStep(p) \/ BuildStep(p) \/ PullStep(p)
  <2>1. Pending(p) # {} /\ Advance(p)
    BY <1>4 DEF NetworkStep, VolumeStep, BuildStep, PullStep
  <2>2. cli' = [cli EXCEPT ![p] = a]
    BY <1>3, <2>1, <1>0 DEF Advance, a
  <2>. QED BY <1>1, <1>3, <2>1, <2>2
<1>5. CASE RunStep(p)
  <2>1. PICK o \in Pending(p) :
            cli' = [cli EXCEPT ![p] = [a EXCEPT !.ran = Put(@, o.service, made')]]
    BY <1>5 DEF RunStep, a
  <2> DEFINE c == [a EXCEPT !.ran = Put(@, o.service, made')]
  <2>2. c.log = cli[p].log /\ cli[p].phase \notin {"tail", "done"}
    BY <1>3, <2>1 DEF Process
  <2>. QED BY <1>1, <2>1, <2>2
<1>6. CASE GatePasses(p)
  <2>1. PICK o \in Pending(p) :
            cli' = [cli EXCEPT ![p] = [a EXCEPT !.gated = @ \cup {o.service}]]
    BY <1>6 DEF GatePasses, a
  <2> DEFINE c == [a EXCEPT !.gated = @ \cup {o.service}]
  <2>2. c.log = cli[p].log /\ cli[p].phase \notin {"tail", "done"}
    BY <1>3, <2>1 DEF Process
  <2>. QED BY <1>1, <2>1, <2>2
<1>7. CASE GateFails(p) \/ Refused(p) \/ RunFails(p)
  BY <1>2, <1>3, <1>7 DEF GateFails, Refused, RunFails
<1>8. CASE Deadline(p)
  BY <1>0, <1>3, <1>8 DEF Deadline, SameLog, Process
<1>9. CASE CallFails(p)
  BY <1>2, <1>9 DEF CallFails
<1>10. CASE PsList(p)
  BY <1>0, <1>10 DEF PsList, Listing, In, SameLog, Process
<1>11. CASE DownList(p)
  BY <1>0, <1>11 DEF DownList, Listing, In, SameLog, Process
<1>12. CASE RemoveStep(p)
  BY <1>0, <1>12 DEF RemoveStep, In, SameLog, Process
<1>13. ASSUME NEW id, StopStep(p, id) PROVE \A q \in DOMAIN cli : SameLog(q)
  BY <1>0, <1>13 DEF StopStep, In, SameLog, Process
<1>14. ASSUME NEW id, StopMissing(p, id) PROVE \A q \in DOMAIN cli : SameLog(q)
  BY <1>2, <1>14 DEF StopMissing, In
<1>. QED BY <1>4, <1>5, <1>6, <1>7, <1>8, <1>9, <1>10, <1>11, <1>12, <1>13, <1>14 DEF Executes

\* Streams that a step of command p changes, each as the lemma for it has it.
LEMMA StreamsChange ==
    ASSUME TypeOK, NEW p, Tailed(p),
           \/ Drain(p)
           \/ \E s \in Services :
                 \/ OpenStream(p, s) \/ SpawnFails(p, s) \/ SendError(p, s)
                 \/ Forward(p, s) \/ LoseLine(p, s) \/ ReadBreaks(p, s) \/ Eof(p, s)
    PROVE  \E m \in TailState : cli' = [cli EXCEPT ![p].log = m] /\ Streams(m)
<1> DEFINE l == cli[p].log
<1>0. l \in TailState /\ Streams(l) /\ LogLines \in Nat
  BY CliShape, ComposeAssumption DEF OpenStream, SpawnFails, SendError, Forward, LoseLine,
     ReadBreaks, Eof, Starting, Reading, Drain, AllOpened, In, Tailed
<1>1. ASSUME NEW s \in Services, OpenStream(p, s) \/ SpawnFails(p, s)
      PROVE  \E m \in TailState : cli' = [cli EXCEPT ![p].log = m] /\ Streams(m)
  <2>1. s \in DOMAIN l.want \ l.opened /\ l.stuck = {}
    BY <1>1 DEF OpenStream, SpawnFails, Starting, Wanted
  <2>2. CASE OpenStream(p, s)
    <3> DEFINE m == [l EXCEPT !.opened = @ \cup {s}]
    <3>1. cli' = [cli EXCEPT ![p].log = m]
      BY <2>2 DEF OpenStream
    <3>2. /\ m \in TailState /\ m.want = l.want /\ m.ended = l.ended /\ m.sent = l.sent
          /\ m.broken = l.broken /\ m.chan = l.chan /\ m.out = l.out
          /\ m.opened = l.opened \cup {s} /\ m.stuck = {}
      BY <1>0, <2>1 DEF TailState
    <3> HIDE DEF m, l
    <3>. QED BY <1>0, <2>1, <3>1, <3>2, OpenStreams
  <2>3. CASE SpawnFails(p, s)
    <3> DEFINE m == [l EXCEPT !.stuck = {s}]
    <3>1. cli' = [cli EXCEPT ![p].log = m]
      BY <2>3 DEF SpawnFails
    <3>2. /\ m \in TailState /\ m.want = l.want /\ m.ended = l.ended /\ m.sent = l.sent
          /\ m.broken = l.broken /\ m.chan = l.chan /\ m.out = l.out
          /\ m.opened = l.opened /\ m.stuck = {s}
      BY <1>0, <2>1 DEF TailState
    <3> HIDE DEF m, l
    <3>. QED BY <1>0, <2>1, <3>1, <3>2, OpenStreams
  <2>. QED BY <1>1, <2>2, <2>3
<1>2. ASSUME NEW s \in Services, SendError(p, s)
      PROVE  \E m \in TailState : cli' = [cli EXCEPT ![p].log = m] /\ Streams(m)
  <2> DEFINE chan == Append(l.chan, <<s, 0>>)
             m == [l EXCEPT !.stuck = {}, !.opened = @ \cup {s}, !.ended = @ \cup {s},
                            !.chan = chan]
  <2>1. cli' = [cli EXCEPT ![p].log = m] /\ s \in l.stuck
    BY <1>2 DEF SendError
  <2>2. chan \in Seq(Line)
    <3>1. l.chan \in Seq(Line) /\ <<s, 0>> \in Line
      BY <1>0 DEF TailState, Line
    <3>. QED BY <3>1
  <2> HIDE DEF chan
  <2>3. /\ m \in TailState /\ m.want = l.want /\ m.sent = l.sent /\ m.out = l.out
        /\ m.stuck = {} /\ m.opened = l.opened \cup {s} /\ m.ended = l.ended \cup {s}
        /\ m.broken = l.broken /\ m.chan = chan
    BY <1>0, <2>2 DEF TailState
  <2> HIDE DEF m, l
  <2>. QED BY <1>0, <2>1, <2>3, ErrorStreams DEF chan
<1>3. ASSUME NEW s \in Services, Forward(p, s)
      PROVE  \E m \in TailState : cli' = [cli EXCEPT ![p].log = m] /\ Streams(m)
  <2> DEFINE chan == Append(l.chan, <<s, l.sent[s] + 1>>)
             sent == [l.sent EXCEPT ![s] = l.sent[s] + 1]
             m == [l EXCEPT !.sent = sent, !.chan = chan]
  <2>0. l.sent[s] \in 0..LogLines /\ l.sent[s] + 1 <= LogLines /\ l.sent[s] + 1 \notin ErrLines
    BY <1>0, <1>3 DEF Forward, Prints, TailState
  <2>1. /\ cli' = [cli EXCEPT ![p].log = m] /\ s \in l.opened \ l.ended
        /\ l.sent[s] < LogLines /\ l.sent[s] + 1 \notin ErrLines
    <3>1. cli' = [cli EXCEPT ![p].log = m] /\ s \in l.opened \ l.ended
      BY <1>3 DEF Forward, Reading
    <3>2. l.sent[s] < LogLines
      BY <1>0, <2>0
    <3>. QED BY <2>0, <3>1, <3>2
  <2>2. chan \in Seq(Line) /\ sent \in [Services -> 0..LogLines]
    <3>1. l.sent \in [Services -> 0..LogLines] /\ l.sent[s] + 1 \in 0..LogLines
      BY <1>0, <2>1 DEF TailState
    <3>2. l.chan \in Seq(Line) /\ <<s, l.sent[s] + 1>> \in Line
      BY <1>0, <3>1 DEF TailState, Line
    <3>. QED BY <3>1, <3>2
  <2> HIDE DEF chan, sent
  <2>3. /\ m \in TailState /\ m.want = l.want /\ m.opened = l.opened /\ m.stuck = l.stuck
        /\ m.ended = l.ended /\ m.broken = l.broken /\ m.out = l.out
        /\ m.sent = sent /\ m.chan = chan
    BY <1>0, <2>2 DEF TailState
  <2> HIDE DEF m, l
  <2>. QED BY <1>0, <2>1, <2>3, ForwardStreams DEF chan, sent
<1>4. ASSUME NEW s \in Services, Eof(p, s)
      PROVE  \E m \in TailState : cli' = [cli EXCEPT ![p].log = m] /\ Streams(m)
  <2> DEFINE m == [l EXCEPT !.ended = @ \cup {s}]
  <2>1. /\ cli' = [cli EXCEPT ![p].log = m] /\ s \in l.opened \ l.ended
        /\ l.sent[s] = LogLines \/ l.want[s] \notin DOMAIN containers
    BY <1>4 DEF Eof, Reading
  <2>2. /\ m \in TailState /\ m.want = l.want /\ m.opened = l.opened /\ m.stuck = l.stuck
        /\ m.ended = l.ended \cup {s} /\ m.sent = l.sent /\ m.chan = l.chan /\ m.out = l.out
        /\ m.broken = l.broken
    BY <1>0 DEF TailState
  <2> HIDE DEF m, l
  <2>. QED BY <1>0, <2>1, <2>2, EndStreams
<1>5. CASE Drain(p)
  <2> DEFINE chan == Tail(l.chan)
             out == Append(l.out, Head(l.chan))
             m == [l EXCEPT !.chan = chan, !.out = out]
  <2>1. cli' = [cli EXCEPT ![p].log = m] /\ l.chan # <<>>
    BY <1>5 DEF Drain
  <2>2. chan \in Seq(Line) /\ out \in Seq(Line)
    <3>1. l.chan \in Seq(Line) /\ l.out \in Seq(Line)
      BY <1>0 DEF TailState
    <3>. QED BY <2>1, <3>1
  <2> HIDE DEF chan, out
  <2>3. /\ m \in TailState /\ m.want = l.want /\ m.opened = l.opened /\ m.stuck = l.stuck
        /\ m.ended = l.ended /\ m.broken = l.broken /\ m.sent = l.sent
        /\ m.chan = chan /\ m.out = out
    BY <1>0, <2>2 DEF TailState
  <2> HIDE DEF m, l
  <2>. QED BY <1>0, <2>1, <2>3, DrainStreams DEF chan, out
<1>6. ASSUME NEW s \in Services, LoseLine(p, s)
      PROVE  \E m \in TailState : cli' = [cli EXCEPT ![p].log = m] /\ Streams(m)
  <2> DEFINE sent == [l.sent EXCEPT ![s] = l.sent[s] + 1]
             m == [l EXCEPT !.sent = sent]
  <2>1. /\ cli' = [cli EXCEPT ![p].log = m] /\ s \in l.opened \ l.ended
        /\ l.sent[s] + 1 \in ErrLines
    BY <1>6 DEF LoseLine, Reading, Warns
  <2>2. sent \in [Services -> 0..LogLines]
    <3>1. l.sent \in [Services -> 0..LogLines] /\ l.sent[s] + 1 \in 0..LogLines
      BY <1>0, <2>1, ComposeAssumption DEF TailState
    <3>. QED BY <3>1
  <2> HIDE DEF sent
  <2>3. /\ m \in TailState /\ m.want = l.want /\ m.opened = l.opened /\ m.stuck = l.stuck
        /\ m.ended = l.ended /\ m.broken = l.broken /\ m.out = l.out
        /\ m.sent = sent /\ m.chan = l.chan
    BY <1>0, <2>2 DEF TailState
  <2> HIDE DEF m, l
  <2>. QED BY <1>0, <2>1, <2>3, LostStreams DEF sent
<1>7. ASSUME NEW s \in Services, ReadBreaks(p, s)
      PROVE  \E m \in TailState : cli' = [cli EXCEPT ![p].log = m] /\ Streams(m)
  <2> DEFINE m == [l EXCEPT !.ended = @ \cup {s}, !.broken = @ \cup {s}]
  <2>1. cli' = [cli EXCEPT ![p].log = m] /\ s \in l.opened \ l.ended
    BY <1>7 DEF ReadBreaks, Reading
  <2>2. /\ m \in TailState /\ m.want = l.want /\ m.opened = l.opened /\ m.stuck = l.stuck
        /\ m.ended = l.ended \cup {s} /\ m.sent = l.sent /\ m.chan = l.chan /\ m.out = l.out
        /\ m.broken = l.broken \cup {s}
    BY <1>0 DEF TailState
  <2> HIDE DEF m, l
  <2>. QED BY <1>0, <2>1, <2>2, EndStreams
<1>. QED BY <1>1, <1>2, <1>3, <1>4, <1>5, <1>6, <1>7

LEMMA StreamSteps ==
    ASSUME TypeOK, NEW p, Tailed(p),
           \/ Drain(p)
           \/ \E s \in Services :
                 \/ OpenStream(p, s) \/ SpawnFails(p, s) \/ SendError(p, s)
                 \/ Forward(p, s) \/ LoseLine(p, s) \/ ReadBreaks(p, s) \/ Eof(p, s)
    PROVE  Tailed(p)' /\ UNCHANGED podman /\ p \in DOMAIN cli
           /\ \A q \in DOMAIN cli \ {p} : SameLog(q)
<1>1. PICK m \in TailState : cli' = [cli EXCEPT ![p].log = m] /\ Streams(m)
  BY StreamsChange
<1>2. p \in DOMAIN cli /\ cli[p].phase = "tail" /\ cli[p] \in Process /\ UNCHANGED podman
  BY CliShape DEF OpenStream, SpawnFails, SendError, Forward, LoseLine, ReadBreaks, Eof,
     Starting, Reading, Drain, AllOpened, In
<1>3. cli'[p].log = m /\ cli'[p].phase = "tail"
  BY <1>1, <1>2 DEF Process
<1>4. Tailed(p)'
  BY <1>1, <1>2, <1>3, TailedNext DEF podman
<1>5. \A q \in DOMAIN cli \ {p} : SameLog(q)
  BY <1>1 DEF SameLog
<1>. QED BY <1>2, <1>4, <1>5

\* logs ends: nothing is left in the channel.
LEMMA EndTailed ==
    ASSUME TypeOK, NEW p, Tailed(p), TailEnds(p)
    PROVE  Tailed(p)' /\ UNCHANGED podman /\ p \in DOMAIN cli
           /\ \A q \in DOMAIN cli \ {p} : SameLog(q)
<1>1. /\ p \in DOMAIN cli /\ cli[p] \in Process /\ UNCHANGED podman
      /\ cli' = [cli EXCEPT ![p].phase = "done"]
      /\ AllPrinted(cli[p].log)
  BY CliShape DEF TailEnds, AllOpened, In, Wanted, AllPrinted
<1>2. PICK m : m = cli[p].log
  OBVIOUS
<1>3. cli'[p].log = m /\ cli'[p].phase = "done"
  BY <1>1, <1>2 DEF Process
<1>4. Streams(m) /\ AllPrinted(m)
  BY <1>1, <1>2 DEF Tailed
<1>5. Tailed(p)'
  BY <1>1, <1>3, <1>4, TailedNext DEF podman
<1>6. \A q \in DOMAIN cli \ {p} : SameLog(q)
  BY <1>1 DEF SameLog
<1>. QED BY <1>1, <1>5, <1>6

\* logs begins with the containers it has listed.
LEMMA ListTailed ==
    ASSUME TypeOK, NEW p, Tailed(p), LogsList(p)
    PROVE  Tailed(p)' /\ UNCHANGED podman /\ p \in DOMAIN cli
           /\ \A q \in DOMAIN cli \ {p} : SameLog(q)
<1>1. p \in DOMAIN cli /\ cli[p].phase = "list" /\ cli[p] \in Process /\ cli[p].log = NoLog
  BY CliShape DEF LogsList, Listing, In, Tailed
<1> DEFINE asked == ToSet(Job[cli[p].job].services)
           shown == {containers[id].service : id \in Found(p)}
                        \cap (IF asked = {} THEN Services ELSE asked)
           phase == IF shown = {} THEN "done" ELSE "tail"
<1>2. PICK want \in [shown -> Found(p)] :
          /\ cli' = [cli EXCEPT ![p].seen = Found(p), ![p].log.want = want, ![p].phase = phase]
          /\ UNCHANGED podman
  BY DEF LogsList
<1>3. DOMAIN want = shown /\ \A s \in DOMAIN want : want[s] \in 1..made
  BY <1>2, PsTypes DEF Found
<1>4. phase = "tail" \/ (phase = "done" /\ DOMAIN want = {})
  BY <1>3
<1> HIDE DEF shown, phase
<1> DEFINE m == [NoLog EXCEPT !.want = want]
<1>5. /\ m.want = want /\ m.ended = NoLog.ended /\ m.opened = NoLog.opened
      /\ m.stuck = NoLog.stuck /\ m.chan = NoLog.chan /\ m.out = NoLog.out
      /\ m.sent = NoLog.sent /\ m.ended = {} /\ m.opened = {} /\ m.stuck = {} /\ m.chan = <<>>
  BY DEF NoLog
<1>6. cli' = [cli EXCEPT ![p].seen = Found(p), ![p].log = m, ![p].phase = phase]
  BY <1>1, <1>2
<1> HIDE DEF m
<1>7. cli'[p].log = m /\ cli'[p].phase = phase
  BY <1>1, <1>6 DEF Process
<1>8. \A s \in Services : SameLines(NoLog, m, s) /\ Followed(NoLog, s)
  BY <1>5, EmptyLog DEF SameLines, Streams
<1>9. Streams(m) /\ (DOMAIN want = {} => AllPrinted(m))
  BY <1>3, <1>5, <1>8, LinesStay DEF Streams, Readers, AllPrinted
<1>10. Tailed(p)'
  BY <1>2, <1>4, <1>7, <1>9, TailedNext DEF podman
<1>11. \A q \in DOMAIN cli \ {p} : SameLog(q)
  BY <1>6 DEF SameLog
<1>. QED BY <1>1, <1>2, <1>10, <1>11

LEMMA LogInvStep ==
    ASSUME LogInv, [Next]_vars
    PROVE  LogInv'
<1>0. TypeOK /\ TypeOK' /\ \A q \in DOMAIN cli : Tailed(q)
  BY TypeStep DEF LogInv
<1>1. ASSUME SameProjects, DOMAIN cli' = DOMAIN cli, \A q \in DOMAIN cli : SameLog(q)
      PROVE  LogInv'
  BY <1>0, <1>1, SameLogTailed DEF LogInv
<1>2. CASE UNCHANGED vars \/ World
  BY <1>0, <1>1, <1>2, IdleTypes, WorldStep DEF Kept, SameLog
<1>3. ASSUME NEW j \in Jobs, Invoke(j) PROVE LogInv'
  <2>1. Kept /\ Typed_(j)
    BY <1>0, <1>3, InvokeTypes
  <2>2. PICK p : p = Len(cli) + 1
    OBVIOUS
  <2>3. /\ DOMAIN cli' = DOMAIN cli \cup {p} /\ cli'[p].log = NoLog
        /\ \A q \in DOMAIN cli : cli'[q] = cli[q]
    BY <2>1, <2>2 DEF Typed_
  <2>4. Tailed(p)'
    <3>1. DOMAIN NoLog.want = {} /\ NoLog.ended = {}
      BY DEF NoLog
    <3>. QED BY <2>3, <3>1, EmptyLog DEF Tailed, Streams
  <2>5. ASSUME NEW q \in DOMAIN cli PROVE Tailed(q)'
    BY <1>0, <2>1, <2>3, SameLogTailed DEF SameLog, Kept
  <2>. QED BY <1>0, <2>3, <2>4, <2>5 DEF LogInv
<1>4. ASSUME NEW p \in DOMAIN cli, DOMAIN cli' = DOMAIN cli, UNCHANGED podman, Tailed(p)',
             \A q \in DOMAIN cli \ {p} : SameLog(q)
      PROVE  LogInv'
  BY <1>0, <1>4, PodmanIdle, SameLogTailed DEF LogInv, Kept
<1>5. ASSUME NEW p,
             \/ Executes(p) \/ Deadline(p) \/ CallFails(p) \/ RunFails(p)
             \/ \E id \in Ids : StopMissing(p, id)
      PROVE  LogInv'
  BY <1>0, <1>1, <1>5, WalkSteps, LogKeeps DEF Kept, Walks
<1>6. ASSUME NEW p, PsList(p) \/ DownList(p) \/ RemoveStep(p) \/ \E id \in Ids : StopStep(p, id)
      PROVE  LogInv'
  <2>1. SameProjects /\ DOMAIN cli' = DOMAIN cli
    BY <1>0, <1>6, PsListTypes, DownListTypes, StopStepTypes, RemoveStepTypes DEF Kept, Relists
  <2>. QED BY <1>0, <1>1, <1>6, <2>1, LogKeeps
<1>7. ASSUME NEW p,
             \/ Drain(p) \/ TailEnds(p)
             \/ \E s \in Services :
                   \/ OpenStream(p, s) \/ SpawnFails(p, s) \/ SendError(p, s)
                   \/ Forward(p, s) \/ LoseLine(p, s) \/ ReadBreaks(p, s) \/ Eof(p, s)
      PROVE  LogInv'
  <2>1. p \in DOMAIN cli /\ DOMAIN cli' = DOMAIN cli
    BY <1>0, <1>7, WalkSteps DEF Walks
  <2>2. CASE TailEnds(p)
    BY <1>0, <1>4, <2>1, <2>2, EndTailed
  <2>3. CASE ~TailEnds(p)
    BY <1>0, <1>4, <1>7, <2>1, <2>3, StreamSteps
  <2>. QED BY <2>2, <2>3
<1>8. ASSUME NEW p, LogsList(p) PROVE LogInv'
  <2>1. DOMAIN cli' = DOMAIN cli /\ p \in DOMAIN cli
    BY <1>0, <1>8, LogsListTypes DEF Relists
  <2>. QED BY <1>0, <1>4, <1>8, <2>1, ListTailed
<1>. QED BY <1>0, <1>2, <1>3, <1>5, <1>6, <1>7, <1>8, StepsThereAre

LEMMA FollowedIsFaithful ==
    ASSUME LogInv
    PROVE  LogsFaithful
<1> SUFFICES ASSUME NEW p \in DOMAIN cli, NEW s \in Wanted(p)
             PROVE  /\ Rising(cli[p].log.out, s)
                    /\ \/ Printed(p, s) = {0}
                       \/ \E n \in 0..LogLines : Printed(p, s) = (1..n) \ ErrLines
                    /\ ReadToEnd(p, s) => Printed(p, s) \in {{0}, (1..LogLines) \ ErrLines}
  BY DEF LogsFaithful
<1> DEFINE l == cli[p].log
<1>1. l \in TailState /\ Streams(l) /\ s \in Services /\ LogLines \in Nat
      /\ (cli[p].phase = "done" /\ cli[p].ok => AllPrinted(l))
  BY CliShape, ComposeAssumption DEF LogInv, Tailed, Wanted, TailState, Partial
<1>2. Followed(l, s) /\ l.sent[s] \in 0..LogLines
  BY <1>1 DEF Streams, TailState
<1> HIDE DEF l
<1>3. /\ Rising(l.out, s)
      /\ \/ LinesOf(l.out, s) = {0}
         \/ \E n \in 0..LogLines : LinesOf(l.out, s) = (1..n) \ ErrLines
  <2>1. CASE LinesOf(l.out, s) = {}
    <3>1. 0 \in 0..LogLines /\ {} = (1..0) \ ErrLines
      BY <1>1
    <3>. QED BY <1>2, <2>1, <3>1 DEF Followed
  <2>2. CASE LinesOf(l.out, s) # {}
    BY <1>2, <2>2 DEF Followed, Read, Unread, Stdout
  <2>. QED BY <2>1, <2>2
<1>4. ASSUME AllPrinted(l), s \notin l.broken, l.want[s] \in DOMAIN containers
      PROVE  LinesOf(l.out, s) \in {{0}, (1..LogLines) \ ErrLines}
  <2>1. s \in l.ended /\ LinesOf(l.chan, s) = {}
    BY <1>4 DEF AllPrinted, Wanted, LinesOf, l
  <2>2. Unread(l, s) => LinesOf(l.out, s) = {0}
    BY <2>1 DEF Unread
  <2>3. ASSUME Read(l, s), l.sent[s] = LogLines
        PROVE  LinesOf(l.out, s) = (1..LogLines) \ ErrLines
    <3>1. PICK m \in 0..LogLines :
              /\ m <= LogLines /\ LinesOf(l.out, s) = Stdout(0, m)
              /\ {} = Stdout(m, LogLines)
      BY <2>1, <2>3 DEF Read
    <3>2. \A x : x \in 1..LogLines <=> x \in 1..m \/ x \in (m + 1)..LogLines
      BY <1>1
    <3>. QED BY <3>1, <3>2 DEF Stdout
  <2>. QED BY <1>1, <1>2, <1>4, <2>1, <2>2, <2>3 DEF Streams, Ended, Followed
<1>. QED BY <1>1, <1>3, <1>4 DEF l, Printed, ReadToEnd

\* Each reader of logs sends its lines through a bounded channel (logs.rs): what
\* is printed of a service are its lines on stdout from the first on, in order and
\* without a gap, whatever the lengths, the channel, the order of the readers and
\* the lines lost on stderr (podman.rs); at the end it is all of them unless the
\* reader broke off, the container is gone, or the reader could not be started.
THEOREM LogsFaithfulHolds == Spec => []LogsFaithful
<1>1. Init => LogInv
  <2>1. Init => TypeOK /\ DOMAIN cli = {}
    BY InitTypes DEF Init
  <2>. QED BY <2>1 DEF LogInv
<1>2. LogInv /\ [Next]_vars => LogInv'
  BY LogInvStep
<1>3. LogInv => LogsFaithful
  BY FollowedIsFaithful
<1>. QED BY <1>1, <1>2, <1>3, PTL DEF Spec
=============================================================================
