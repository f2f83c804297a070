--------------------------- MODULE BindingsProofs ---------------------------
(***************************************************************************)
(* Bindings proved, for any number of databases, hosts, secrets and calls. *)
(* One binding per database rests on what its unique row guards: the call  *)
(* that may write the binding is the one that wrote the row, and nobody    *)
(* else has.  The challenge rests on what a call remembers of its lookup.  *)
(***************************************************************************)
EXTENDS Bindings, TLAPS

\* What a call is about, by the statement it is at.
Subjects ==
    \A j \in Job :
        /\ do[j] \in {"dbInsert", "bindInsert", "isolate"} => on[j].of \in Kind
        /\ do[j] \in {"lookup", "mark"} => on[j].of \in Host
        /\ do[j] = "set" => on[j].of \in Secret /\ on[j].value \in Value

\* Only the call that made the row of a database is to write its binding.
Binders ==
    /\ \A k \in Kind : db[k] = Void => bound[k] = <<>>
    /\ \A j \in Job : do[j] = "bindInsert" => db[on[j].of] # Void /\ bound[on[j].of] = <<>>
    /\ \A i, j \in Job :
           do[i] = "bindInsert" /\ do[j] = "bindInsert" /\ on[i].of = on[j].of => i = j
    /\ OneBinding

\* A mark is written after a lookup that saw the challenge.
Provers ==
    /\ \A h \in Host : published[h] => proven[h]
    /\ \A j \in Job : do[j] = "mark" => proven[on[j].of]
    /\ VerifiedIsProven

BindingsInv == BindingsTypeOK /\ Subjects /\ Binders /\ Provers /\ LiveIsNewest

Work == [of: Kind \union Host \union Secret \union {Void},
         value: Value \union {Void}, version: 0 .. MaxSets]

-----------------------------------------------------------------------------
(* What a step that moves one call leaves alone *)

LEMMA Moves ==
    ASSUME BindingsTypeOK, NEW j \in Job, NEW from, NEW to \in Jobs, NEW with \in Work,
           Does(j, from, to, with)
    PROVE  /\ do \in [Job -> Jobs] /\ on \in [Job -> Work]
           /\ do' \in [Job -> Jobs] /\ on' \in [Job -> Work]
           /\ do[j] = from /\ do'[j] = to /\ on'[j] = with
           /\ \A i \in Job \ {j} : do'[i] = do[i] /\ on'[i] = on[i]
BY DEF Does, BindingsTypeOK, Work

LEMMA SubjectsKept ==
    ASSUME Subjects, NEW j \in Job, \A i \in Job \ {j} : do'[i] = do[i] /\ on'[i] = on[i],
           do'[j] \in {"dbInsert", "bindInsert", "isolate"} => on'[j].of \in Kind,
           do'[j] \in {"lookup", "mark"} => on'[j].of \in Host,
           do'[j] = "set" => on'[j].of \in Secret /\ on'[j].value \in Value
    PROVE  Subjects'
BY DEF Subjects

LEMMA BindersKept ==
    ASSUME Binders, UNCHANGED databases,
           \A i \in Job : do'[i] = "bindInsert" => do[i] = "bindInsert" /\ on'[i] = on[i]
    PROVE  Binders'
BY DEF Binders, OneBinding, databases

LEMMA ProversKept ==
    ASSUME Provers, UNCHANGED domains,
           \A i \in Job : do'[i] = "mark" => do[i] = "mark" /\ on'[i] = on[i]
    PROVE  Provers'
BY DEF Provers, VerifiedIsProven, domains

LEMMA LiveKept == ASSUME LiveIsNewest, UNCHANGED secrets PROVE LiveIsNewest'
BY DEF LiveIsNewest, secrets

LEMMA NoWork == /\ Unoccupied \in Work /\ "idle" \in Jobs
                /\ \A x \in Kind \union Host : WorkOn(x) \in Work /\ WorkOn(x).of = x
BY BindingsAssumption DEF Unoccupied, WorkOn, Work, Jobs

\* A call that ends is idle and holds nothing; the others stay.
LEMMA Stopped ==
    ASSUME BindingsTypeOK, NEW j \in Job, NEW from, Does(j, from, "idle", Unoccupied)
    PROVE  /\ do' \in [Job -> Jobs] /\ on' \in [Job -> Work] /\ do'[j] = "idle"
           /\ \A i \in Job \ {j} : do'[i] = do[i] /\ on'[i] = on[i]
<1>1. "idle" \in Jobs /\ Unoccupied \in Work
  BY NoWork
<1> QED
  BY <1>1, Moves

-----------------------------------------------------------------------------
(* The steps *)

LEMMA BindingsStart == ASSUME BindingsInit PROVE BindingsInv
<1>1. BindingsTypeOK
  BY BindingsAssumption DEF BindingsInit, BindingsTypeOK, Unoccupied, WorkOn, Jobs
<1>2. Subjects /\ Provers
  BY BindingsAssumption DEF BindingsInit, Subjects, Provers, VerifiedIsProven
<1>3. Binders
  BY DEF BindingsInit, Binders, OneBinding
<1>4. LiveIsNewest
  BY DEF BindingsInit, LiveIsNewest
<1> QED
  BY <1>1, <1>2, <1>3, <1>4 DEF BindingsInv

\* A step that writes no row and takes its call to none of the two statements
\* that rely on what it read.
LEMMA ReadStep ==
    ASSUME BindingsInv, NEW j \in Job, NEW from,
           NEW to \in Jobs \ {"bindInsert", "mark"},
           NEW with \in Work, Does(j, from, to, with), UNCHANGED <<databases, domains, secrets>>,
           to \in {"dbInsert", "isolate"} => with.of \in Kind,
           to = "lookup" => with.of \in Host,
           to = "set" => with.of \in Secret /\ with.value \in Value
    PROVE  BindingsInv'
<1> USE DEF BindingsInv
<1>1. /\ do' \in [Job -> Jobs] /\ on' \in [Job -> Work] /\ do'[j] = to /\ on'[j] = with
      /\ \A i \in Job \ {j} : do'[i] = do[i] /\ on'[i] = on[i]
  BY Moves
<1>2. BindingsTypeOK'
  BY <1>1 DEF BindingsTypeOK, Work, databases, domains, secrets
<1>3. Subjects'
  BY <1>1, SubjectsKept
<1> QED
  BY <1>1, <1>2, <1>3, BindersKept, ProversKept, LiveKept

LEMMA BindRequestStep ==
    ASSUME BindingsInv, NEW j \in Job, NEW k \in Kind, RequestDatabase(j, k)
    PROVE  BindingsInv'
<1>1. WorkOn(k) \in Work /\ WorkOn(k).of = k
  BY NoWork
<1>2. CASE db[k] = Void
  <2>1. Does(j, "idle", "dbInsert", WorkOn(k)) /\ UNCHANGED <<databases, domains, secrets>>
    BY <1>2 DEF RequestDatabase
  <2> QED
    BY <1>1, <2>1, ReadStep DEF Jobs
<1>3. CASE db[k] # Void
  <2>1. Does(j, "idle", "isolate", WorkOn(k)) /\ UNCHANGED <<databases, domains, secrets>>
    BY <1>3 DEF RequestDatabase
  <2> QED
    BY <1>1, <2>1, ReadStep DEF Jobs
<1> QED
  BY <1>2, <1>3

LEMMA StopStep ==
    ASSUME BindingsInv, NEW j \in Job, UpdateIsolation(j) \/ Fails(j)
    PROVE  BindingsInv'
<1>1. /\ Does(j, "isolate", "idle", Unoccupied) \/ Does(j, do[j], "idle", Unoccupied)
      /\ UNCHANGED <<databases, domains, secrets>>
  BY DEF UpdateIsolation, Fails, Stops
<1>2. Unoccupied \in Work /\ "idle" \in Jobs \ {"bindInsert", "mark"}
  BY NoWork DEF Jobs
<1> QED
  BY <1>1, <1>2, ReadStep

LEMMA ReadDomainStep ==
    ASSUME BindingsInv, NEW j \in Job, NEW h \in Host, VerifyRead(j, h)
    PROVE  BindingsInv'
<1>1. Does(j, "idle", "lookup", WorkOn(h)) /\ UNCHANGED <<databases, domains, secrets>>
  BY DEF VerifyRead
<1> QED
  BY <1>1, NoWork, ReadStep DEF Jobs

LEMMA BeginStep ==
    ASSUME BindingsInv, NEW j \in Job, NEW s \in Secret,
           NEW v \in Value, SetBegin(j, s, v)
    PROVE  BindingsInv'
<1> DEFINE with == [of |-> s, value |-> v, version |-> Len(revision[s]) + 1]
<1>1. /\ Does(j, "idle", "set", with) /\ UNCHANGED <<databases, domains, secrets>>
      /\ Len(revision[s]) < MaxSets
  BY DEF SetBegin
<1>2. revision[s] \in Seq(Value)
  BY DEF BindingsInv, BindingsTypeOK
<1>3. Len(revision[s]) \in Nat
  BY <1>2
<1>4. with \in Work /\ with.of = s /\ with.value = v
  BY <1>1, <1>3, BindingsAssumption DEF Work
<1> HIDE DEF with
<1> QED
  BY <1>1, <1>4, ReadStep DEF Jobs

LEMMA DatabaseStep ==
    ASSUME BindingsInv, NEW j \in Job, InsertDatabase(j) \/ InsertBinding(j)
    PROVE  BindingsInv'
<1> USE DEF BindingsInv
<1> DEFINE k == on[j].of
<1>1. CASE InsertDatabase(j) /\ db[k] = Void
  <2>1. /\ do[j] = "dbInsert" /\ db' = [db EXCEPT ![k] = "pending"]
        /\ Does(j, "dbInsert", "bindInsert", on[j]) /\ UNCHANGED <<bound, domains, secrets>>
    BY <1>1 DEF InsertDatabase
  <2>2. k \in Kind /\ on[j] \in Work
    BY <2>1 DEF Subjects, BindingsTypeOK, Work
  <2>3. /\ do' \in [Job -> Jobs] /\ on' \in [Job -> Work] /\ do'[j] = "bindInsert" /\ on'[j] = on[j]
        /\ \A i \in Job \ {j} : do'[i] = do[i] /\ on'[i] = on[i]
    BY <2>1, <2>2, Moves DEF Jobs
  <2>4. BindingsTypeOK'
    BY <2>1, <2>2, <2>3 DEF BindingsTypeOK, Work, domains, secrets
  <2>5. Binders'
    <3>1. \A i \in Job : do[i] = "bindInsert" => on[i].of # k
      BY <1>1 DEF Binders
    <3>2. bound[k] = <<>> /\ db'[k] = "pending"
      BY <1>1, <2>1, <2>2 DEF Binders, BindingsTypeOK
    <3>3. \A l \in Kind : db[l] # Void => db'[l] # Void
      BY <1>1, <2>1, <2>2 DEF BindingsTypeOK
    <3>4. \A l \in Kind : db'[l] = Void => bound'[l] = <<>>
      BY <2>1, <2>2, <3>2 DEF Binders, BindingsTypeOK
    <3>5. \A i \in Job : do'[i] = "bindInsert" => db'[on'[i].of] # Void /\ bound'[on'[i].of] = <<>>
      <4>1. ASSUME db'[k] = Void
            PROVE  FALSE
        BY <3>2, <4>1, BindingsAssumption
      <4>2. \A i \in Job \ {j} : do'[i] = "bindInsert" => on[i].of \in Kind
        BY <2>3 DEF Subjects
      <4> QED
        BY <2>1, <2>3, <3>2, <3>3, <4>1, <4>2 DEF Binders
    <3>6. OneBinding'
      BY <2>1 DEF Binders, OneBinding
    <3> QED
      BY <2>3, <3>1, <3>4, <3>5, <3>6 DEF Binders
  <2>6. Subjects'
    BY <2>2, <2>3, SubjectsKept
  <2> QED
    BY <2>1, <2>3, <2>4, <2>5, <2>6, ProversKept, LiveKept
<1>2. CASE InsertDatabase(j) /\ db[k] # Void
  <2>1. Does(j, "dbInsert", "idle", Unoccupied) /\ UNCHANGED <<databases, domains, secrets>>
    BY <1>2 DEF InsertDatabase, Stops, databases
  <2>2. /\ do' \in [Job -> Jobs] /\ on' \in [Job -> Work] /\ do'[j] = "idle"
        /\ \A i \in Job \ {j} : do'[i] = do[i] /\ on'[i] = on[i]
    BY <2>1, Stopped
  <2>3. BindingsTypeOK' /\ Subjects'
    BY <2>1, <2>2, SubjectsKept DEF BindingsTypeOK, Work, databases, domains, secrets
  <2> QED
    BY <2>1, <2>2, <2>3, BindersKept, ProversKept, LiveKept
<1>3. CASE InsertBinding(j)
  <2>1. /\ do[j] = "bindInsert" /\ bound' = [bound EXCEPT ![k] = Append(@, "pending")]
        /\ Does(j, "bindInsert", "idle", Unoccupied) /\ UNCHANGED <<db, domains, secrets>>
    BY <1>3 DEF InsertBinding, Stops
  <2>2. k \in Kind /\ db[k] # Void /\ bound[k] = <<>>
    BY <2>1 DEF Subjects, Binders
  <2>3. /\ do' \in [Job -> Jobs] /\ on' \in [Job -> Work] /\ do'[j] = "idle"
        /\ \A i \in Job \ {j} : do'[i] = do[i] /\ on'[i] = on[i]
    BY <2>1, Stopped
  <2>4. BindingsTypeOK'
    <3>1. \A l \in Kind : bound'[l] \in Seq({"pending", "ready"})
      BY <2>1 DEF BindingsTypeOK
    <3> QED
      BY <2>1, <2>3, <3>1 DEF BindingsTypeOK, Work, domains, secrets
  <2>5. Binders'
    <3>1. \A l \in Kind : bound'[l] = bound[l] \/ (l = k /\ bound'[l] = <<"pending">>)
      <4>1. Append(<<>>, "pending") = <<"pending">>
        OBVIOUS
      <4>2. DOMAIN bound = Kind
        BY DEF BindingsTypeOK
      <4>3. bound' = [bound EXCEPT ![k] = <<"pending">>]
        <5>1. bound' = [bound EXCEPT ![k] = Append(bound[k], "pending")]
          BY <2>1
        <5> QED
          BY <5>1, <2>2, <4>1, Zenon
      <4> QED
        BY <2>2, <4>2, <4>3
    <3>2. \A i \in Job \ {j} : do[i] = "bindInsert" => on[i].of \in Kind \ {k}
      BY <2>1 DEF Binders, Subjects
    <3>3. OneBinding'
      <4>1. Len(<<"pending">>) <= 1
        OBVIOUS
      <4>2. ASSUME NEW l \in Kind
            PROVE  Len(bound'[l]) <= 1
        <5>1. CASE bound'[l] = bound[l]
          BY <5>1 DEF Binders, OneBinding
        <5>2. CASE bound'[l] = <<"pending">>
          BY <5>2, <4>1
        <5> QED
          BY <3>1, <5>1, <5>2
      <4> QED
        BY <4>2 DEF OneBinding
    <3>4. \A l \in Kind : db'[l] = Void => bound'[l] = <<>>
      BY <2>1, <2>2, <3>1 DEF Binders
    <3>5. \A i \in Job : do'[i] = "bindInsert" => db'[on'[i].of] # Void /\ bound'[on'[i].of] = <<>>
      BY <2>1, <2>3, <3>1, <3>2 DEF Binders
    <3> QED
      BY <2>3, <3>3, <3>4, <3>5 DEF Binders
  <2>6. Subjects'
    BY <2>3, SubjectsKept
  <2> QED
    BY <2>1, <2>3, <2>4, <2>5, <2>6, ProversKept, LiveKept
<1> QED
  BY <1>1, <1>2, <1>3 DEF InsertDatabase

\* MarkBindings turns every binding to ready, so it must not make one.
LEMMA ReadyStep ==
    ASSUME BindingsInv, NEW j \in Job, MarkBindings(j) \/ MarkDatabases(j)
    PROVE  BindingsInv'
<1> USE DEF BindingsInv
<1>1. PICK from \in Jobs, to \in {"readyDb", "idle"} : Does(j, from, to, Unoccupied)
  BY DEF MarkBindings, MarkDatabases, Stops, Jobs
<1>2. /\ do' \in [Job -> Jobs] /\ on' \in [Job -> Work] /\ do'[j] = to
      /\ \A i \in Job \ {j} : do'[i] = do[i] /\ on'[i] = on[i]
  <2>1. to \in Jobs /\ Unoccupied \in Work
    BY NoWork DEF Jobs
  <2>2. BindingsTypeOK
    OBVIOUS
  <2> HIDE DEF BindingsInv
  <2> QED
    BY <1>1, <2>1, <2>2, Moves
<1>3. UNCHANGED <<domains, secrets>>
  BY DEF MarkBindings, MarkDatabases
<1>4. Subjects' /\ Provers' /\ LiveIsNewest'
  BY <1>2, <1>3, SubjectsKept, ProversKept, LiveKept
<1>5. \A k \in Kind : /\ db'[k] = Void <=> db[k] = Void
                      /\ bound'[k] \in Seq({"pending", "ready"})
                      /\ Len(bound'[k]) = Len(bound[k])
                      /\ bound[k] = <<>> => bound'[k] = <<>>
  <2>1. CASE MarkBindings(j)
    <3>1. ASSUME NEW k \in Kind
          PROVE  /\ bound'[k] = [i \in 1 .. Len(bound[k]) |-> "ready"]
                 /\ bound[k] \in Seq({"pending", "ready"}) /\ Len(bound[k]) \in Nat
      BY <2>1 DEF MarkBindings, Ready, BindingsTypeOK
    <3>2. ASSUME NEW n \in Nat
          PROVE  LET r == [i \in 1 .. n |-> "ready"]
                 IN  r \in Seq({"pending", "ready"}) /\ Len(r) = n /\ (n = 0 => r = <<>>)
      OBVIOUS
    <3>3. \A k \in Kind : bound[k] = <<>> => Len(bound[k]) = 0
      OBVIOUS
    <3>4. db' = db
      BY <2>1 DEF MarkBindings
    <3> QED
      BY <3>1, <3>2, <3>3, <3>4
  <2>2. CASE MarkDatabases(j)
    BY <2>2, BindingsAssumption DEF MarkDatabases, BindingsTypeOK
  <2> QED
    BY <2>1, <2>2
<1>6. BindingsTypeOK'
  <2>1. db' \in [Kind -> {Void, "pending", "ready"}]
    BY DEF MarkBindings, MarkDatabases, BindingsTypeOK
  <2>2. bound' = [k \in Kind |-> bound'[k]]
    BY DEF MarkBindings, MarkDatabases, BindingsTypeOK
  <2>3. bound' \in [Kind -> Seq({"pending", "ready"})]
    BY <2>2, <1>5
  <2> QED
    BY <2>1, <2>3, <1>2, <1>3 DEF BindingsTypeOK, Work, domains, secrets
<1>7. Binders'
  <2>1. OneBinding'
    BY <1>5 DEF Binders, OneBinding
  <2>2. \A i \in Job : do'[i] = "bindInsert" => do[i] = "bindInsert" /\ on'[i] = on[i]
    BY <1>2
  <2> QED
    BY <1>5, <2>1, <2>2 DEF Binders, Subjects
<1> QED
  BY <1>4, <1>6, <1>7

LEMMA DomainStep ==
    ASSUME BindingsInv, NEW h \in Host, InsertDomain(h) \/ Publish(h)
    PROVE  BindingsInv'
<1> USE DEF BindingsInv
<1>1. UNCHANGED <<databases, secrets, do, on>>
  BY DEF InsertDomain, Publish
<1>2. BindingsTypeOK' /\ Subjects'
  BY <1>1 DEF InsertDomain, Publish, BindingsTypeOK, Subjects, databases, secrets
<1>3. Provers'
  <2>1. CASE InsertDomain(h)
    BY <2>1, <1>1 DEF InsertDomain, Provers, VerifiedIsProven, BindingsTypeOK
  <2>2. CASE Publish(h)
    <3>1. proven' = [proven EXCEPT ![h] = TRUE] /\ published' = [published EXCEPT ![h] = ~@]
          /\ domain' = domain
      BY <2>2 DEF Publish
    <3>2. \A g \in Host : (proven[g] => proven'[g]) /\ (published'[g] => proven'[g])
      BY <3>1 DEF Provers, BindingsTypeOK
    <3> QED
      BY <1>1, <3>1, <3>2 DEF Provers, VerifiedIsProven, Subjects
  <2> QED
    BY <2>1, <2>2
<1> QED
  BY <1>1, <1>2, <1>3, BindersKept, LiveKept

LEMMA DomainVerifyStep ==
    ASSUME BindingsInv, NEW j \in Job, Lookup(j) \/ MarkDomainVerified(j)
    PROVE  BindingsInv'
<1> USE DEF BindingsInv
<1> DEFINE h == on[j].of
<1>0. h \in Host /\ on[j] \in Work
  BY DEF Lookup, MarkDomainVerified, Subjects, BindingsTypeOK, Work
<1>1. CASE Lookup(j) /\ published[h]
  <2>1. Does(j, "lookup", "mark", on[j]) /\ UNCHANGED <<databases, domains, secrets>>
    BY <1>1 DEF Lookup
  <2>2. /\ do' \in [Job -> Jobs] /\ on' \in [Job -> Work] /\ do'[j] = "mark" /\ on'[j] = on[j]
        /\ \A i \in Job \ {j} : do'[i] = do[i] /\ on'[i] = on[i]
    BY <2>1, <1>0, Moves DEF Jobs
  <2>3. BindingsTypeOK' /\ Subjects'
    BY <1>0, <2>1, <2>2, SubjectsKept DEF BindingsTypeOK, Work, databases, domains, secrets
  <2>4. Provers'
    <3>1. proven[h]
      BY <1>0, <1>1 DEF Provers
    <3> QED
      BY <2>1, <2>2, <3>1 DEF Provers, VerifiedIsProven, domains
  <2> QED
    BY <2>1, <2>2, <2>3, <2>4, BindersKept, LiveKept
<1>2. CASE Lookup(j) /\ ~published[h]
  <2>1. Does(j, "lookup", "idle", Unoccupied) /\ UNCHANGED <<databases, domains, secrets>>
    BY <1>2 DEF Lookup, Stops
  <2>2. /\ do' \in [Job -> Jobs] /\ on' \in [Job -> Work] /\ do'[j] = "idle"
        /\ \A i \in Job \ {j} : do'[i] = do[i] /\ on'[i] = on[i]
    BY <2>1, Stopped
  <2>3. BindingsTypeOK' /\ Subjects'
    BY <2>1, <2>2, SubjectsKept DEF BindingsTypeOK, Work, databases, domains, secrets
  <2> QED
    BY <2>1, <2>2, <2>3, BindersKept, ProversKept, LiveKept
<1>3. CASE MarkDomainVerified(j)
  <2>1. /\ do[j] = "mark" /\ domain' = [domain EXCEPT ![h] = "verified"]
        /\ Does(j, "mark", "idle", Unoccupied) /\ UNCHANGED <<databases, published, proven, secrets>>
    BY <1>3 DEF MarkDomainVerified, Stops
  <2>2. /\ do' \in [Job -> Jobs] /\ on' \in [Job -> Work] /\ do'[j] = "idle"
        /\ \A i \in Job \ {j} : do'[i] = do[i] /\ on'[i] = on[i]
    BY <2>1, Stopped
  <2>3. BindingsTypeOK' /\ Subjects'
    BY <2>1, <2>2, SubjectsKept DEF BindingsTypeOK, Work, databases, secrets
  <2>4. Provers'
    <3>1. proven[h]
      BY <2>1 DEF Provers
    <3>2. \A g \in Host : domain'[g] = "verified" => domain[g] = "verified" \/ g = h
      BY <2>1 DEF BindingsTypeOK
    <3> QED
      BY <2>1, <2>2, <3>1, <3>2 DEF Provers, VerifiedIsProven
  <2> QED
    BY <2>1, <2>2, <2>3, <2>4, BindersKept, LiveKept
<1> QED
  BY <1>1, <1>2, <1>3

\* The version a call counted is the next one, or its transaction is undone.
LEMMA SecretStep ==
    ASSUME BindingsInv, NEW j \in Job, SetSecret(j)
    PROVE  BindingsInv'
<1> USE DEF BindingsInv
<1> DEFINE s == on[j].of
           v == on[j].value
<1>1. /\ do[j] = "set" /\ on[j].version = Len(revision[s]) + 1
      /\ live' = [live EXCEPT ![s] = v] /\ revision' = [revision EXCEPT ![s] = Append(@, v)]
      /\ Does(j, "set", "idle", Unoccupied) /\ UNCHANGED <<databases, domains>>
  BY DEF SetSecret, Stops
<1>2. s \in Secret /\ v \in Value /\ on[j].version \in 0 .. MaxSets
  BY <1>1 DEF Subjects, BindingsTypeOK
<1>3. /\ do' \in [Job -> Jobs] /\ on' \in [Job -> Work] /\ do'[j] = "idle"
      /\ \A i \in Job \ {j} : do'[i] = do[i] /\ on'[i] = on[i]
  BY <1>1, Stopped
<1>4. revision[s] \in Seq(Value) /\ Len(revision[s]) \in Nat
  BY <1>2 DEF BindingsTypeOK
<1>5. /\ Append(revision[s], v) \in Seq(Value) /\ Append(revision[s], v) # <<>>
      /\ Len(Append(revision[s], v)) = Len(revision[s]) + 1
      /\ Append(revision[s], v)[Len(revision[s]) + 1] = v
  BY <1>2, <1>4
<1>6. BindingsTypeOK' /\ Subjects'
  <2>1. /\ live' \in [Secret -> Value \union {Void}] /\ revision' \in [Secret -> Seq(Value)]
        /\ \A r \in Secret \ {s} : revision'[r] = revision[r]
        /\ revision'[s] = Append(revision[s], v)
    BY <1>1, <1>2, <1>5 DEF BindingsTypeOK
  <2>2. \A r \in Secret : Len(revision'[r]) <= MaxSets
    <3>1. Len(revision[s]) + 1 <= MaxSets
      BY <1>1, <1>2, BindingsAssumption
    <3>2. Len(revision'[s]) <= MaxSets
      BY <1>5, <2>1, <3>1
    <3>3. \A r \in Secret \ {s} : Len(revision'[r]) <= MaxSets
      BY <2>1 DEF BindingsTypeOK
    <3> QED
      BY <3>2, <3>3
  <2>3. BindingsTypeOK'
    BY <1>1, <1>3, <2>1, <2>2 DEF BindingsTypeOK, Work, databases, domains
  <2> QED
    BY <1>3, <2>3, SubjectsKept
<1>7. LiveIsNewest'
  <2>1. live'[s] = v /\ revision'[s] = Append(revision[s], v)
    BY <1>1, <1>2 DEF BindingsTypeOK
  <2>2. \A r \in Secret \ {s} : live'[r] = live[r] /\ revision'[r] = revision[r]
    BY <1>1, <1>2 DEF BindingsTypeOK
  <2>3. revision'[s] # <<>> /\ revision'[s][Len(revision'[s])] = live'[s]
    BY <1>5, <2>1
  <2> QED
    BY <2>2, <2>3 DEF LiveIsNewest
<1> QED
  BY <1>1, <1>3, <1>6, <1>7, BindersKept, ProversKept

LEMMA BindingsStep ==
    ASSUME BindingsInv, [BindingsNext]_bindingsVars
    PROVE  BindingsInv'
<1>1. CASE UNCHANGED bindingsVars
  <2>1. BindingsTypeOK' /\ Subjects' /\ Binders' /\ Provers' /\ LiveIsNewest'
    BY <1>1, BindersKept, ProversKept, LiveKept
    DEF bindingsVars, databases, domains, secrets, BindingsInv, BindingsTypeOK, Subjects
  <2> QED
    BY <2>1 DEF BindingsInv
<1>2. ASSUME NEW j \in Job, NEW k \in Kind, RequestDatabase(j, k)
      PROVE  BindingsInv'
  BY <1>2, BindRequestStep
<1>3. ASSUME NEW j \in Job, InsertDatabase(j) \/ InsertBinding(j) PROVE BindingsInv'
  BY <1>3, DatabaseStep
<1>4. ASSUME NEW j \in Job, UpdateIsolation(j) \/ Fails(j) PROVE BindingsInv'
  BY <1>4, StopStep
<1>5. ASSUME NEW j \in Job, MarkBindings(j) \/ MarkDatabases(j) PROVE BindingsInv'
  BY <1>5, ReadyStep
<1>6. ASSUME NEW h \in Host, InsertDomain(h) \/ Publish(h) PROVE BindingsInv'
  BY <1>6, DomainStep
<1>7. ASSUME NEW j \in Job, NEW h \in Host, VerifyRead(j, h) PROVE BindingsInv'
  BY <1>7, ReadDomainStep
<1>8. ASSUME NEW j \in Job, Lookup(j) \/ MarkDomainVerified(j) PROVE BindingsInv'
  BY <1>8, DomainVerifyStep
<1>9. ASSUME NEW j \in Job, SetSecret(j) PROVE BindingsInv'
  BY <1>9, SecretStep
<1>10. ASSUME NEW j \in Job, NEW s \in Secret, NEW v \in Value, SetBegin(j, s, v) PROVE BindingsInv'
  BY <1>10, BeginStep
<1> QED
  BY <1>1, <1>2, <1>3, <1>4, <1>5, <1>6, <1>7, <1>8, <1>9, <1>10 DEF BindingsNext

-----------------------------------------------------------------------------

LEMMA BindingsCarried == BindingsSpec => []BindingsInv
<1>1. BindingsInit => BindingsInv
  BY BindingsAssumption, BindingsStart
<1>2. BindingsInv /\ [BindingsNext]_bindingsVars => BindingsInv'
  BY BindingsAssumption, BindingsStep
<1> QED
  BY <1>1, <1>2, PTL DEF BindingsSpec

\* Rows and calls are well typed: databases.go, domains.go, secrets/service.go.
THEOREM BindingsTypeCorrect == BindingsSpec => []BindingsTypeOK
<1>1. BindingsInv => BindingsTypeOK
  BY DEF BindingsInv
<1> QED
  BY <1>1, BindingsCarried, PTL

\* RequestDatabase never gives a database two bindings, however many calls ask
\* for it at once and wherever they stop.
THEOREM BoundOnce == BindingsSpec => []OneBinding
<1>1. BindingsInv => OneBinding
  BY DEF BindingsInv, Binders
<1> QED
  BY <1>1, BindingsCarried, PTL

\* VerifyCustomDomain marks no custom host whose challenge DNS never gave.
THEOREM ProvenFirst == BindingsSpec => []VerifiedIsProven
<1>1. BindingsInv => VerifiedIsProven
  BY DEF BindingsInv, Provers
<1> QED
  BY <1>1, BindingsCarried, PTL

\* SetSecret keeps the live ciphertext and the newest revision the same, for
\* any number of racing calls.
THEOREM NewestLives == BindingsSpec => []LiveIsNewest
<1>1. BindingsInv => LiveIsNewest
  BY DEF BindingsInv
<1> QED
  BY <1>1, BindingsCarried, PTL
=============================================================================
