---------------------------- MODULE MCConfiguration ----------------------------
(***************************************************************************)
(* Model checking of Configuration.  The files that are read: up to three   *)
(* events, or two lines of any kind, in the section of a directory; two     *)
(* such sections, also of one directory; up to two lines in the log section *)
(* and one more in the settings; up to two lines at the top; files that     *)
(* include another one, themselves, or one that is not there; files of      *)
(* which the last line has no newline.                                      *)
(***************************************************************************)
EXTENDS Configuration, TLC

CONSTANTS i1, i2, x, y, z, u1, u2, file, syslog, v1, v2, sh

L(kw, arg) == [kw |-> kw, arg |-> arg]
End == L("end", Unset)
UpTo(n, S) == UNION {[1 .. k -> S] : k \in 0 .. n}

Ev(S, c) == L("event", [mask |-> S, command |-> c])
EventLines == {Ev({"a"}, x), Ev({"a"}, z), Ev({"b"}, x), Ev({"b"}, y), Ev({"a", "b"}, y)}
DirLines == {Ev({"a"}, x), L("user", u1), L("user", u2), L("group", u1), L("shell", sh),
             L("user", Bad), L("comment", Unset), L("level", v1)}
LogLines == {L("set", [name |-> "filename", value |-> v1]), L("set", [name |-> "ident", value |-> v2]),
             L("level", v1), L("level", v2)}
SetLines == {L("pidfile", v1), L("pidfile", v2), L("pidfile", Bad), L("unknown", Unset)}
TopLines == {L("settings", Unset), L("directory", i1), L("directory", Bad), End,
             L("unreadable", Unset), L("comment", Unset)}

DirSection(i, t) == <<L("directory", i)>> \o t \o <<End>>
LogSection(v, t) == <<L("logging", v)>> \o t \o <<End>>
SettingsOf(t) == <<L("settings", Unset)>> \o t \o <<End>>
Unended(t) == Append(t, L("unended", Unset))

Mains ==
  {DirSection(i1, t) : t \in UpTo(3, EventLines) \cup UpTo(2, DirLines)}
  \cup {DirSection(i1, t) \o DirSection(i, <<e>>) : t \in UpTo(1, DirLines), i \in {i1, i2}, e \in EventLines}
  \cup {SettingsOf(LogSection(file, t) \o <<L("pidfile", v1)>>) : t \in UpTo(2, LogLines)}
  \cup {SettingsOf(LogSection(syslog, t) \o w) : t \in UpTo(1, LogLines), w \in UpTo(1, SetLines)}
  \cup {SettingsOf(w) \o SettingsOf(LogSection(file, <<>>)) : w \in UpTo(1, SetLines)}
  \cup UpTo(2, TopLines)
  \cup {Unended(t) : t \in {DirSection(i1, <<>>), <<L("comment", Unset)>>,
                           DirSection(i1, <<>>) \o <<L("comment", Unset)>>,
                           <<L("directory", i1)>>, <<L("directory", i1), L("user", u1)>>,
                           <<L("directory", i1), Ev({"a"}, x)>>, <<L("include", <<>>)>>,
                           SettingsOf(<<>>), <<L("settings", Unset)>>,
                           <<L("settings", Unset)>> \o LogSection(file, <<>>),
                           <<L("settings", Unset), L("pidfile", v1)>>,
                           <<L("settings", Unset), L("comment", Unset)>>}}

Sides == {<<>>, <<L("comment", Unset)>>, DirSection(i2, <<L("event", [mask |-> {"a"}, command |-> y])>>),
          <<L("directory", i2)>>, <<L("include", <<"side">>)>>, <<L("unreadable", Unset)>>,
          Unended(<<L("comment", Unset)>>), Unended(DirSection(i2, <<>>))}
Including == {<<L("include", t)>> \o DirSection(i2, <<>>) : t \in {<<"side">>, <<"side", "side">>, <<"main">>, <<"gone">>}}

MCContents ==
  {("main" :> m) : m \in Mains} \cup {("main" :> m) @@ ("side" :> t) : m \in Including, t \in Sides}

MCDrvOpts == (file :> {"filename"}) @@ (syslog :> {"ident"})
MCCommandLines == {{}, {"PIDFILE", "LOGDRV"}, Flags}
=============================================================================
