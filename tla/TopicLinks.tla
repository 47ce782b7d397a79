----------------------------- MODULE TopicLinks -----------------------------
(***************************************************************************)
(* The two ways a robot message reaches the client's model: the live link  *)
(* (RobotWsProtoConverter and SnapshotStore in the server) and a recorded  *)
(* bag (RobotWsCdrDecoder in the playback worker).  Both fill the same     *)
(* protobuf snapshot, which ProtocolModelConverter shows.  An action       *)
(* passes one message down both links.  A plain field is known by its name *)
(* and the number of its message, so that a shifted, kept or doubled field *)
(* is seen; the few fields that decide something carry their value.        *)
(* Expiry, the bag's cursor and the bound of the node's cache are in       *)
(* SnapshotStore, PlaybackWorker and ActionTracker.                        *)
(***************************************************************************)
EXTENDS RobotWsMessages, Integers

CONSTANTS Modes,       \* ChassisCommand.mode
          NaviModes,   \* navi_mode
          Buoyancies,  \* values of buoyancy_adjust
          TankCodes,   \* values of water_tank_status
          Stamps,      \* header stamps; 0 is an unset stamp
          Lengths,     \* numbers of path points
          TargetSets,  \* FinalTargetArrays: frame and targets
          Uuids,       \* UUIDs of actions, positive numbers
          MaxMessages  \* bound of the model

VARIABLES n,      \* messages so far; they are numbered
          live,   \* m_snapshot of SnapshotStore, by topic
          bag,    \* m_snapshot of the playback worker, by topic
          node,   \* the node's m_actionDiagnostics
          worker, \* the worker's m_actionDiagnostics
          opens,  \* Worker::validate accepts the messages so far
          last    \* the last message of every topic (observed)

vars == <<n, live, bag, node, worker, opens, last>>

ASSUME LinksAssumption ==
  /\ Buoyancies \subseteq Nat /\ TankCodes \subseteq Nat /\ Lengths \subseteq Nat
  /\ Uuids \subseteq Nat \ {0} /\ MaxMessages \in Nat

Topics == {"location", "command", "chassis", "action", "task", "range",
           "inspection", "local", "global", "targets"}
Absent == <<>>
Layouts(topic) == CASE topic = "chassis" -> ChassisLayouts
                    [] topic = "command" -> {"Current", "LegacyWithDiveSpeed"}
                    [] OTHER -> {"Current"}
Newest(topic) == IF topic = "chassis" THEN "CurrentWithAll" ELSE "Current"
Declared(topic, layout) ==
  CASE topic = "location" -> Location
    [] topic = "command" -> ChassisCommand(layout)
    [] topic = "chassis" -> ChassisStates(layout)
    [] topic = "action" -> SystemRunStates
    [] topic = "task" -> TaskParams
    [] topic = "range" -> RangeMotionRequest
    [] topic = "inspection" -> InspectionRequestGoal
    [] topic \in {"local", "global"} -> PathPoint(topic)

\* A message: its number, and the values of the fields that decide something.
Message(topic, layout, said) ==
  [topic |-> topic, layout |-> layout, said |-> said, n |-> n + 1]
Value(m, field) ==
  IF field \in DOMAIN m.said THEN <<field, m.said[field]>> ELSE <<field, m.n>>

\* The fields of f, then those of g.
f ++ g == [x \in DOMAIN f \cup DOMAIN g |-> IF x \in DOMAIN f THEN f[x] ELSE g[x]]
\* A message in the protobuf snapshot: its time, its fields and its repeated
\* fields.  A field is named after the message field it stands for.
Slot(time, fields, items) == [time |-> time, fields |-> fields, items |-> items]
NoItems == [none |-> <<>>]
Received(m) == <<"received", m.n>>
Stamped(stamp, fallback) == IF stamp = 0 THEN fallback ELSE <<"stamp", stamp>>
-----------------------------------------------------------------------------
(* Enumerations: RobotWsProtoConverter, and again in RobotWsCdrDecoder     *)
BuoyancyCommand(v) == IF v <= 2 THEN <<"STOP", "FILL", "DRAIN">>[v + 1] ELSE "UNKNOWN"
WaterTankState(v) ==
  IF v <= 6 THEN <<"IDLE", "FILLING", "DRAINING", "MANUAL_OVERRIDE", "FAULT",
                   "FILL_DONE", "DRAIN_DONE">>[v + 1]
  ELSE "UNKNOWN"
VerticalControlMode(navi) == CASE navi = 1 -> "DEPTH_HOLD" [] navi = 2 -> "HEIGHT_HOLD"
                               [] OTHER -> "NONE"
ActionVerticalControlMode(owner, mode) ==
  CASE owner = 2 /\ mode = 1 -> "DEPTH_HOLD" [] owner = 2 /\ mode = 2 -> "LANDING"
    [] OTHER -> "NONE"
ActionName(owner) == CASE owner = 1 -> "Move" [] owner = 2 -> "DepthCommand" [] OTHER -> ""
Platform(mode) == CASE mode \in {6, 8, 11} -> "CRAWL"
                    [] mode \in (1..5) \cup {7, 9, 10} -> "SAILING" [] OTHER -> "UNKNOWN"
\* Mutant: the turn of a crawling vehicle is none.
ManeuverSailingOnly(mode) == IF mode = 10 THEN "YAW_IN_PLACE" ELSE "NONE"
Maneuver(mode) == IF mode \in {10, 11} THEN "YAW_IN_PLACE" ELSE "NONE"

Buoyancy(v) == CASE v = 0 -> "STOP" [] v = 1 -> "FILL" [] v = 2 -> "DRAIN" [] OTHER -> "UNKNOWN"
TankState(v) ==
  CASE v = 0 -> "IDLE" [] v = 1 -> "FILLING" [] v = 2 -> "DRAINING"
    [] v = 3 -> "MANUAL_OVERRIDE" [] v = 4 -> "FAULT" [] v = 5 -> "FILL_DONE"
    [] v = 6 -> "DRAIN_DONE" [] OTHER -> "UNKNOWN"
VerticalMode(navi) == IF navi = 1 THEN "DEPTH_HOLD" ELSE IF navi = 2 THEN "HEIGHT_HOLD" ELSE "NONE"
ActionVerticalMode(owner, mode) ==
  IF owner = 2 /\ mode \in {1, 2} THEN <<"DEPTH_HOLD", "LANDING">>[mode] ELSE "NONE"
-----------------------------------------------------------------------------
(* The live link: what the server copies                                   *)
MotorCopied == {"_rpm", "_torque", "_temperature", "_bus_voltage", "_ready", "_output",
                "_u_temperature", "_v_temperature", "_fault", "_fault_code", "_actuator",
                "_enable", "_speed_mode", "_reverse", "_command_rpm", "_command_torque"}
ThrusterNames == {"left_tail", "right_tail", "left_vertical", "right_vertical", "back_vertical"}
BatteryCopied == {"bms_" \o f : f \in
  {"status", "heartbeat", "alarm_level", "current_status", "voltage", "current",
   "max_voltage_index", "max_voltage", "min_voltage_index", "min_voltage",
   "max_temperature_index", "max_temperature", "min_temperature_index",
   "min_temperature", "soc"}}
Copied ==
  [location |->
     {"odom_x", "odom_y", "odom_z", "heading", "pitch", "roll", "velocity_x", "velocity_y",
      "velocity_z", "acc_x", "acc_y", "acc_z", "velocity", "omega_z", "acc", "depth",
      "height", "usbl_x", "usbl_y", "usbl_z", "status", "error", "gps_time", "longitude",
      "latitude", "start_time", "gauss_x", "gauss_y", "gauss_z", "origin_longitude",
      "origin_latitude", "origin_x", "origin_y", "origin_z", "odom_heading", "omega_x",
      "omega_y", "usbl_msg1", "usbl_msg2", "usbl_msg3", "usbl_msg4"},
   command |->
     {"mode", "is_enable", "speed", "angular_velocity", "heading", "expected_gear",
      "is_use_water_actuator", "navi_mode", "depth", "height", "left_water_actuator_speed",
      "right_water_actuator_speed", "is_open_sonar_power", "emergency_ascent"},
   chassis |->
     {"current_speed", "current_angular_velocity", "gear", "heading_kp",
      "heading_target_value", "heading_actual_value", "heading_error", "heading_output",
      "water_tank_level", "water_tank_is_raw", "water_heartbeat",
      "emergency_ascent_active", "crawl_heartbeat", "dcdc", "input_voltage"}
     \cup {t \o "_status" : t \in ThrusterNames} \cup BatteryCopied
     \cup {s \o f : s \in {"left_crawl", "right_crawl"}, f \in MotorCopied},
   action |->
     {"owner", "state", "goal_uuid", "message", "chassis_mode", "is_enable", "navi_mode",
      "target_speed", "target_heading", "target_angular_velocity", "target_depth",
      "target_height", "emergency_ascent"},
   task |->
     {"task_type", "task_id", "task_enable", "is_enable", "emergency_stop", "remote_mode",
      "power_enable", "release_emergency_ascent", "crawl_gear", "crawl_speed",
      "crawl_angular_velocity", "forward_percent", "turn_percent", "dive_percent"}
     \cup {t \o "_speed" : t \in ThrusterNames},
   range |-> {"frame_id", "task_id", "command_seq", "motion", "speed_limit_mps", "reason"},
   inspection |->
     {"frame_id", "task_id", "goal_id", "target_id", "target_x", "target_y", "target_z",
      "goal_x", "goal_y", "goal_z", "goal_heading", "hold_on_arrival", "mode", "speed_limit"}]
Copy(m, names) == [f \in names |-> Value(m, f)]
Listed(m, name, count) == [i \in 1..count |-> Value(m, name \o ToString(i))]

CommandKinds(mode, buoyancy, vertical) ==
  [platform |-> Platform(mode), maneuver |-> Maneuver(mode),
   buoyancy |-> buoyancy, vertical |-> vertical]
ControlCommand(m) ==
  Slot(Received(m), Copy(m, Copied.command) ++
       CommandKinds(m.said.mode, BuoyancyCommand(m.said.buoyancy_adjust),
                    IF m.said.mode = 2 THEN "LANDING" ELSE VerticalControlMode(m.said.navi_mode)),
       NoItems)
MotorFeedback(m, thruster) ==
  <<thruster, [f \in Names(Feedback) |-> Value(m, thruster \o f)]>>
ChassisState(m) ==
  Slot(Received(m), Copy(m, Copied.chassis) ++
       [tank |-> WaterTankState(m.said.water_tank_status)],
       [tail_thruster_motor |-> [i \in 1..2 |-> MotorFeedback(m, TailThrusters[i])],
        thruster_motor |-> LET all == TailThrusters \o VerticalThrusters
                           IN  [i \in 1..5 |-> MotorFeedback(m, all[i])],
        warning_code |-> Listed(m, "warning", 12),
        power_channel |-> Listed(m, "power", 16)])
TaskState(m) ==
  Slot(Received(m), Copy(m, Copied.task) ++
       [buoyancy |-> BuoyancyCommand(m.said.buoyancy_adjust)],
       [power_supply_enabled |-> Listed(m, "power_supply", 16)])
VehicleState(m) == Slot(Received(m), Copy(m, Copied.location), NoItems)
PerceptionRequest(m) ==
  Slot(Stamped(m.said.stamp, Received(m)), Copy(m, Copied[m.topic]), NoItems)
Converted(m) ==
  CASE m.topic = "location" -> VehicleState(m)
    [] m.topic = "command" -> ControlCommand(m)
    [] m.topic = "chassis" -> ChassisState(m)
    [] m.topic = "task" -> TaskState(m)
    [] m.topic \in {"range", "inspection"} -> PerceptionRequest(m)

\* Paths: every point on its own; the length and the duration are derived.
PointValue(m, field, i) == <<field, 10 * m.n + i>>
PointCopied(topic) ==
  {"position_x", "position_y", "position_z", "q_x", "q_y", "q_z", "q_w"} \cup
  (IF topic = "local"
   THEN {v \o a : v \in {"velocity", "turning", "acceleration", "turning_acceleration"},
                  a \in {"_x", "_y", "_z"}} \cup {"from_start_sec", "from_start_ns"}
   ELSE {})
Duration(points) ==
  IF points = <<>> THEN <<"none", 0>> ELSE points[Len(points)].from_start_sec
PathFields(m, points) ==
  [frame_id |-> Value(m, "frame_id"),
   length |-> <<"segments", IF points = <<>> THEN 0 ELSE Len(points) - 1>>]
  ++ (IF m.topic = "local"
      THEN [goal_uuid |-> Value(m, "goal_uuid"), duration |-> Duration(points)]
      ELSE [kind |-> "global"])
Trajectory(m) ==
  LET points == [i \in 1..m.said.count |->
                   [f \in PointCopied(m.topic) |-> PointValue(m, f, i)]]
  IN  Slot(Stamped(m.said.stamp, Received(m)), PathFields(m, points), [point |-> points])

\* Final targets.  One fault rejects the whole set; a bad net boundary only
\* itself.
Fault(targets, i) ==
  IF \E j \in 1..(i - 1) : targets[j].id = targets[i].id THEN "duplicate"
  ELSE targets[i].fault
Faulty(targets) == {i \in DOMAIN targets : Fault(targets, i) # "none"}
First(set) == CHOOSE i \in set : \A j \in set : i <= j
TargetSet(m, rejection, targets) ==
  Slot(Stamped(m.said.stamp, Received(m)),
       [task_id |-> Value(m, "task_id"), mine_number |-> Value(m, "mine_number"),
        frame_id |-> Value(m, "frame_id"), rejection_reason |-> rejection],
       [target |-> targets])
NoRejection == <<"none", 0>>
WireTarget(m, t, valid) ==
  [id |-> t.id, class |-> t.class, boundary_valid |-> valid,
   vertices |-> t.class = 2 /\ t.boundary = "good",
   time |-> Stamped(t.stamp, Stamped(m.said.stamp, Received(m)))]
FinalTargets(m) ==
  LET ts == m.said.targets
      i == First(Faulty(ts))
  IN  IF ~m.said.odom THEN TargetSet(m, <<"frame of the array", 0>>, <<>>)
      ELSE IF Faulty(ts) # {} THEN TargetSet(m, <<Fault(ts, i), ts[i].id>>, <<>>)
      ELSE TargetSet(m, NoRejection,
             [j \in DOMAIN ts |->
                WireTarget(m, ts[j], ts[j].class = 2 => ts[j].boundary \in {"none", "good"})])

\* Actions.  A goal_id is 0 if empty, 2u the canonical and 2u + 1 the lossy
\* print of UUID u.  A hidden fact is the number of its message, 0 for none.
SameGoal(u, goal) == goal # 0 /\ goal \div 2 = u
NoFacts == [native_status |-> 0, feedback_progress |-> 0]
Known(goal, cache) ==
  IF \E u \in Uuids : SameGoal(u, goal)
  THEN cache[CHOOSE u \in Uuids : SameGoal(u, goal)] ELSE NoFacts
Over(facts, older) == [f \in DOMAIN facts |-> IF facts[f] # 0 THEN facts[f] ELSE older[f]]
FactsOf(action) == [f \in {"native_status", "feedback_progress"} |-> action[f][2]]
Kept(action, goal) ==
  IF action # Absent /\ action.fields.goal_uuid[2] = goal THEN FactsOf(action.fields) ELSE NoFacts
ActionFields(copied, kinds, facts) ==
  copied ++ kinds ++ [f \in DOMAIN facts |-> <<f, facts[f]>>]
Terminal(state) == state \in {2, 3, 4}
ActionState(m) ==
  LET fields == ActionFields(Copy(m, Copied.action),
                  [name |-> ActionName(m.said.owner),
                   buoyancy |-> BuoyancyCommand(m.said.buoyancy_adjust),
                   vertical |-> ActionVerticalControlMode(m.said.owner, m.said.chassis_mode)],
                  Over(Known(m.said.goal_uuid, node), Kept(live.action, m.said.goal_uuid)))
  IN  Slot(Received(m), fields,
           [recent_terminal |-> IF Terminal(m.said.state) THEN <<fields>>
                                ELSE IF live.action = Absent THEN <<>>
                                ELSE live.action.items.recent_terminal])
-----------------------------------------------------------------------------
(* The bag link: the order in which the decoder reads                      *)
MotorReads == Of(8, <<"_rpm", "_torque">>) \o Of(2, <<"_temperature">>)
              \o Of(8, <<"_bus_voltage">>) \o Of(1, <<"_ready", "_output">>)
              \o Of(2, <<"_u_temperature", "_v_temperature">>)
              \o Of(1, <<"_fault", "_fault_code">>)
CommandReads == Of(1, <<"_enable", "_speed_mode", "_reverse">>)
                \o Of(8, <<"_command_rpm", "_command_torque">>)
FeedbackReads == Of(8, <<"_bus_current">>) \o Of(2, <<"_controller_temperature">>)
                 \o Of(8, <<"_target_rpm", "_actual_rpm">>)
ChassisReads(hasHeading, hasTails, hasAll) ==
  Each(TailThrusters \o VerticalThrusters, Of(1, <<"_status">>))
  \o If(hasHeading, Of(8, <<"heading_kp">>)) \o Of(1, <<"water_heartbeat">>)
  \o If(hasHeading, Of(8, <<"heading_target_value", "heading_actual_value",
                            "heading_error", "heading_output">>))
  \o If(hasTails, Each(TailThrusters, FeedbackReads))
  \o If(hasAll, Each(VerticalThrusters, FeedbackReads))
  \o Of(1, <<"water_tank_level", "water_tank_is_raw", "water_tank_status", "gear">>)
  \o Of(8, <<"current_speed", "current_angular_velocity">>)
  \o Of(1, <<"left_crawl_actuator", "right_crawl_actuator", "crawl_heartbeat">>)
  \o Each(Sides, MotorReads) \o Each(Sides, CommandReads)
  \o Of(1, <<"bms_status", "bms_heartbeat", "bms_alarm_level", "bms_current_status">>)
  \o Of(8, <<"bms_voltage", "bms_current">>)
  \o Of(1, <<"bms_max_voltage_index">>) \o Of(8, <<"bms_max_voltage">>)
  \o Of(1, <<"bms_min_voltage_index">>) \o Of(8, <<"bms_min_voltage">>)
  \o Of(1, <<"bms_max_temperature_index", "bms_max_temperature",
             "bms_min_temperature_index", "bms_min_temperature">>)
  \o Numbered("warning", 12, 1) \o Of(1, <<"dcdc">>) \o Numbered("power", 16, 1)
  \o Of(1, <<"bms_soc">>) \o Of(8, <<"input_voltage">>)
  \o Of(1, <<"emergency_ascent_active">>)
LocationReads ==
  Of(8, <<"start_time", "gps_time", "status", "error", "longitude", "latitude",
          "height", "depth", "gauss_x", "gauss_y", "gauss_z", "origin_longitude",
          "origin_latitude", "origin_x", "origin_y", "origin_z", "odom_x", "odom_y",
          "odom_z", "odom_heading", "velocity_x", "velocity_y", "velocity_z",
          "velocity", "pitch", "roll", "heading", "omega_x", "omega_y", "omega_z",
          "acc_x", "acc_y", "acc_z", "acc", "usbl_msg1", "usbl_msg2", "usbl_msg3",
          "usbl_msg4", "usbl_x", "usbl_y", "usbl_z">>)
ChassisCommandReads(hasDive) ==
  Of(1, <<"mode", "is_enable", "emergency_ascent">>)
  \o Of(8, <<"speed", "angular_velocity">>)
  \o Of(1, <<"expected_gear", "is_use_water_actuator", "navi_mode">>)
  \o Of(8, <<"depth", "height", "heading">>) \o If(hasDive, Of(8, <<"dive_speed">>))
  \o Of(1, <<"left_water_actuator_speed", "right_water_actuator_speed",
             "buoyancy_adjust", "is_open_sonar_power">>)
ActionReads ==
  Of(1, <<"owner">>) \o Of(4, <<"goal_uuid">>) \o Of(1, <<"state">>) \o Of(4, <<"message">>)
  \o Of(1, <<"chassis_mode", "is_enable", "emergency_ascent", "navi_mode">>)
  \o Of(8, <<"target_depth", "target_height">>) \o Of(1, <<"buoyancy_adjust">>)
  \o Of(8, <<"target_speed", "target_heading", "target_angular_velocity">>)
TaskReads ==
  Of(1, <<"task_type", "task_id", "task_enable", "emergency_stop",
          "release_emergency_ascent", "remote_mode", "power_enable", "is_enable",
          "buoyancy_adjust", "crawl_gear">>)
  \o Of(8, <<"crawl_speed", "crawl_angular_velocity">>)
  \o Of(1, <<"forward_percent", "turn_percent", "dive_percent", "left_tail_speed",
             "right_tail_speed", "left_vertical_speed", "right_vertical_speed",
             "back_vertical_speed">>)
  \o Numbered("power_supply", 16, 1)
RangeReads == Of(4, <<"sec", "nanosec", "frame_id", "task_id", "command_seq">>)
              \o Of(1, <<"motion">>) \o Of(4, <<"speed_limit_mps", "reason">>)
CustomPointReads(name) == \* eight values, of which the fifth to seventh are kept
  [i \in 1..8 |-> <<name \o <<"_1", "_2", "_3", "_4", "_x", "_y", "_z", "_8">>[i], 8>>]
InspectionReads ==
  Of(4, <<"sec", "nanosec", "frame_id", "task_id", "goal_id">>) \o Of(2, <<"target_id">>)
  \o CustomPointReads("target") \o CustomPointReads("goal") \o Of(8, <<"goal_heading">>)
  \o Of(1, <<"hold_on_arrival", "mode">>) \o Of(4, <<"speed_limit">>)
PoseReads == Of(8, <<"position_x", "position_y", "position_z", "q_x", "q_y", "q_z", "q_w">>)
LocalPointReads ==
  PoseReads
  \o Of(8, <<"velocity_x", "velocity_y", "velocity_z", "turning_x", "turning_y", "turning_z",
             "acceleration_x", "acceleration_y", "acceleration_z", "turning_acceleration_x",
             "turning_acceleration_y", "turning_acceleration_z">>)
  \o Of(4, <<"from_start_sec", "from_start_ns">>)
GlobalPointReads == Of(4, <<"sec", "nanosec", "frame_id">>) \o PoseReads

\* The layout of the scalar messages follows from the payload's size alone.
ChassisLayout(size) ==
  CASE size \in 277..284 -> "Legacy" [] size \in 341..348 -> "LegacyWithTail"
    [] size \in 325..332 -> "Current" [] size \in 389..396 -> "CurrentWithTail"
    [] size \in 485..492 -> "CurrentWithAll" [] OTHER -> "Invalid"
CommandLayout(size) ==
  CASE size = 64 -> "Current" [] size = 72 -> "LegacyWithDiveSpeed" [] OTHER -> "Invalid"
DetectedLayout(topic, size) ==
  CASE topic = "chassis" -> ChassisLayout(size) [] topic = "command" -> CommandLayout(size)
    [] OTHER -> "Current"
Reads(topic, layout) ==
  CASE topic = "location" -> LocationReads
    [] topic = "command" -> ChassisCommandReads(layout = "LegacyWithDiveSpeed")
    [] topic = "chassis" -> ChassisReads(HasHeading(layout), HasTails(layout), HasVerticals(layout))
    [] topic = "action" -> ActionReads
    [] topic = "task" -> TaskReads
    [] topic = "range" -> RangeReads
    [] topic = "inspection" -> InspectionReads
    [] topic = "local" -> LocalPointReads
    [] topic = "global" -> GlobalPointReads
\* What the decoder makes of each declaration: the layout it takes it for,
\* where its reads land, and whether they end where the payload ends.
Decoding ==
  [t \in Topics \ {"targets"} |->
     [l \in Layouts(t) |->
        LET layout == DetectedLayout(t, PayloadSize(Declared(t, l)))
        IN  IF layout = "Invalid" THEN [layout |-> layout, from |-> <<>>, whole |-> FALSE]
            ELSE [layout |-> layout,
                  from |-> Reading(Declared(t, l), Reads(t, layout)),
                  whole |-> PayloadSize(Reads(t, layout)) = PayloadSize(Declared(t, l))]]]
\* `d' is what is made of the message m.
Got(m, d, name) ==
  IF d.from[name] = Misread THEN <<Misread, m.n>> ELSE Value(m, d.from[name])
Decoded(m, d, consumed) == [f \in DOMAIN d.from \ consumed |-> Got(m, d, f)]
DecodedList(m, d, name, count) == [i \in 1..count |-> Got(m, d, name \o ToString(i))]
HeadingDiagnostics == {"heading_kp", "heading_target_value", "heading_actual_value",
                       "heading_error", "heading_output"}
Consumed ==
  [location |-> {}, command |-> {"buoyancy_adjust", "dive_speed"},
   chassis |-> HeadingDiagnostics \cup {"water_tank_status"}
     \cup {t \o f : t \in ThrusterNames, f \in Names(FeedbackReads)}
     \cup Names(Numbered("warning", 12, 1) \o Numbered("power", 16, 1)),
   action |-> {"buoyancy_adjust"},
   task |-> {"buoyancy_adjust"} \cup Names(Numbered("power_supply", 16, 1)),
   range |-> {"sec", "nanosec"},
   inspection |-> {"sec", "nanosec"}
     \cup {p \o i : p \in {"target", "goal"}, i \in {"_1", "_2", "_3", "_4", "_8"}}]
\* Mutant: mode 2 lands in every layout.
LandingInAnyLayout(m, d) ==
  Slot(Received(m), Decoded(m, d, Consumed.command) ++
       CommandKinds(Got(m, d, "mode")[2], Buoyancy(Got(m, d, "buoyancy_adjust")[2]),
         IF Got(m, d, "mode")[2] = 2 THEN "LANDING"
         ELSE VerticalMode(Got(m, d, "navi_mode")[2])),
       NoItems)
DecodeCommand(m, d) ==
  Slot(Received(m), Decoded(m, d, Consumed.command) ++
       CommandKinds(Got(m, d, "mode")[2], Buoyancy(Got(m, d, "buoyancy_adjust")[2]),
         IF d.layout = "Current" /\ Got(m, d, "mode")[2] = 2 THEN "LANDING"
         ELSE VerticalMode(Got(m, d, "navi_mode")[2])),
       NoItems)
DecodeChassis(m, d) ==
  LET Motors(names) == [i \in DOMAIN names |->
        <<names[i], [f \in Names(FeedbackReads) |-> Got(m, d, names[i] \o f)]>>]
  IN  Slot(Received(m), Decoded(m, d, Consumed.chassis) ++
           [tank |-> TankState(Got(m, d, "water_tank_status")[2])],
           [tail_thruster_motor |-> IF HasTails(d.layout) THEN Motors(TailThrusters) ELSE <<>>,
            thruster_motor |-> IF HasVerticals(d.layout)
                               THEN Motors(TailThrusters \o VerticalThrusters) ELSE <<>>,
            warning_code |-> DecodedList(m, d, "warning", 12),
            power_channel |-> DecodedList(m, d, "power", 16)])
DecodeTask(m, d) ==
  Slot(Received(m), Decoded(m, d, Consumed.task) ++
       [buoyancy |-> Buoyancy(Got(m, d, "buoyancy_adjust")[2])],
       [power_supply_enabled |-> DecodedList(m, d, "power_supply", 16)])
DecodePath(m, d) ==
  LET names == DOMAIN d.from \ {"sec", "nanosec", "frame_id"}
      points == [i \in 1..m.said.count |-> [f \in names |-> PointValue(m, d.from[f], i)]]
  IN  Slot(Stamped(m.said.stamp, Received(m)), PathFields(m, points), [point |-> points])
DecodeAction(m, d) ==
  LET goal == Got(m, d, "goal_uuid")[2]
      Told(facts) == ActionFields(Decoded(m, d, Consumed.action),
        [name |-> ActionName(Got(m, d, "owner")[2]),
         buoyancy |-> Buoyancy(Got(m, d, "buoyancy_adjust")[2]),
         vertical |-> ActionVerticalMode(Got(m, d, "owner")[2], Got(m, d, "chassis_mode")[2])], facts)
      kept == Kept(bag.action, goal)
  IN  Slot(Received(m), Told(Over(Known(goal, worker), kept)),
           [recent_terminal |-> IF Terminal(Got(m, d, "state")[2]) THEN <<Told(kept)>>
                                ELSE IF bag.action = Absent THEN <<>>
                                ELSE bag.action.items.recent_terminal])
DecodeLocation(m, d) == Slot(Received(m), Decoded(m, d, Consumed.location), NoItems)
DecodeRequest(m, d) ==
  Slot(Stamped(m.said.stamp, Received(m)), Decoded(m, d, Consumed[m.topic]), NoItems)
BagDecoded(m, d) ==
  CASE m.topic = "location" -> DecodeLocation(m, d)
    [] m.topic = "command" -> DecodeCommand(m, d)
    [] m.topic = "chassis" -> DecodeChassis(m, d)
    [] m.topic = "action" -> DecodeAction(m, d)
    [] m.topic = "task" -> DecodeTask(m, d)
    [] m.topic \in {"range", "inspection"} -> DecodeRequest(m, d)
    [] m.topic \in {"local", "global"} -> DecodePath(m, d)
\* Mutant: only paths are cleared.
ClearedPathsOnly(topic, slot) == IF topic \in {"local", "global"} THEN Absent ELSE slot
\* A message is the whole value: what it fills is cleared before, except the
\* action, which is swapped.  Repeated fields are appended to what is there.
Cleared(topic, slot) == IF topic = "action" THEN slot ELSE Absent
Filled(slot, new) ==
  IF slot = Absent THEN new
  ELSE [new EXCEPT !.items = [k \in DOMAIN new.items |-> slot.items[k] \o new.items[k]]]
Replayed(m, d) ==
  Filled(IF m.topic = "action" THEN Absent ELSE Cleared(m.topic, bag[m.topic]), BagDecoded(m, d))

\* Final targets are decoded into a scratch snapshot; bytes behind a target
\* that rejects the set make the frame undecodable.
DecodesTargets(m) ==
  LET ts == m.said.targets
      read == IF Faulty(ts) = {} THEN Len(ts) ELSE First(Faulty(ts))
  IN  IF ~m.said.odom THEN ts = <<>>
      ELSE read = Len(ts) /\ \A i \in 1..read : ts[i].boundary # "long"
DecodeFinalTargets(m) ==
  LET ts == m.said.targets
      i == First(Faulty(ts))
  IN  IF ~m.said.odom THEN TargetSet(m, <<"frame of the array", 0>>, <<>>)
      ELSE IF Faulty(ts) # {} THEN TargetSet(m, <<Fault(ts, i), ts[i].id>>, <<>>)
      ELSE TargetSet(m, NoRejection,
             [j \in DOMAIN ts |-> WireTarget(m, ts[j],
                IF ts[j].class = 2 /\ ts[j].boundary # "none" THEN ts[j].boundary = "good"
                ELSE TRUE)])
-----------------------------------------------------------------------------
(* The tables of the two links                                            *)
\* What either link derives, and what decides it.
Derived == {"platform", "maneuver", "buoyancy", "vertical", "tank", "name"}
           \cup DOMAIN NoFacts
Deciding(topic, layout) ==
  CASE topic = "command" -> {"mode", "navi_mode", "buoyancy_adjust"}
    [] topic = "chassis" ->
         {"water_tank_status"} \cup {"warning" \o ToString(i) : i \in 1..12}
         \cup {"power" \o ToString(i) : i \in 1..16}
         \cup {t \o f : t \in (IF HasVerticals(layout) THEN ThrusterNames
                               ELSE IF HasTails(layout) THEN {"left_tail", "right_tail"} ELSE {}),
                       f \in Names(Feedback)}
    [] topic = "action" -> {"owner", "state", "goal_uuid", "chassis_mode", "buoyancy_adjust"}
    [] topic = "task" ->
         {"buoyancy_adjust"} \cup {"power_supply" \o ToString(i) : i \in 1..16}
    [] OTHER -> {}

\* memory/CUSTOM_MSG_FIELD_MATRIX.md: the payload's size alone tells a layout
\* (RobotWsCdrDecoder::decode), which is read to its end with every field where
\* it lies, and what the decoder keeps of a message is what the server copies.
\* No constant decides it: TLC finds it true or false of the code's tables.
TablesAligned ==
  /\ Names(Feedback) = Names(FeedbackReads)
  /\ \A t \in Topics \ {"targets"} : \A l \in Layouts(t) :
       LET d == Decoding[t][l]
           fields == DOMAIN d.from
       IN  /\ d.whole /\ d.layout = l /\ fields = Names(Declared(t, l))
           /\ \A f \in fields : d.from[f] = f
           /\ fields \cap (Derived \cup {Misread}) = {} /\ Deciding(t, l) \subseteq fields
           /\ CASE t \in {"local", "global"} ->
                     PointCopied(t) = fields \ {"sec", "nanosec", "frame_id"}
                [] t = "chassis" -> Copied[t] \ HeadingDiagnostics = fields \ Consumed[t]
                [] OTHER -> Copied[t] = fields \ Consumed[t]

ASSUME TablesAssumption == TablesAligned
-----------------------------------------------------------------------------
(* The client: what ProtocolModelConverter shows of either snapshot        *)
KeptFields(slot, names) == [f \in DOMAIN slot.fields \cap names |-> slot.fields[f]]
Without(slot, names) == KeptFields(slot, DOMAIN slot.fields \ names)
BuoyancyShown(command) ==
  CASE command = "STOP" -> 0 [] command = "FILL" -> 1 [] command = "DRAIN" -> 2 [] OTHER -> -1

\* The scene's vehicle and the panel's localization, from one message.
BothShow == {"odom_x", "odom_y", "heading", "pitch", "roll", "velocity", "velocity_x",
             "velocity_y", "velocity_z", "omega_x", "omega_y", "omega_z", "acc", "start_time",
             "gauss_x", "gauss_y", "gauss_z", "origin_longitude", "origin_latitude",
             "origin_x", "origin_y", "origin_z", "odom_heading",
             "usbl_msg1", "usbl_msg2", "usbl_msg3", "usbl_msg4"}
ShownLocation(slot) ==
  Slot(slot.time,
       [vehicle |-> KeptFields(slot, BothShow \cup {"acc_x", "acc_y", "acc_z"}),
        localization |-> KeptFields(slot, BothShow \cup
          {"gps_time", "status", "error", "odom_z", "depth", "height", "usbl_x", "usbl_y",
           "usbl_z", "longitude", "latitude"})],
       NoItems)
\* All thrusters, or the two of older servers and bags.  The heading
\* diagnostics of the message are not shown.
ShownChassis(slot) ==
  Slot(slot.time, Without(slot, HeadingDiagnostics),
       [motors |-> IF slot.items.thruster_motor # <<>> THEN slot.items.thruster_motor
                   ELSE slot.items.tail_thruster_motor,
        warning_code |-> slot.items.warning_code,
        power_channel |-> slot.items.power_channel])
\* Both links tell the mode of the robot, which is preferred to the platform
\* and the maneuver.
ShownCommand(slot) ==
  Slot(slot.time, [Without(slot, {"maneuver"}) EXCEPT !.buoyancy = BuoyancyShown(@)], NoItems)
\* A path of no points is shown as no path; its kind and duration are not.
ShownPath(slot) ==
  Slot(slot.time, [valid |-> slot.items.point # <<>>] ++ Without(slot, {"kind", "duration"}),
       slot.items)
BoundaryState(t) ==
  CASE t.class # 2 -> "NotApplicable"
    [] t.class = 2 /\ t.boundary_valid /\ t.vertices -> "Valid"
    [] t.class = 2 /\ ~t.boundary_valid -> "InvalidFallbackCircle"
    [] OTHER -> "NotProvided"
ShownTargets(slot) ==
  Slot(slot.time, [count |-> Len(slot.items.target)] ++ slot.fields,
       [target |-> [i \in DOMAIN slot.items.target |->
          LET t == slot.items.target[i] IN
          [id |-> t.id, class |-> t.class, time |-> t.time, state |-> BoundaryState(t),
           shape |-> IF BoundaryState(t) = "Valid" THEN "Polygon" ELSE "Circle"]]])
ActionShown(fields) == [fields EXCEPT !.buoyancy = BuoyancyShown(@)]
ShownAction(slot) ==
  Slot(slot.time, ActionShown(slot.fields),
       [recent_terminal |-> [i \in DOMAIN slot.items.recent_terminal |->
                               ActionShown(slot.items.recent_terminal[i])]])
ShownTask(slot) ==
  Slot(slot.time, [slot.fields EXCEPT !.buoyancy = BuoyancyShown(@)], slot.items)
ShownRequest(topic, slot) ==
  Slot(slot.time,
       KeptFields(slot,
         IF topic = "range"
         THEN {"frame_id", "task_id", "command_seq", "motion", "speed_limit_mps", "reason"}
         ELSE {"frame_id", "task_id", "goal_id", "target_id", "target_x", "target_y",
               "target_z", "goal_x", "goal_y", "goal_z", "goal_heading", "hold_on_arrival",
               "mode", "speed_limit"}),
       NoItems)
Shown(topic, slot) ==
  CASE slot = Absent -> Absent
    [] slot # Absent /\ topic = "location" -> ShownLocation(slot)
    [] slot # Absent /\ topic = "chassis" -> ShownChassis(slot)
    [] slot # Absent /\ topic = "command" -> ShownCommand(slot)
    [] slot # Absent /\ topic \in {"local", "global"} -> ShownPath(slot)
    [] slot # Absent /\ topic = "targets" -> ShownTargets(slot)
    [] slot # Absent /\ topic = "action" -> ShownAction(slot)
    [] slot # Absent /\ topic = "task" -> ShownTask(slot)
    [] slot # Absent /\ topic \in {"range", "inspection"} -> ShownRequest(topic, slot)
-----------------------------------------------------------------------------
(* One message down both links                                             *)
Nothing == [t \in Topics |-> Absent]
NoCache == [u \in Uuids |-> NoFacts]

Turning(side) == side.command # Absent /\ side.command.fields.maneuver = "YAW_IN_PLACE"
\* A command that begins a center turn removes the paths.
WithCommand(side, command) ==
  LET begins == command.fields.maneuver = "YAW_IN_PLACE" /\ ~Turning(side)
  IN  [t \in Topics |-> IF t = "command" THEN command
                        ELSE IF begins /\ t \in {"local", "global"} THEN Absent ELSE side[t]]
With(side, m, slot) ==
  IF m.topic = "command" THEN WithCommand(side, slot) ELSE [side EXCEPT ![m.topic] = slot]

Count == n < MaxMessages /\ n' = n + 1
Observe(m) == last' = [last EXCEPT ![m.topic] = m]
\* Worker::validate refuses a bag with an undecodable message.
Validated(m, d) ==
  IF opens /\ d.whole
  THEN bag' = With(bag, m, Replayed(m, d)) /\ UNCHANGED <<opens, worker>>
  ELSE opens' = FALSE /\ bag' = Nothing /\ worker' = NoCache
Replay(m) == \E d \in {Decoding[m.topic][m.layout]} : Validated(m, d)
Record(m, converted) ==
  /\ Count /\ Observe(m) /\ UNCHANGED node
  /\ live' = With(live, m, converted)
  /\ Replay(m)

OnLocation == LET m == Message("location", "Current", <<>>) IN Record(m, Converted(m))
OnChassisCommand ==
  \E mode \in Modes, navi \in NaviModes, code \in Buoyancies, layout \in Layouts("command") :
    LET m == Message("command", layout,
                     [mode |-> mode, navi_mode |-> navi, buoyancy_adjust |-> code])
    IN  Record(m, Converted(m))
OnChassisStates ==
  \E code \in TankCodes, layout \in ChassisLayouts :
    LET m == Message("chassis", layout, [water_tank_status |-> code])
    IN  Record(m, Converted(m))
OnTask ==
  \E code \in Buoyancies :
    LET m == Message("task", "Current", [buoyancy_adjust |-> code]) IN Record(m, Converted(m))
OnPerception ==
  \E topic \in {"range", "inspection"}, stamp \in Stamps :
    LET m == Message(topic, "Current", [stamp |-> stamp]) IN Record(m, Converted(m))
OnAction ==
  \E owner \in 0..2, state \in {1, 3}, mode \in {1, 2},
     goal \in {0} \cup {2 * u : u \in Uuids} \cup {2 * u + 1 : u \in Uuids} :
    LET m == Message("action", "Current",
                     [owner |-> owner, state |-> state, chassis_mode |-> mode,
                      goal_uuid |-> goal, buoyancy_adjust |-> 0])
    IN  Record(m, ActionState(m))

\* Paths are ignored by both links during a center turn.
OnPath ==
  \E topic \in {"local", "global"}, stamp \in Stamps, count \in Lengths :
    LET m == Message(topic, "Current", [stamp |-> stamp, count |-> count]) IN
    /\ Count /\ UNCHANGED node
    /\ IF Turning(live) THEN UNCHANGED <<live, last>>
       ELSE live' = With(live, m, Trajectory(m)) /\ Observe(m)
    /\ IF Turning(bag) THEN UNCHANGED <<bag, opens, worker>> ELSE Replay(m)

OnFinalTargets ==
  \E set \in TargetSets, stamp \in Stamps :
    LET m == Message("targets", "Current",
                     [targets |-> set.targets, odom |-> set.odom, stamp |-> stamp]) IN
    /\ Count /\ Observe(m) /\ UNCHANGED <<node, opens, worker>>
    /\ live' = With(live, m, FinalTargets(m))
    /\ bag' = IF opens /\ DecodesTargets(m) THEN With(bag, m, DecodeFinalTargets(m)) ELSE bag

\* Hidden topics: native status and progress of an action, by its UUID.
WithFact(action, u, fact) ==
  IF action # Absent /\ SameGoal(u, action.fields.goal_uuid[2])
  THEN [action EXCEPT !.fields = [@ EXCEPT ![fact] = <<fact, n + 1>>]] ELSE action
OnHidden ==
  \E u \in Uuids, fact \in DOMAIN NoFacts :
    /\ Count /\ UNCHANGED <<opens, last>>
    /\ node' = [node EXCEPT ![u] = [@ EXCEPT ![fact] = n + 1]]
    /\ live' = [live EXCEPT !["action"] = WithFact(@, u, fact)]
    /\ IF opens THEN /\ worker' = [worker EXCEPT ![u] = [@ EXCEPT ![fact] = n + 1]]
                     /\ bag' = [bag EXCEPT !["action"] = WithFact(@, u, fact)]
       ELSE UNCHANGED <<worker, bag>>

Init == /\ n = 0 /\ opens = TRUE
        /\ live = Nothing /\ bag = Nothing /\ last = Nothing
        /\ node = NoCache /\ worker = NoCache
Next == OnLocation \/ OnChassisCommand \/ OnChassisStates \/ OnTask \/ OnPerception
        \/ OnAction \/ OnPath \/ OnFinalTargets \/ OnHidden
Spec == Init /\ [][Next]_vars
-----------------------------------------------------------------------------
(* Properties                                                              *)
\* The recent terminal action is compared without its hidden facts: the
\* decoder copies it before it merges them.
Comparable(slot) ==
  IF slot = Absent \/ "recent_terminal" \notin DOMAIN slot.items THEN slot
  ELSE [slot EXCEPT !.items.recent_terminal =
          [i \in DOMAIN @ |-> [f \in DOMAIN @[i] \ DOMAIN NoFacts |-> @[i][f]]]]

\* memory/PROTOCOL_DESIGN.md requires that the server's snapshot and the
\* local decoder provide every field the client consumes alike, in value and
\* in absence: after any messages of the current layouts, both links show
\* the same.
BothLinksAgree ==
  \A t \in Topics :
    (last[t] = Absent \/ last[t].layout = Newest(t)) =>
      Comparable(Shown(t, live[t])) = Comparable(Shown(t, bag[t]))

\* A bag of an older layout opens and shows the fields it has as the live
\* link would, nothing shifted and no motor invented; an old command with
\* mode 2 keeps the vertical control that its navi_mode tells.
OldBagsAligned ==
  \A t \in {"command", "chassis"} :
    (last[t] # Absent /\ last[t].layout # Newest(t)) =>
      LET alive == Shown(t, live[t])
          shown == Shown(t, bag[t])
      IN  /\ opens
          /\ IF t = "command"
             THEN shown = [alive EXCEPT !.fields =
                    [@ EXCEPT !.vertical = VerticalControlMode(last[t].said.navi_mode)]]
             ELSE shown = [alive EXCEPT !.items =
                    [alive.items EXCEPT !.motors =
                       SubSeq(alive.items.motors, 1, IF HasTails(last[t].layout) THEN 2 ELSE 0)]]

\* Whatever came before, a slot holds the fields of the newest message of its
\* topic and each under its own name: no read is shifted, no field is kept
\* from an older message, and no path outlives the turn that removed it.
FieldsOfLastMessage ==
  \A t \in Topics : \A slot \in {live[t], bag[t]} : slot # Absent =>
    /\ last[t] # Absent
    /\ t \notin {"local", "global", "targets"} =>
         \A f \in DOMAIN slot.fields \cap Names(Declared(t, last[t].layout)) :
           slot.fields[f] = Value(last[t], f)
    /\ t \in {"local", "global"} =>
         /\ Len(slot.items.point) = last[t].said.count
         /\ last.command # Absent => last.command.said.mode \notin {10, 11}

\* memory/CUSTOM_MSG_FIELD_MATRIX.md: server and local decoder apply the same
\* rules to final targets, and a rejected set tells its reason.
TargetsAgree == Shown("targets", live["targets"]) = Shown("targets", bag["targets"])
=============================================================================
