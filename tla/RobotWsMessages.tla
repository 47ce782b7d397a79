-------------------------- MODULE RobotWsMessages ---------------------------
(***************************************************************************)
(* The messages of robot_ws as both links meet them: custom_msgs declares  *)
(* the fields, CDR puts them at aligned offsets.  The repository holds no  *)
(* .msg files; the declarations are those that its decoder tests write     *)
(* (tests/PlaybackValidationMain.cpp).  A field is <<name, size>>; offsets *)
(* count from the end of the encapsulation header; a string or a sequence  *)
(* counts as its length word.                                              *)
(***************************************************************************)
EXTENDS Naturals, Sequences, FiniteSets, SequencesExt

Of(size, names) == [i \in DOMAIN names |-> <<names[i], size>>]
Numbered(name, count, size) ==
  [i \in 1..count |-> <<name \o ToString(i), size>>]
Under(prefix, fields) ==
  [i \in DOMAIN fields |-> <<prefix \o fields[i][1], fields[i][2]>>]
If(cond, fields) == IF cond THEN fields ELSE <<>>
Names(fields) == {fields[i][1] : i \in DOMAIN fields}

Location ==
  Of(8, <<"start_time", "gps_time", "status", "error", "longitude", "latitude",
          "height", "depth", "gauss_x", "gauss_y", "gauss_z", "origin_longitude",
          "origin_latitude", "origin_x", "origin_y", "origin_z", "odom_x", "odom_y",
          "odom_z", "odom_heading", "velocity_x", "velocity_y", "velocity_z",
          "velocity", "pitch", "roll", "heading", "omega_x", "omega_y", "omega_z",
          "acc_x", "acc_y", "acc_z", "acc">>)
  \o Numbered("usbl_msg", 4, 8) \o Of(8, <<"usbl_x", "usbl_y", "usbl_z">>)
ChassisCommand(layout) ==
  Of(1, <<"mode", "is_enable", "emergency_ascent">>)
  \o Of(8, <<"speed", "angular_velocity">>)
  \o Of(1, <<"expected_gear", "is_use_water_actuator", "navi_mode">>)
  \o Of(8, <<"depth", "height", "heading">>)
  \o If(layout = "LegacyWithDiveSpeed", Of(8, <<"dive_speed">>))
  \o Of(1, <<"left_water_actuator_speed", "right_water_actuator_speed",
             "buoyancy_adjust", "is_open_sonar_power">>)
SystemRunStates ==
  Of(1, <<"owner">>) \o Of(4, <<"goal_uuid">>) \o Of(1, <<"state">>)
  \o Of(4, <<"message">>)
  \o Of(1, <<"chassis_mode", "is_enable", "emergency_ascent", "navi_mode">>)
  \o Of(8, <<"target_depth", "target_height">>) \o Of(1, <<"buoyancy_adjust">>)
  \o Of(8, <<"target_speed", "target_heading", "target_angular_velocity">>)
TaskParams ==
  Of(1, <<"task_type", "task_id", "task_enable", "emergency_stop",
          "release_emergency_ascent", "remote_mode", "power_enable", "is_enable",
          "buoyancy_adjust", "crawl_gear">>)
  \o Of(8, <<"crawl_speed", "crawl_angular_velocity">>)
  \o Of(1, <<"forward_percent", "turn_percent", "dive_percent",
             "left_tail_speed", "right_tail_speed", "left_vertical_speed",
             "right_vertical_speed", "back_vertical_speed">>)
  \o Numbered("power_supply", 16, 1)
Header == Of(4, <<"sec", "nanosec", "frame_id">>)
Point(name) == Of(8, <<name \o "_x", name \o "_y", name \o "_z">>)
CustomPoint(name) == Under(name, Numbered("_", 4, 8)) \o Point(name)
                     \o Under(name, Of(8, <<"_8">>))
RangeMotionRequest ==
  Header \o Of(4, <<"task_id", "command_seq">>) \o Of(1, <<"motion">>)
  \o Of(4, <<"speed_limit_mps", "reason">>)
InspectionRequestGoal ==
  Header \o Of(4, <<"task_id", "goal_id">>) \o Of(2, <<"target_id">>)
  \o CustomPoint("target") \o CustomPoint("goal") \o Of(8, <<"goal_heading">>)
  \o Of(1, <<"hold_on_arrival", "mode">>) \o Of(4, <<"speed_limit">>)
PathPoint(topic) ==
  If(topic = "global", Header) \o Point("position")
  \o Of(8, <<"q_x", "q_y", "q_z", "q_w">>)
  \o If(topic = "local",
        Point("velocity") \o Point("turning") \o Point("acceleration")
        \o Point("turning_acceleration") \o Of(4, <<"from_start_sec", "from_start_ns">>))
-----------------------------------------------------------------------------
(* ChassisStates grew by heading diagnostics and motor feedback            *)
HasHeading(layout) == layout \in {"Current", "CurrentWithTail", "CurrentWithAll"}
HasTails(layout) == layout \in {"LegacyWithTail", "CurrentWithTail", "CurrentWithAll"}
HasVerticals(layout) == layout = "CurrentWithAll"
ChassisLayouts ==
  {"Legacy", "LegacyWithTail", "Current", "CurrentWithTail", "CurrentWithAll"}

TailThrusters == <<"left_tail", "right_tail">>
VerticalThrusters == <<"left_vertical", "right_vertical", "back_vertical">>
Feedback == Of(8, <<"_bus_current">>) \o Of(2, <<"_controller_temperature">>)
            \o Of(8, <<"_target_rpm", "_actual_rpm">>)
Motor == Of(8, <<"_rpm", "_torque">>) \o Of(2, <<"_temperature">>)
         \o Of(8, <<"_bus_voltage">>) \o Of(1, <<"_ready", "_output">>)
         \o Of(2, <<"_u_temperature", "_v_temperature">>)
         \o Of(1, <<"_fault", "_fault_code">>)
MotorCommand == Of(1, <<"_enable", "_speed_mode", "_reverse">>)
                \o Of(8, <<"_command_rpm", "_command_torque">>)
Sides == <<"left_crawl", "right_crawl">>
Each(names, fields) == FlattenSeq([i \in DOMAIN names |-> Under(names[i], fields)])
ChassisStates(layout) ==
  Each(TailThrusters \o VerticalThrusters, Of(1, <<"_status">>))
  \o If(HasHeading(layout), Of(8, <<"heading_kp">>)) \o Of(1, <<"water_heartbeat">>)
  \o If(HasHeading(layout), Of(8, <<"heading_target_value", "heading_actual_value",
                                    "heading_error", "heading_output">>))
  \o If(HasTails(layout), Each(TailThrusters, Feedback))
  \o If(HasVerticals(layout), Each(VerticalThrusters, Feedback))
  \o Of(1, <<"water_tank_level", "water_tank_is_raw", "water_tank_status", "gear">>)
  \o Of(8, <<"current_speed", "current_angular_velocity">>)
  \o Each(Sides, Of(1, <<"_actuator">>)) \o Of(1, <<"crawl_heartbeat">>)
  \o Each(Sides, Motor) \o Each(Sides, MotorCommand)
  \o Of(1, <<"bms_status", "bms_heartbeat", "bms_alarm_level", "bms_current_status">>)
  \o Of(8, <<"bms_voltage", "bms_current">>)
  \o Of(1, <<"bms_max_voltage_index">>) \o Of(8, <<"bms_max_voltage">>)
  \o Of(1, <<"bms_min_voltage_index">>) \o Of(8, <<"bms_min_voltage">>)
  \o Of(1, <<"bms_max_temperature_index", "bms_max_temperature",
             "bms_min_temperature_index", "bms_min_temperature">>)
  \o Numbered("warning", 12, 1) \o Of(1, <<"dcdc">>) \o Numbered("power", 16, 1)
  \o Of(1, <<"bms_soc">>) \o Of(8, <<"input_voltage">>)
  \o Of(1, <<"emergency_ascent_active">>)
-----------------------------------------------------------------------------
(* Alignment                                                               *)
Aligned(position, size) == ((position + size - 1) \div size) * size
\* The fields of a payload where they lie: <<offset, size, name>>.  `at' is
\* where a run of fields of one size begins.
Laid(fields) ==
  LET size(i) == fields[i][2]
      heads == {i \in DOMAIN fields : i = 1 \/ size(i) # size(i - 1)}
      head(i) == Max({h \in heads : h <= i})
      at[i \in heads] ==
        IF i = 1 THEN 0
        ELSE LET h == head(i - 1) IN Aligned(at[h] + (i - h) * size(h), size(i))
  IN  {<<at[head(i)] + (i - head(i)) * size(i), size(i), fields[i][1]>> : i \in DOMAIN fields}
PayloadSize(fields) == 4 + Max({f[1] + f[2] : f \in Laid(fields)})

\* What reading the payload of a declaration in another order yields: for
\* every read the name of the field that lies there.
Misread == "misread"
Reading(declared, reads) ==
  LET lies == Laid(declared)
      read == Laid(reads)
      At(w) == LET r == CHOOSE r \in read : r[3] = w
               IN  {d \in lies : d[1] = r[1] /\ d[2] = r[2]}
  IN  [w \in Names(reads) |->
         IF At(w) = {} THEN Misread ELSE (CHOOSE d \in At(w) : TRUE)[3]]
=============================================================================
