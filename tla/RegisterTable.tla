---------------------------- MODULE RegisterTable ----------------------------
(***************************************************************************)
(* The registers the daemon writes, one definition per register class of   *)
(* Device/CPU/Intel/Registers and Device/CPU/AMD/Registers: the fields its *)
(* set() replaces, in the code's order, as pairs <<high, low>>.            *)
(*   windows  sets of fields that set() writes only when the time window   *)
(*            asked for is representable, and never compares afterwards    *)
(*   loose    fields whose comparison only asks whether both sides differ  *)
(*            from zero                                                    *)
(* The conversions between the values of a request and raw field values    *)
(* (power units, time windows, activity windows) are not part of it.       *)
(***************************************************************************)
EXTENDS Naturals, Sequences

Bit(n) == <<n, n>>

Plain(fields) == [fields |-> fields, windows |-> {}, loose |-> {}]

\* ---- Intel ----

MSR_POWER_CTL_NHLM == Plain(<<Bit(1)>>)
MSR_POWER_CTL_SB   == Plain(<<Bit(0), Bit(1), Bit(19), Bit(20)>>)
MSR_POWER_CTL_CU1  ==
    Plain(<<Bit(0), Bit(1), Bit(2), Bit(3)>>
          \o [i \in 1 .. 11 |-> Bit(17 + i)] \o <<Bit(30)>>)

IA32_ENERGY_PERF_BIAS == Plain(<<<<3, 0>>>>)
IA32_PM_ENABLE        == Plain(<<Bit(0)>>)
IA32_HWP_CTL          == Plain(<<Bit(0)>>)
IA32_MISC_ENABLE      == Plain(<<Bit(16), Bit(38)>>)
MSR_PP0_POLICY        == Plain(<<<<4, 0>>>>)
MSR_PP1_POLICY        == Plain(<<<<4, 0>>>>)

MSR_MISC_PWR_MGMT_NHLM == Plain(<<Bit(0)>>)

MSR_PP1_CURRENT_CONFIG    == Plain(<<<<12, 0>>, Bit(31)>>)
MSR_VR_CURRENT_CONFIG_SB  == Plain(<<<<12, 0>>, Bit(31)>>)
MSR_VR_CURRENT_CONFIG_CU1 == Plain(<<<<15, 0>>, Bit(31)>>)

MSR_TURBO_POWER_CURRENT_LIMIT ==
    Plain(<<<<14, 0>>, Bit(15), <<30, 16>>, Bit(31)>>)

MSR_TURBO_RATIO_LIMIT == Plain([i \in 1 .. 8 |-> <<8 * i - 1, 8 * (i - 1)>>])

MSR_PKG_CST_CONFIG_CONTROL_SB ==
    Plain(<<<<2, 0>>, Bit(10), Bit(15), Bit(25), Bit(26), Bit(27), Bit(28)>>)
MSR_PKG_CST_CONFIG_CONTROL_CU1 ==
    Plain(<<<<3, 0>>, <<7, 4>>, Bit(10), Bit(15)>>
          \o [i \in 1 .. 7 |-> Bit(24 + i)])

HWPRequestFields ==
    <<<<7, 0>>, <<15, 8>>, <<23, 16>>, <<31, 24>>, <<38, 32>>, <<41, 39>>>>

IA32_HWP_REQUEST_PKG == Plain(HWPRequestFields)
IA32_HWP_REQUEST ==
    Plain(HWPRequestFields \o <<Bit(42)>> \o [i \in 1 .. 5 |-> Bit(58 + i)])

MSR_PKG_POWER_LIMIT ==
    [fields  |-> <<<<14, 0>>, Bit(15), Bit(16), <<46, 32>>, Bit(47), Bit(48), Bit(63),
                   <<21, 17>>, <<23, 22>>, <<53, 49>>, <<55, 54>>>>,
     windows |-> {{8, 9}, {10, 11}},
     loose   |-> {}]

MCHBAR_PACKAGE_RAPL_LIMIT_IVB ==
    [fields  |-> <<<<14, 0>>, Bit(15), <<46, 32>>, Bit(47), Bit(63), <<21, 17>>, <<23, 22>>>>,
     windows |-> {{6, 7}},
     loose   |-> {}]

MCHBAR_PACKAGE_RAPL_LIMIT_TGL ==
    [fields  |-> <<<<14, 0>>, Bit(15), Bit(16), <<46, 32>>, Bit(47), Bit(63),
                   <<21, 17>>, <<23, 22>>>>,
     windows |-> {{7, 8}},
     loose   |-> {}]

\* ---- AMD ----

MSR_CORE_PERFORMANCE_BOOST == Plain(<<Bit(25)>>)
MSR_CPPC_ENABLE            == Plain(<<Bit(0)>>)
MSR_PSTATE_CONTROL         == Plain(<<<<3, 0>>>>)

\* set() joins the read desiredPerf and epp to the data with && where the
\* other fields use ==.
MSR_CPPC_REQUEST ==
    [fields  |-> <<<<7, 0>>, <<15, 8>>, <<23, 16>>, <<31, 24>>>>,
     windows |-> {},
     loose   |-> {3, 4}]

RegisterClasses ==
    {MSR_POWER_CTL_NHLM, MSR_POWER_CTL_SB, MSR_POWER_CTL_CU1, IA32_ENERGY_PERF_BIAS,
     IA32_PM_ENABLE, IA32_HWP_CTL, IA32_MISC_ENABLE, MSR_PP0_POLICY, MSR_PP1_POLICY,
     MSR_MISC_PWR_MGMT_NHLM, MSR_PP1_CURRENT_CONFIG, MSR_VR_CURRENT_CONFIG_SB,
     MSR_VR_CURRENT_CONFIG_CU1, MSR_TURBO_POWER_CURRENT_LIMIT, MSR_TURBO_RATIO_LIMIT,
     MSR_PKG_CST_CONFIG_CONTROL_SB, MSR_PKG_CST_CONFIG_CONTROL_CU1,
     IA32_HWP_REQUEST_PKG, IA32_HWP_REQUEST, MSR_PKG_POWER_LIMIT,
     MCHBAR_PACKAGE_RAPL_LIMIT_IVB, MCHBAR_PACKAGE_RAPL_LIMIT_TGL,
     MSR_CORE_PERFORMANCE_BOOST, MSR_CPPC_ENABLE, MSR_PSTATE_CONTROL, MSR_CPPC_REQUEST}
===============================================================================
