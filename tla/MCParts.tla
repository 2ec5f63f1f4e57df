------------------------------ MODULE MCParts ------------------------------
(***************************************************************************)
(* The drivers and services that are checked one at a time, in one run.    *)
(* Each of them runs on its own: the variable part says which one a        *)
(* behaviour is about, and the variables of the others keep their initial  *)
(* values.  They meet through the kernel and the hardware only, whose      *)
(* freedom is in each module already.                                      *)
(***************************************************************************)
EXTENDS SampleBuffer, SpiSlave, SpiMaster, I2cSlave, UartRx, Gpio, MCQspiFlash,
        RpcTables, MrswWriterPreferred, ApCache, WifiManager, Dhcpd, UsbControl,
        GenericPipeline, Swmem

VARIABLE part   \* the component that runs

partVars == <<part, smpVars, spsVars, spmVars, iscVars, urxVars, gpioVars, qfVars,
              marshalVars, wpVars, apVars, wmVars, dhVars, usbVars, gpVars, swmVars>>

Parts == {"samples", "spi_slave", "spi_master", "i2c_slave", "uart_rx", "gpio",
          "qspi_flash", "rpc", "mrsw_writer", "ap_cache", "wifi", "dhcpd", "usb",
          "pipeline", "swmem"}

-----------------------------------------------------------------------------
\* The part that runs starts in any of its initial states, the others in one.
PartsInit ==
    /\ part \in Parts
    /\ SampleInit /\ (part # "samples" => smpKind = "i2s")
    /\ SpsInit /\ (part # "spi_slave" => spsCtx.drop)
    /\ SpmInit
    /\ IscInit /\ (part # "i2c_slave" => iscCtx.tx_done)
    /\ UrxInit
    /\ GpioInit /\ (part # "gpio" => gpioPins = 0 /\ gpioRemote)
    /\ QfInit /\ (part # "qspi_flash" => qfFast /\ qfFlash[0] = "FF")
    /\ IF part = "rpc" THEN MarshalInit \/ TablesInit ELSE CallOf(<<>>, <<>>)
    /\ WpInit /\ ApInit
    /\ WmInit /\ (part # "wifi" => wmMode = "sta")
    /\ DhInit /\ UsbInit
    /\ GpInit /\ (part # "pipeline" => gpCount = 1)
    /\ SwmInit /\ (part # "swmem" => swmIsrCore = 0 /\ swmThread.core = 0)

PartStep ==
    \/ /\ part = "samples" /\ SampleNext
       /\ UNCHANGED <<spsVars, spmVars, iscVars, urxVars, gpioVars, qfVars, marshalVars,
                      wpVars, apVars, wmVars, dhVars, usbVars, gpVars, swmVars>>
    \/ /\ part = "spi_slave" /\ SpsNext
       /\ UNCHANGED <<smpVars, spmVars, iscVars, urxVars, gpioVars, qfVars, marshalVars,
                      wpVars, apVars, wmVars, dhVars, usbVars, gpVars, swmVars>>
    \/ /\ part = "spi_master" /\ SpmNext
       /\ UNCHANGED <<smpVars, spsVars, iscVars, urxVars, gpioVars, qfVars, marshalVars,
                      wpVars, apVars, wmVars, dhVars, usbVars, gpVars, swmVars>>
    \/ /\ part = "i2c_slave" /\ IscNext
       /\ UNCHANGED <<smpVars, spsVars, spmVars, urxVars, gpioVars, qfVars, marshalVars,
                      wpVars, apVars, wmVars, dhVars, usbVars, gpVars, swmVars>>
    \/ /\ part = "uart_rx" /\ UrxNext
       /\ UNCHANGED <<smpVars, spsVars, spmVars, iscVars, gpioVars, qfVars, marshalVars,
                      wpVars, apVars, wmVars, dhVars, usbVars, gpVars, swmVars>>
    \/ /\ part = "gpio" /\ GpioNext
       /\ UNCHANGED <<smpVars, spsVars, spmVars, iscVars, urxVars, qfVars, marshalVars,
                      wpVars, apVars, wmVars, dhVars, usbVars, gpVars, swmVars>>
    \/ /\ part = "qspi_flash" /\ QfNext
       /\ UNCHANGED <<smpVars, spsVars, spmVars, iscVars, urxVars, gpioVars, marshalVars,
                      wpVars, apVars, wmVars, dhVars, usbVars, gpVars, swmVars>>
    \/ /\ part = "rpc" /\ MarshalNext
       /\ UNCHANGED <<smpVars, spsVars, spmVars, iscVars, urxVars, gpioVars, qfVars,
                      wpVars, apVars, wmVars, dhVars, usbVars, gpVars, swmVars>>
    \/ /\ part = "mrsw_writer" /\ WpNext
       /\ UNCHANGED <<smpVars, spsVars, spmVars, iscVars, urxVars, gpioVars, qfVars,
                      marshalVars, apVars, wmVars, dhVars, usbVars, gpVars, swmVars>>
    \/ /\ part = "ap_cache" /\ ApNext
       /\ UNCHANGED <<smpVars, spsVars, spmVars, iscVars, urxVars, gpioVars, qfVars,
                      marshalVars, wpVars, wmVars, dhVars, usbVars, gpVars, swmVars>>
    \/ /\ part = "wifi" /\ WmNext
       /\ UNCHANGED <<smpVars, spsVars, spmVars, iscVars, urxVars, gpioVars, qfVars,
                      marshalVars, wpVars, apVars, dhVars, usbVars, gpVars, swmVars>>
    \/ /\ part = "dhcpd" /\ DhNext
       /\ UNCHANGED <<smpVars, spsVars, spmVars, iscVars, urxVars, gpioVars, qfVars,
                      marshalVars, wpVars, apVars, wmVars, usbVars, gpVars, swmVars>>
    \/ /\ part = "usb" /\ UsbNext
       /\ UNCHANGED <<smpVars, spsVars, spmVars, iscVars, urxVars, gpioVars, qfVars,
                      marshalVars, wpVars, apVars, wmVars, dhVars, gpVars, swmVars>>
    \/ /\ part = "pipeline" /\ GpNext
       /\ UNCHANGED <<smpVars, spsVars, spmVars, iscVars, urxVars, gpioVars, qfVars,
                      marshalVars, wpVars, apVars, wmVars, dhVars, usbVars, swmVars>>
    \/ /\ part = "swmem" /\ SwmNext
       /\ UNCHANGED <<smpVars, spsVars, spmVars, iscVars, urxVars, gpioVars, qfVars,
                      marshalVars, wpVars, apVars, wmVars, dhVars, usbVars, gpVars>>

PartsNext == PartStep /\ UNCHANGED part

\* Code that can go on does, in the part that runs: threads and interrupt
\* routines are scheduled, and the other side answers.  A task that spins for the
\* spinlock of the flash gets it if it is free again and again.
PartsFairness ==
    /\ WF_smpVars(part = "samples" /\ BusCode) /\ WF_smpVars(part = "samples" /\ I2sIsr)
    /\ \A d \in {"rx", "tx"} : WF_smpVars(part = "samples" /\ SampleCode(d))
    /\ WF_spsVars(part = "spi_slave" /\ rtos_spi_slave_isr)
    /\ WF_spsVars(part = "spi_slave" /\ SpsAppStep)
    /\ WF_spmVars(part = "spi_master" /\ SpmThreadStep)
    /\ \A t \in SpmTasks : WF_spmVars(part = "spi_master" /\ SpmTaskStep(t))
    /\ WF_iscVars(part = "i2c_slave" /\ IscHilCode)
    /\ WF_iscVars(part = "i2c_slave" /\ IscAppCode)
    /\ WF_iscVars(part = "i2c_slave" /\ rtos_i2c_slave_isr)
    /\ WF_iscVars(part = "i2c_slave" /\ IscSetFlags)
    /\ WF_urxVars(part = "uart_rx" /\ UrxIsrCode)
    /\ WF_urxVars(part = "uart_rx" /\ UrxAppCode)
    /\ WF_gpioVars(part = "gpio" /\ GpioIsrCode)
    /\ WF_gpioVars(part = "gpio" /\ rtos_gpio_rpc_client_isr)
    /\ WF_qfVars(part = "qspi_flash" /\ QfThreadStep)
    /\ WF_qfVars(part = "qspi_flash" /\ QfLlPut)
    /\ \A t \in QfTasks :
          /\ WF_qfVars(part = "qspi_flash" /\ QfTaskStep(t))
          /\ SF_qfVars(part = "qspi_flash" /\ QfSpinGet(t))
    /\ WF_wmVars(part = "wifi" /\ (Answer \/ BusTask))
    /\ WF_wmVars(part = "wifi" /\ wifi_conn_mgr_network_event)
    /\ WF_wmVars(part = "wifi" /\ (Manager \/ DriverCall("mgr")))
    /\ WF_wmVars(part = "wifi" /\ DriverCall("app"))
    /\ \A s \in 0..GpStages - 1 :
          WF_gpVars(part = "pipeline" /\ s \in GpThreads /\ GpStageCode(s))
    /\ WF_swmVars(part = "swmem" /\ SwmSetFlags)
    /\ WF_swmVars(part = "swmem" /\ SwmThreadCode)

PartsSpec == PartsInit /\ [][PartsNext]_partVars /\ PartsFairness

-----------------------------------------------------------------------------
\* What somebody waits for, in the part that runs, for each of two of those who
\* may wait: a task that waits for samples or for room, a transfer that the SPI
\* slave has yet to report, a task that has the SPI bus, the I2C slave that
\* stretches the clock or has yet to report a transfer, bytes in the UART's FIFO,
\* a value on the pins, a task that reads the flash, a WiFi link that is gone,
\* a frame in the pipeline, a request of the software memory left to its thread.
Due(k) ==
    CASE part = "samples" -> SampleAwaited(IF k = 1 THEN "rx" ELSE "tx")
      [] part = "spi_slave" -> SpsUnreported
      [] part = "spi_master" -> spmLock = k
      [] part = "i2c_slave" -> IF k = 1 THEN IscStretched ELSE IscUntold
      [] part = "uart_rx" -> UrxHeldBack
      [] part = "gpio" -> GpioUnseen(k)
      [] part = "qspi_flash" -> qfTask[k].pc = "wait"
      [] part = "wifi" -> WmStranded
      [] part = "pipeline" -> GpInPipeline(k)
      [] part = "swmem" -> SwmLeft(k)
      [] OTHER -> FALSE

\* Nobody waits for ever: the semaphores, notifications and flags that wake the
\* waiting are given on every path, also when they were taken by somebody else
\* or given before anybody waited; and after a link is lost the connection
\* manager lets go of it or has it back.
PartsProgress == \A k \in {1, 2} : []<> ~ Due(k)
=============================================================================
